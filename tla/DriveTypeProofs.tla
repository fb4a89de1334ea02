----------------------------- MODULE DriveTypeProofs -----------------------------
(***************************************************************************)
(* Proofs about Drive, for every size of the drive and every sequence of   *)
(* commands, mounts and crashes: what its variables hold, and that display *)
(* agrees with cat.                                                        *)
(***************************************************************************)
EXTENDS Drive, CountingLemmas

-----------------------------------------------------------------------------
(* The layout of the drive.                                                *)

(* The sizes are numbers, there is room behind the summary blocks, and     *)
(* block 0 is a summary block.                                             *)
LEMMA LayoutIs ==
  /\ NumSegments \in Nat \ {0} /\ BlockSize \in Nat \ {0} /\ MaxData \in Nat \ {0}
  /\ NumFiles \in Nat \ {0} /\ ChunkLen \in Nat \ {0} /\ NumSsbs \in Nat \ {0}
  /\ SegSize \in Nat /\ SegSize > NumSsbs /\ MaxData <= NumFiles
  /\ CleanSpan \in 0..NumSegments /\ CleanBelow \in Nat
  /\ 0 \in Segs /\ Nil \in Addr /\ FirstAddr \in Addr /\ 0 \in Inodes
  /\ Slots \subseteq 0..(SegSize - 1) /\ 0 \notin Slots
<1>1. /\ NumSegments \in Nat \ {0} /\ BlockSize \in Nat \ {0} /\ MaxData \in Nat \ {0}
      /\ NumFiles \in Nat \ {0} /\ ChunkLen \in Nat \ {0} /\ NumSsbs \in Nat \ {0}
      /\ SegSize \in Nat /\ SegSize > NumSsbs /\ MaxData <= NumFiles
      /\ CleanSpan \in 0..NumSegments /\ CleanBelow \in Nat
  BY LayoutAssumption DEF LayoutAssumption
<1>2. 0 \in Segs /\ 0 \in Inodes /\ 0 \in 0..(SegSize - 1) /\ NumSsbs \in 0..(SegSize - 1)
  BY <1>1 DEF Segs, Inodes
<1>3. Slots \subseteq 0..(SegSize - 1) /\ 0 \notin Slots
  BY <1>1 DEF Slots
<1>4. QED
  BY <1>1, <1>2, <1>3 DEF Addr, Nil, FirstAddr

(* A product determines the order of its factors.                          *)
LEMMA Factors ==
  ASSUME NEW n \in Nat \ {0}, NEW a \in Int, NEW b \in Int
  PROVE  /\ n * a < n * b => a < b
         /\ n * a <= n * b => a <= b
         /\ n * (a + 1) = n * a + n
<1>1. PICK d \in Int : d = b - a
  OBVIOUS
<1>2. n * d = n * b - n * a
  BY <1>1
<1>3. (d <= 0 => n * d <= 0) /\ (d <= -1 => n * d <= -n)
  OBVIOUS
<1>4. QED
  BY <1>1, <1>2, <1>3

(* Each inode has its place in a chunk.                                    *)
LEMMA ChunkOfInode ==
  ASSUME NEW i \in Inodes
  PROVE  /\ ChunkOf(i) \in Chunks /\ i % ChunkLen \in 0..(ChunkLen - 1)
         /\ i = ChunkOf(i) * ChunkLen + (i % ChunkLen)
<1>1. /\ i \in Nat /\ i < NumFiles /\ ChunkLen \in Nat \ {0} /\ NumFiles \in Nat \ {0}
      /\ NumFiles % ChunkLen = 0
  BY LayoutIs, LayoutAssumption DEF Inodes, LayoutAssumption
<1> DEFINE q == i \div ChunkLen
           r == i % ChunkLen
           n == NumFiles \div ChunkLen
<1>2. q \in Int /\ r \in 0..(ChunkLen - 1) /\ i = ChunkLen * q + r
  BY <1>1, Remainder
<1>3. n \in Int /\ NumFiles = ChunkLen * n
  BY <1>1, Remainder
<1> HIDE DEF q, r, n
<1>4. q >= 0
  <2>1. q <= -1 => ChunkLen * q <= -ChunkLen
    BY <1>1, <1>2
  <2>2. QED
    BY <1>1, <1>2, <2>1
<1>5. q < n
  <2>1. ChunkLen * q < ChunkLen * n
    BY <1>1, <1>2, <1>3
  <2>2. QED
    BY <1>1, <1>2, <1>3, <2>1, Factors
<1>6. ChunkLen * q = q * ChunkLen
  BY <1>1, <1>2
<1>7. QED
  BY <1>2, <1>3, <1>4, <1>5, <1>6 DEF ChunkOf, Chunks, q, r, n

(* Each place in a chunk is that of an inode.                              *)
LEMMA InodeOfChunk ==
  ASSUME NEW c \in Chunks, NEW k \in 0..(ChunkLen - 1)
  PROVE  /\ c * ChunkLen + k \in Inodes
         /\ ChunkOf(c * ChunkLen + k) = c /\ (c * ChunkLen + k) % ChunkLen = k
<1>1. /\ ChunkLen \in Nat \ {0} /\ NumFiles \in Nat \ {0} /\ NumFiles % ChunkLen = 0
      /\ c \in Nat /\ k \in Nat /\ k < ChunkLen /\ c < NumFiles \div ChunkLen
  <2>1. NumFiles \div ChunkLen \in Int
    BY LayoutIs, Remainder
  <2>2. QED
    BY <2>1, LayoutIs, LayoutAssumption DEF Chunks, LayoutAssumption
<1> DEFINE n == NumFiles \div ChunkLen
           i == c * ChunkLen + k
<1>2. n \in Int /\ NumFiles = ChunkLen * n /\ c < n
  BY <1>1, Remainder
<1> HIDE DEF n
<1>3. c * ChunkLen \in Nat /\ c * ChunkLen = ChunkLen * c
  BY <1>1
<1>4. i < NumFiles
  <2>1. PICK d \in Int : d = n - c
    BY <1>1, <1>2
  <2>2. d >= 1 /\ ChunkLen * d = NumFiles - ChunkLen * c
    BY <1>1, <1>2, <2>1
  <2>3. ChunkLen * d >= ChunkLen
    BY <1>1, <2>2
  <2>4. QED
    BY <1>1, <1>3, <2>2, <2>3
<1>5. i \in Nat
  BY <1>1, <1>3
<1> DEFINE q == i \div ChunkLen
           r == i % ChunkLen
<1> HIDE DEF i
<1>6. q \in Int /\ r \in 0..(ChunkLen - 1) /\ i = ChunkLen * q + r
  BY <1>1, <1>5, Remainder, SMTT(60)
<1>7. i = ChunkLen * c + k
  BY <1>3 DEF i
<1> HIDE DEF q, r
<1>8. q = c
  <2>1. PICK d \in Int : d = q - c
    BY <1>1, <1>6
  <2>2. ChunkLen * d = k - r
    BY <1>1, <1>6, <1>7, <2>1
  <2>3. (d >= 1 => ChunkLen * d >= ChunkLen) /\ (d <= -1 => ChunkLen * d <= -ChunkLen)
    BY <1>1
  <2>4. d = 0
    BY <1>1, <1>6, <2>2, <2>3
  <2>5. QED
    BY <1>1, <1>6, <2>1, <2>4
<1>9. r = k
  BY <1>1, <1>6, <1>7, <1>8
<1>10. i \in Inodes
  BY <1>1, <1>4, <1>5 DEF Inodes
<1>11. ChunkOf(i) = c /\ i % ChunkLen = k
  BY <1>8, <1>9 DEF ChunkOf, q, r
<1>12. QED
  BY <1>10, <1>11 DEF i

-----------------------------------------------------------------------------
(* Blocks and cells.  What TypeOK says of them is not enough to step: a    *)
(* file ends within its pointers, and a cell belongs to an inode or chunk. *)

Content  == [1..BlockSize -> Nat]
Pointers == [0..(MaxData - 1) -> Addr]
Chunk    == [0..(ChunkLen - 1) -> Addr]
Block    == {b \in PtrBlock : FileSize(b) <= MaxSize}

Cells ==
  {c \in CellType :
     /\ c.block \in Block
     /\ c.type = "DATA" => c.id \in Inodes /\ c.index \in 0..(MaxData - 1)
     /\ c.type = "INODE" => c.id \in Inodes
     /\ c.type = "IMAP_CHUNK" => c.id \in Chunks}

Image == [Slots -> Cells]

(* The fields of a block.                                                  *)
LEMMA BlockFields ==
  ASSUME NEW b \in Block
  PROVE  /\ b.bytes \in Content /\ b.ptrs \in Pointers /\ b.chunk \in Chunk
         /\ b.name \in Names /\ b.complete \in Nat /\ b.incomplete \in Nat
         /\ b = [bytes |-> b.bytes, ptrs |-> b.ptrs, chunk |-> b.chunk, name |-> b.name,
                 complete |-> b.complete, incomplete |-> b.incomplete]
         /\ FileSize(b) \in Nat /\ FileSize(b) <= MaxSize
<1>1. b \in PtrBlock /\ FileSize(b) <= MaxSize
  BY DEF Block
<1>2. b.name \in Names
  BY <1>1, CommandAssumption DEF PtrBlock, CommandAssumption
<1>3. b.complete \in Nat /\ b.incomplete \in Nat
  BY <1>1 DEF PtrBlock
<1>4. FileSize(b) \in Nat
  BY <1>3, LayoutIs DEF FileSize
<1>5. /\ b.bytes \in Content /\ b.ptrs \in Pointers /\ b.chunk \in Chunk
      /\ b = [bytes |-> b.bytes, ptrs |-> b.ptrs, chunk |-> b.chunk, name |-> b.name,
              complete |-> b.complete, incomplete |-> b.incomplete]
  BY <1>1 DEF PtrBlock, Content, Pointers, Chunk
<1>6. QED
  BY <1>1, <1>2, <1>3, <1>4, <1>5

(* A block is made of its fields.                                          *)
LEMMA BlockOf ==
  ASSUME NEW x \in Content, NEW p \in Pointers, NEW c \in Chunk, NEW n \in Names,
         NEW full \in Nat, NEW part \in Nat, full * BlockSize + part <= MaxSize
  PROVE  [bytes |-> x, ptrs |-> p, chunk |-> c, name |-> n,
          complete |-> full, incomplete |-> part] \in Block
<1> DEFINE b == [bytes |-> x, ptrs |-> p, chunk |-> c, name |-> n,
                 complete |-> full, incomplete |-> part]
<1>1. b \in PtrBlock
  BY DEF PtrBlock, Content, Pointers, Chunk
<1>2. FileSize(b) <= MaxSize
  BY DEF FileSize
<1>3. QED
  BY <1>1, <1>2 DEF Block

(* The largest size is a number.                                           *)
LEMMA MaxSizeIs == MaxSize \in Nat /\ MaxSize = BlockSize * MaxData
BY LayoutIs DEF MaxSize

(* A block of zeros is a block.                                            *)
LEMMA ZeroBlockIs == ZeroBlock \in Block
<1>1. /\ [k \in 1..BlockSize |-> 0] \in Content
      /\ [k \in 0..(MaxData - 1) |-> Nil] \in Pointers
      /\ [k \in 0..(ChunkLen - 1) |-> Nil] \in Chunk
  BY LayoutIs DEF Content, Pointers, Chunk
<1>2. "" \in Names
  BY CommandAssumption DEF CommandAssumption
<1>3. 0 * BlockSize + 0 <= MaxSize
  BY LayoutIs, MaxSizeIs
<1>4. QED
  BY <1>1, <1>2, <1>3, BlockOf DEF ZeroBlock

(* What the writes put into blocks.                                        *)
LEMMA BlockSet ==
  ASSUME NEW b \in Block
  PROVE  /\ \A x \in Content : [b EXCEPT !.bytes = x] \in Block
         /\ \A c \in Chunk : [b EXCEPT !.chunk = c] \in Block
         /\ \A k \in 0..(MaxData - 1), a \in Addr : [b EXCEPT !.ptrs[k] = a] \in Block
<1>1. b.complete * BlockSize + b.incomplete <= MaxSize
  BY BlockFields DEF FileSize
<1>2. ASSUME NEW x \in Content PROVE [b EXCEPT !.bytes = x] \in Block
  <2>1. [b EXCEPT !.bytes = x] =
          [bytes |-> x, ptrs |-> b.ptrs, chunk |-> b.chunk, name |-> b.name,
           complete |-> b.complete, incomplete |-> b.incomplete]
    BY BlockFields
  <2>2. QED
    BY <1>1, <2>1, BlockFields, BlockOf
<1>3. ASSUME NEW c \in Chunk PROVE [b EXCEPT !.chunk = c] \in Block
  <2>1. [b EXCEPT !.chunk = c] =
          [bytes |-> b.bytes, ptrs |-> b.ptrs, chunk |-> c, name |-> b.name,
           complete |-> b.complete, incomplete |-> b.incomplete]
    BY BlockFields
  <2>2. QED
    BY <1>1, <2>1, BlockFields, BlockOf
<1>4. ASSUME NEW k \in 0..(MaxData - 1), NEW a \in Addr
      PROVE  [b EXCEPT !.ptrs[k] = a] \in Block
  <2> DEFINE p == [b.ptrs EXCEPT ![k] = a]
  <2>1. p \in Pointers
    BY BlockFields DEF Pointers
  <2>2. [b EXCEPT !.ptrs[k] = a] =
          [bytes |-> b.bytes, ptrs |-> p, chunk |-> b.chunk, name |-> b.name,
           complete |-> b.complete, incomplete |-> b.incomplete]
    BY BlockFields
  <2> HIDE DEF p
  <2>3. QED
    BY <1>1, <2>1, <2>2, BlockFields, BlockOf
<1>5. QED
  BY <1>2, <1>3, <1>4

(* A cell of each type.                                                    *)
LEMMA CellIs ==
  ASSUME NEW b \in Block
  PROVE  /\ \A i \in Inodes, k \in 0..(MaxData - 1) : Cell("DATA", i, k, b) \in Cells
         /\ \A i \in Inodes : Cell("INODE", i, 0, b) \in Cells
         /\ \A c \in Chunks : Cell("IMAP_CHUNK", c, 0, b) \in Cells
         /\ Cell("SSB", 0, 0, b) \in Cells
<1>1. b \in PtrBlock
  BY DEF Block
<1>2. Inodes \subseteq Nat /\ Chunks \subseteq Nat /\ 0..(MaxData - 1) \subseteq Nat
  BY LayoutIs DEF Inodes, Chunks
<1>3. \A t \in {"SSB", "DATA", "INODE", "IMAP_CHUNK"}, i \in Nat, k \in Nat :
        Cell(t, i, k, b) \in CellType
  BY <1>1 DEF Cell, CellType
<1>4. QED
  BY <1>2, <1>3 DEF Cells, Cell

(* What a segment is cleared to is an image.                               *)
LEMMA BlankIs == EmptyCell \in Cells /\ Blank \in Image
<1>1. EmptyCell \in Cells
  BY ZeroBlockIs, CellIs DEF EmptyCell
<1>2. QED
  BY <1>1 DEF Blank, Image

(* The block of a cell, and one cell put into an image.                    *)
LEMMA ImageSet ==
  ASSUME NEW m \in Image
  PROVE  /\ \A s \in Slots : m[s] \in Cells /\ m[s].block \in Block
         /\ \A s \in Slots, c \in Cells : [m EXCEPT ![s] = c] \in Image
<1>1. \A s \in Slots : m[s] \in Cells /\ m[s].block \in Block
  BY DEF Image, Cells
<1>2. QED
  BY <1>1 DEF Image

-----------------------------------------------------------------------------
(* The segment in memory, its turns, and the cleaner.  The cleaner works   *)
(* in a dirty segment that is not the one in memory, so that what it found *)
(* there stays there until it is done.                                     *)

Memory == [seg : Segs, idx : NumSsbs..SegSize, cells : Image]

SegmentTyped ==
  /\ disk \in [Segs -> Image] /\ mem \in Memory
  /\ dirty \in SUBSET Segs /\ leaveOff \in Addr
  /\ imap \in [Inodes -> Addr] /\ cr \in [Chunks -> Addr]

CleanerRecord ==
  [pc : {"off", "scan", "move"}, seg : 0..NumSegments, orphan : Segs,
   data : SUBSET Slots, nodes : [Inodes -> Block], inos : SUBSET Inodes,
   chunks : SUBSET Chunks]

CleanerTyped ==
  /\ cl \in CleanerRecord
  /\ cl.pc # "off" => cl.seg <= CleanSpan
  /\ cl.pc = "move" =>
       /\ cl.seg < CleanSpan /\ cl.seg \in dirty /\ cl.seg # mem.seg
       /\ \A s \in cl.data : disk[cl.seg][s].type = "DATA"

(* What is read from the drive is a block.                                 *)
LEMMA BlocksAre ==
  ASSUME SegmentTyped, NEW a \in Addr
  PROVE  DiskBlock(a) \in Block /\ MemBlock(a) \in Block /\ BlockAt(a) \in Block
<1>1. a[1] \in Segs /\ disk[a[1]] \in Image /\ mem.cells \in Image
  BY DEF SegmentTyped, Memory, Addr
<1>2. a[2] \in Slots => disk[a[1]][a[2]].block \in Block /\ mem.cells[a[2]].block \in Block
  BY <1>1, ImageSet
<1>3. QED
  BY <1>2, ZeroBlockIs DEF DiskBlock, MemBlock, BlockAt

(* A memory segment is made of its fields.                                 *)
LEMMA MemoryFields ==
  ASSUME NEW m \in Memory
  PROVE  /\ m.seg \in Segs /\ m.idx \in NumSsbs..SegSize /\ m.cells \in Image
         /\ m = [seg |-> m.seg, idx |-> m.idx, cells |-> m.cells]
BY DEF Memory

(* One cell is put behind those that were written.                         *)
LEMMA PutIs ==
  ASSUME SegmentTyped, NEW c \in Cells, Put(c)
  PROVE  /\ mem.idx \in Slots /\ Here \in Addr /\ Here # Nil
         /\ Here[1] = mem.seg /\ Here[2] = mem.idx
         /\ disk' = disk /\ dirty' = dirty \cup {mem.seg} /\ leaveOff' = Here
         /\ mem' \in Memory /\ mem'.seg = mem.seg /\ mem'.idx = mem.idx + 1
         /\ mem'.cells = [mem.cells EXCEPT ![mem.idx] = c]
         /\ dirty' \in SUBSET Segs
<1>1. /\ mem \in Memory /\ mem.seg \in Segs /\ mem.idx \in NumSsbs..SegSize
      /\ mem.cells \in Image /\ dirty \in SUBSET Segs
      /\ mem = [seg |-> mem.seg, idx |-> mem.idx, cells |-> mem.cells]
  BY MemoryFields DEF SegmentTyped
<1>2. mem.idx # SegSize /\ disk' = disk /\ dirty' = dirty \cup {mem.seg} /\ leaveOff' = Here
  BY DEF Put, Full
<1>3. mem.idx \in Slots /\ mem.idx + 1 \in NumSsbs..SegSize
  BY <1>1, <1>2, LayoutIs DEF Slots
<1>4. Here \in Addr /\ Here # Nil /\ Here[1] = mem.seg /\ Here[2] = mem.idx
  BY <1>1, <1>3, LayoutIs DEF Here, Addr, Nil
<1> DEFINE cells == [mem.cells EXCEPT ![mem.idx] = c]
<1>5. cells \in Image
  BY <1>1, <1>3, ImageSet
<1>6. mem' = [mem EXCEPT !.cells[mem.idx] = c, !.idx = @ + 1]
  BY DEF Put
<1>7. mem' = [seg |-> mem.seg, idx |-> mem.idx + 1, cells |-> cells]
  BY <1>1, <1>6
<1> HIDE DEF cells
<1>8. mem' \in Memory /\ mem'.seg = mem.seg /\ mem'.idx = mem.idx + 1 /\ mem'.cells = cells
  BY <1>1, <1>3, <1>5, <1>7 DEF Memory
<1>9. QED
  BY <1>1, <1>2, <1>3, <1>4, <1>8 DEF cells

(* A turn takes a clean segment.                                           *)
LEMMA NextCleanIs ==
  ASSUME SegmentTyped, Clean # {}
  PROVE  NextClean \in Segs /\ NextClean \notin dirty
<1> DEFINE D == {Distance(mem.seg, t) : t \in Clean}
<1>1. ASSUME NEW t \in Segs PROVE Distance(mem.seg, t) \in Nat
  <2>1. t - mem.seg \in Int
    BY MemoryFields, LayoutIs DEF SegmentTyped, Segs
  <2>2. QED
    BY <2>1, LayoutIs, Remainder DEF Distance
<1>2. D \in SUBSET Nat /\ D # {}
  BY <1>1 DEF Clean
<1>3. PICK d \in D : \A e \in D : d <= e
  <2> HIDE DEF D
  <2>1. QED
    BY <1>2, LeastNumber
<1>4. \E t \in Clean : \A u \in Clean : Distance(mem.seg, t) <= Distance(mem.seg, u)
  BY <1>3
<1>5. NextClean \in Clean
  BY <1>4 DEF NextClean
<1>6. QED
  BY <1>5 DEF Clean

(* A turn writes the segment in memory to its file and begins anew.        *)
LEMMA TurnIs ==
  ASSUME SegmentTyped, Turn
  PROVE  /\ SegmentTyped'
         /\ disk' = [disk EXCEPT ![mem.seg] = mem.cells]
         /\ mem'.seg = NextClean /\ mem'.idx = NumSsbs /\ mem'.cells = Blank
         /\ NextClean \in Segs /\ NextClean \notin dirty
         /\ UNCHANGED <<dirty, leaveOff, imap, cr>>
<1>1. /\ NextClean \in Segs /\ NextClean \notin dirty
      /\ mem.seg \in Segs /\ mem.cells \in Image /\ disk \in [Segs -> Image]
  BY NextCleanIs, MemoryFields DEF Turn, SegmentTyped
<1>2. /\ disk' = [disk EXCEPT ![mem.seg] = mem.cells]
      /\ mem' = [seg |-> NextClean, idx |-> NumSsbs, cells |-> Blank]
      /\ UNCHANGED <<dirty, leaveOff, imap, cr>>
  BY DEF Turn
<1>3. disk' \in [Segs -> Image]
  BY <1>1, <1>2
<1>4. NumSsbs \in NumSsbs..SegSize
  BY LayoutIs
<1>5. mem' \in Memory
  BY <1>1, <1>2, <1>4, BlankIs DEF Memory
<1>6. QED
  BY <1>1, <1>2, <1>3, <1>5 DEF SegmentTyped

(* A cleaner is made of its fields.                                        *)
LEMMA CleanerFields ==
  ASSUME NEW r \in CleanerRecord
  PROVE  /\ r.pc \in {"off", "scan", "move"} /\ r.seg \in 0..NumSegments /\ r.orphan \in Segs
         /\ r.data \in SUBSET Slots /\ r.nodes \in [Inodes -> Block]
         /\ r.inos \in SUBSET Inodes /\ r.chunks \in SUBSET Chunks
         /\ r = [pc |-> r.pc, seg |-> r.seg, orphan |-> r.orphan, data |-> r.data,
                 nodes |-> r.nodes, inos |-> r.inos, chunks |-> r.chunks]
BY DEF CleanerRecord

(* A cleaner that is off or scanning has nothing to move.                  *)
LEMMA CleanerIs ==
  ASSUME NEW p \in {"off", "scan"}, NEW g \in 0..NumSegments, NEW o \in Segs
  PROVE  /\ Cleaner(p, g, o) \in CleanerRecord
         /\ Cleaner(p, g, o).pc = p /\ Cleaner(p, g, o).seg = g /\ Cleaner(p, g, o).orphan = o
         /\ Cleaner(p, g, o).data = {} /\ Cleaner(p, g, o).inos = {}
         /\ Cleaner(p, g, o).chunks = {}
<1>1. NoNodes \in [Inodes -> Block]
  BY ZeroBlockIs DEF NoNodes
<1>2. QED
  BY <1>1 DEF Cleaner, CleanerRecord

(* The least of a set of numbers.                                          *)
LEMMA LeastIs ==
  ASSUME NEW S \in SUBSET Nat, S # {}
  PROVE  Least(S) \in S
<1>1. \E s \in S : \A t \in S : s <= t
  BY LeastNumber
<1>2. QED
  BY <1>1 DEF Least

(* The segment that is being cleaned.                                      *)
LEMMA SegmentCleaned ==
  ASSUME CleanerTyped, cl.pc = "move" \/ (cl.pc = "scan" /\ cl.seg < CleanSpan)
  PROVE  /\ cl.seg \in Segs /\ cl.seg + 1 \in 0..NumSegments /\ cl.seg + 1 <= CleanSpan
         /\ cl.seg < CleanSpan /\ cl.orphan \in Segs
<1>1. cl.seg \in 0..NumSegments /\ cl.seg < CleanSpan /\ cl.orphan \in Segs
  BY CleanerFields DEF CleanerTyped
<1>2. QED
  BY <1>1, LayoutIs DEF Segs

(* When the cleaner goes on to the next segment, or ends, its lists are    *)
(* empty.                                                                  *)
LEMMA NextToCleanIs ==
  ASSUME CleanerTyped, cl.pc = "move" \/ (cl.pc = "scan" /\ cl.seg < CleanSpan)
  PROVE  /\ NextToClean \in CleanerRecord /\ NextToClean.pc = "scan"
         /\ NextToClean.seg <= CleanSpan
<1>1. QED
  BY SegmentCleaned, CleanerIs DEF NextToClean

(* The cleaner that is off is a cleaner.                                   *)
LEMMA OffIs == CleanerOff \in CleanerRecord /\ CleanerOff.pc = "off"
BY CleanerIs, LayoutIs DEF CleanerOff

(* What a scan finds.                                                      *)
LEMMA LiveIs ==
  ASSUME SegmentTyped, NEW i \in Segs
  PROVE  /\ LiveData(i) \in SUBSET Slots /\ LiveInodes(i) \in SUBSET Slots
         /\ LiveChunks(i) \in SUBSET Slots
         /\ \A s \in LiveData(i) : disk[i][s].type = "DATA" /\ disk[i][s].id \in Inodes
                                     /\ disk[i][s].index \in 0..(MaxData - 1)
         /\ \A s \in LiveInodes(i) : disk[i][s].id \in Inodes
         /\ \A s \in LiveChunks(i) : disk[i][s].id \in Chunks
<1>1. disk[i] \in Image
  BY DEF SegmentTyped
<1>2. \A s \in Slots : disk[i][s] \in Cells
  BY <1>1, ImageSet
<1>3. QED
  BY <1>2 DEF LiveData, LiveInodes, LiveChunks, Cells

(* The lists that a scan makes.                                            *)
Found(i) ==
  {disk[i][s].id : s \in LiveData(i) \cup LiveInodes(i)}

FoundChunks(i) ==
  {ChunkOf(j) : j \in Found(i)} \cup {disk[i][s].id : s \in LiveChunks(i)}

(* A scan goes on, or has the live blocks of its segment moved.            *)
LEMMA ScanFinds ==
  ASSUME SegmentTyped, CleanerTyped, ScanSegment
  PROVE  /\ WorthCleaning(cl.seg) =>
              /\ cl'.pc = "move" /\ cl'.seg = cl.seg /\ cl'.orphan = cl.orphan
              /\ cl'.data = LiveData(cl.seg) /\ cl'.inos = Found(cl.seg)
              /\ cl'.chunks = FoundChunks(cl.seg)
              /\ cl'.nodes = [i \in Inodes |-> IF i \in Found(cl.seg)
                                THEN DiskBlock(imap[i]) ELSE ZeroBlock]
         /\ ~WorthCleaning(cl.seg) => cl' = NextToClean
         /\ cl' \in CleanerRecord
         /\ UNCHANGED <<disk, mem, dirty, leaveOff, imap, cr>>
<1>1. /\ cl.pc = "scan" /\ cl.seg < CleanSpan
      /\ UNCHANGED <<disk, mem, dirty, leaveOff, imap, cr>>
  BY DEF ScanSegment
<1>2. /\ cl.seg \in Segs /\ cl.orphan \in Segs /\ cl.seg \in 0..NumSegments
      /\ cl \in CleanerRecord
  BY <1>1, SegmentCleaned, CleanerFields DEF CleanerTyped
<1>3. CASE ~WorthCleaning(cl.seg)
  <2>1. cl' = NextToClean
    BY <1>3 DEF ScanSegment
  <2>2. QED
    BY <1>1, <1>3, <2>1, NextToCleanIs
<1>4. CASE WorthCleaning(cl.seg)
  <2> DEFINE inos  == Found(cl.seg)
             data  == LiveData(cl.seg)
             nodes == [i \in Inodes |-> IF i \in inos THEN DiskBlock(imap[i]) ELSE ZeroBlock]
             chs   == FoundChunks(cl.seg)
  <2>1. cl' = [cl EXCEPT !.pc = "move", !.data = data, !.inos = inos, !.nodes = nodes,
                         !.chunks = chs]
    BY <1>4 DEF ScanSegment, Found, FoundChunks
  <2>2. inos \in SUBSET Inodes /\ data \in SUBSET Slots
    BY <1>2, LiveIs DEF Found
  <2>3. chs \in SUBSET Chunks
    <3>1. {ChunkOf(j) : j \in inos} \in SUBSET Chunks
      BY <2>2, ChunkOfInode
    <3>2. QED
      BY <1>2, <3>1, LiveIs DEF FoundChunks
  <2>4. nodes \in [Inodes -> Block]
    <3>1. \A i \in Inodes : DiskBlock(imap[i]) \in Block
      BY BlocksAre DEF SegmentTyped
    <3>2. QED
      BY <3>1, ZeroBlockIs
  <2> HIDE DEF inos, data, nodes, chs
  <2>5. cl' = [pc |-> "move", seg |-> cl.seg, orphan |-> cl.orphan, data |-> data,
               nodes |-> nodes, inos |-> inos, chunks |-> chs]
    <3>1. cl = [pc |-> cl.pc, seg |-> cl.seg, orphan |-> cl.orphan, data |-> cl.data,
                nodes |-> cl.nodes, inos |-> cl.inos, chunks |-> cl.chunks]
      BY <1>2, CleanerFields
    <3>2. QED
      BY <2>1, <3>1
  <2>6. cl' \in CleanerRecord
    BY <1>2, <2>2, <2>3, <2>4, <2>5 DEF CleanerRecord
  <2>7. QED
    BY <1>1, <1>4, <2>5, <2>6 DEF inos, data, nodes, chs
<1>5. QED
  BY <1>3, <1>4

(* What stays of the cleaner when one of its lists is worked off.          *)
Shrinks(d, i, c) ==
  /\ cl' \in CleanerRecord
  /\ cl'.pc = "move" /\ cl'.seg = cl.seg /\ cl'.orphan = cl.orphan
  /\ cl'.data = cl.data \ d /\ cl'.inos = cl.inos \ i /\ cl'.chunks = cl.chunks \ c

(* A data block moves as it is, and its inode is told.                     *)
LEMMA MoveDataIs ==
  ASSUME SegmentTyped, CleanerTyped, MoveData
  PROVE  \E s \in cl.data :
           LET c == disk[cl.seg][s]
           IN /\ c \in Cells /\ c.type = "DATA" /\ Put(c)
              /\ Shrinks({s}, {}, {})
              /\ cl'.nodes = [cl.nodes EXCEPT ![c.id].ptrs[c.index] = Here]
              /\ UNCHANGED <<imap, cr>>
<1>1. /\ cl.pc = "move" /\ cl.data # {} /\ cl \in CleanerRecord
      /\ \A s \in cl.data : disk[cl.seg][s].type = "DATA"
  BY DEF MoveData, Moving, CleanerTyped
<1>2. cl.seg \in Segs /\ cl.data \in SUBSET Slots /\ cl.data \subseteq Nat
  BY <1>1, SegmentCleaned, CleanerFields, LayoutIs
<1> DEFINE s == Least(cl.data)
           c == disk[cl.seg][s]
           nodes == [cl.nodes EXCEPT ![c.id].ptrs[c.index] = Here]
<1>3. s \in cl.data
  BY <1>1, <1>2, LeastIs
<1>4. Put(c) /\ UNCHANGED <<imap, cr>>
      /\ cl' = [cl EXCEPT !.data = @ \ {s}, !.nodes[c.id].ptrs[c.index] = Here]
  BY DEF MoveData
<1> HIDE DEF s
<1>5. c \in Cells /\ c.type = "DATA"
  <2>1. disk[cl.seg] \in Image /\ s \in Slots
    BY <1>2, <1>3 DEF SegmentTyped
  <2>2. QED
    BY <1>1, <1>3, <2>1, ImageSet
<1>6. c.id \in Inodes /\ c.index \in 0..(MaxData - 1)
  BY <1>5 DEF Cells
<1> HIDE DEF c
<1>7. Here \in Addr
  BY <1>4, <1>5, PutIs
<1>8. nodes \in [Inodes -> Block]
  <2>1. cl.nodes \in [Inodes -> Block]
    BY <1>1, CleanerFields
  <2>2. [cl.nodes[c.id] EXCEPT !.ptrs[c.index] = Here] \in Block
    BY <1>6, <1>7, <2>1, BlockSet
  <2>3. QED
    BY <1>6, <2>1, <2>2
<1>9. cl' = [pc |-> cl.pc, seg |-> cl.seg, orphan |-> cl.orphan, data |-> cl.data \ {s},
             nodes |-> nodes, inos |-> cl.inos, chunks |-> cl.chunks]
  <2>1. cl = [pc |-> cl.pc, seg |-> cl.seg, orphan |-> cl.orphan, data |-> cl.data,
              nodes |-> cl.nodes, inos |-> cl.inos, chunks |-> cl.chunks]
    BY <1>1, CleanerFields
  <2>2. QED
    BY <1>4, <2>1
<1> HIDE DEF nodes
<1>10. cl' \in CleanerRecord
  BY <1>1, <1>8, <1>9, CleanerFields DEF CleanerRecord
<1>11. Shrinks({s}, {}, {}) /\ cl'.nodes = nodes
  BY <1>1, <1>9, <1>10 DEF Shrinks
<1>12. QED
  BY <1>3, <1>4, <1>5, <1>11 DEF c, nodes

(* An inode moves as its data left it, and the imap is told.               *)
LEMMA MoveInodeIs ==
  ASSUME SegmentTyped, CleanerTyped, MoveInode
  PROVE  \E i \in cl.inos :
           /\ i \in Inodes /\ cl.nodes[i] \in Block
           /\ Put(Cell("INODE", i, 0, cl.nodes[i]))
           /\ Cell("INODE", i, 0, cl.nodes[i]) \in Cells
           /\ Shrinks({}, {i}, {}) /\ cl'.nodes = cl.nodes
           /\ imap' = [imap EXCEPT ![i] = Here] /\ cr' = cr
<1>1. cl.pc = "move" /\ cl.inos # {} /\ cl \in CleanerRecord
  BY DEF MoveInode, Moving, CleanerTyped
<1>2. cl.inos \in SUBSET Inodes /\ cl.inos \subseteq Nat
  BY <1>1, CleanerFields, LayoutIs DEF Inodes
<1> DEFINE i == Least(cl.inos)
<1>3. i \in cl.inos
  BY <1>1, <1>2, LeastIs
<1>4. /\ Put(Cell("INODE", i, 0, cl.nodes[i]))
      /\ imap' = [imap EXCEPT ![i] = Here] /\ cr' = cr
      /\ cl' = [cl EXCEPT !.inos = @ \ {i}]
  BY DEF MoveInode
<1> HIDE DEF i
<1>5. cl.nodes[i] \in Block
  BY <1>1, <1>2, <1>3, CleanerFields
<1>6. cl' = [pc |-> cl.pc, seg |-> cl.seg, orphan |-> cl.orphan, data |-> cl.data,
             nodes |-> cl.nodes, inos |-> cl.inos \ {i}, chunks |-> cl.chunks]
  <2>1. cl = [pc |-> cl.pc, seg |-> cl.seg, orphan |-> cl.orphan, data |-> cl.data,
              nodes |-> cl.nodes, inos |-> cl.inos, chunks |-> cl.chunks]
    BY <1>1, CleanerFields
  <2>2. QED
    BY <1>4, <2>1
<1>7. cl' \in CleanerRecord
  BY <1>1, <1>6, CleanerFields DEF CleanerRecord
<1>8. Shrinks({}, {i}, {}) /\ cl'.nodes = cl.nodes
  BY <1>1, <1>6, <1>7 DEF Shrinks
<1>9. Cell("INODE", i, 0, cl.nodes[i]) \in Cells
  BY <1>2, <1>3, <1>5, CellIs
<1>10. QED
  BY <1>2, <1>3, <1>4, <1>5, <1>8, <1>9

(* What a chunk of the imap becomes on the drive.                          *)
LEMMA ChunkCellIs ==
  ASSUME NEW c \in Chunks, NEW chunk \in Chunk
  PROVE  /\ ChunkCell(c, chunk) \in Cells /\ ChunkCell(c, chunk).type = "IMAP_CHUNK"
         /\ ChunkCell(c, chunk).id = c /\ ChunkCell(c, chunk).block.chunk = chunk
<1>1. [ZeroBlock EXCEPT !.chunk = chunk] \in Block
  BY ZeroBlockIs, BlockSet
<1>2. [ZeroBlock EXCEPT !.chunk = chunk].chunk = chunk
  BY DEF ZeroBlock
<1>3. QED
  BY <1>1, <1>2, CellIs DEF ChunkCell, Cell

(* A chunk of the imap is a chunk.                                         *)
LEMMA GetChunkIs ==
  ASSUME NEW im \in [Inodes -> Addr], NEW c \in Chunks
  PROVE  GetChunk(im, c) \in Chunk
<1>1. \A k \in 0..(ChunkLen - 1) : im[c * ChunkLen + k] \in Addr
  BY InodeOfChunk
<1>2. QED
  BY <1>1 DEF GetChunk, Chunk

(* A chunk is written as the imap is, and the checkpoint region is told.   *)
LEMMA MoveChunkIs ==
  ASSUME SegmentTyped, CleanerTyped, MoveChunk
  PROVE  \E c \in cl.chunks :
           /\ c \in Chunks /\ GetChunk(imap, c) \in Chunk
           /\ Put(ChunkCell(c, GetChunk(imap, c)))
           /\ ChunkCell(c, GetChunk(imap, c)) \in Cells
           /\ Shrinks({}, {}, {c}) /\ cl'.nodes = cl.nodes
           /\ cr' = [cr EXCEPT ![c] = Here] /\ imap' = imap
<1>1. cl.pc = "move" /\ cl.chunks # {} /\ cl \in CleanerRecord
  BY DEF MoveChunk, Moving, CleanerTyped
<1>2. cl.chunks \in SUBSET Chunks /\ cl.chunks \subseteq Nat
  BY <1>1, CleanerFields, LayoutIs DEF Chunks
<1> DEFINE c == Least(cl.chunks)
<1>3. c \in cl.chunks
  BY <1>1, <1>2, LeastIs
<1>4. /\ Put(ChunkCell(c, GetChunk(imap, c)))
      /\ cr' = [cr EXCEPT ![c] = Here] /\ imap' = imap
      /\ cl' = [cl EXCEPT !.chunks = @ \ {c}]
  BY DEF MoveChunk
<1> HIDE DEF c
<1>5. GetChunk(imap, c) \in Chunk
  BY <1>2, <1>3, GetChunkIs DEF SegmentTyped
<1>6. cl' = [pc |-> cl.pc, seg |-> cl.seg, orphan |-> cl.orphan, data |-> cl.data,
             nodes |-> cl.nodes, inos |-> cl.inos, chunks |-> cl.chunks \ {c}]
  <2>1. cl = [pc |-> cl.pc, seg |-> cl.seg, orphan |-> cl.orphan, data |-> cl.data,
              nodes |-> cl.nodes, inos |-> cl.inos, chunks |-> cl.chunks]
    BY <1>1, CleanerFields
  <2>2. QED
    BY <1>4, <2>1
<1>7. cl' \in CleanerRecord
  BY <1>1, <1>6, CleanerFields DEF CleanerRecord
<1>8. Shrinks({}, {}, {c}) /\ cl'.nodes = cl.nodes
  BY <1>1, <1>6, <1>7 DEF Shrinks
<1>9. ChunkCell(c, GetChunk(imap, c)) \in Cells
  BY <1>2, <1>3, <1>5, ChunkCellIs
<1>10. QED
  BY <1>2, <1>3, <1>4, <1>5, <1>8, <1>9

(* A put and its imap and checkpoint region keep the types.                *)
LEMMA PutTyped ==
  ASSUME SegmentTyped, NEW c \in Cells, Put(c),
         imap' \in [Inodes -> Addr], cr' \in [Chunks -> Addr]
  PROVE  SegmentTyped'
BY PutIs DEF SegmentTyped

(* The cleaner keeps to its segment.                                       *)
LEMMA CleanStepTyped ==
  ASSUME SegmentTyped, CleanerTyped, CleanStep
  PROVE  SegmentTyped' /\ CleanerTyped'
<1>1. CASE ScanSegment
  <2>1. UNCHANGED <<disk, mem, dirty, leaveOff, imap, cr>>
    BY <1>1, ScanFinds
  <2>2. SegmentTyped'
    BY <2>1 DEF SegmentTyped
  <2>3. cl.pc = "scan" /\ cl.seg < CleanSpan /\ cl.seg \in Segs
    BY <1>1, SegmentCleaned DEF ScanSegment
  <2>4. CASE ~WorthCleaning(cl.seg)
    <3>1. cl' = NextToClean
      BY <1>1, <2>4, ScanFinds
    <3>2. QED
      BY <2>2, <2>3, <3>1, NextToCleanIs DEF CleanerTyped
  <2>5. CASE WorthCleaning(cl.seg)
    <3>1. /\ cl'.pc = "move" /\ cl'.seg = cl.seg /\ cl'.data = LiveData(cl.seg)
          /\ cl' \in CleanerRecord
      BY <1>1, <2>5, ScanFinds
    <3>2. cl.seg \in dirty /\ cl.seg # mem.seg
      BY <2>5 DEF WorthCleaning
    <3>3. \A s \in LiveData(cl.seg) : disk[cl.seg][s].type = "DATA"
      BY <2>3, LiveIs
    <3>4. cl'.seg <= CleanSpan
      BY <2>3, <3>1, LayoutIs DEF Segs
    <3>5. QED
      BY <2>1, <2>2, <2>3, <3>1, <3>2, <3>3, <3>4 DEF CleanerTyped
  <2>6. QED
    BY <2>4, <2>5
<1>2. ASSUME NEW c \in Cells, Put(c), NEW d, NEW i, NEW e, Shrinks(d, i, e),
             cl.pc = "move"
      PROVE  CleanerTyped'
  <2>1. disk' = disk /\ dirty \subseteq dirty' /\ mem'.seg = mem.seg
    BY <1>2, PutIs
  <2>2. /\ cl.seg < CleanSpan /\ cl.seg \in dirty /\ cl.seg # mem.seg
        /\ \A s \in cl.data : disk[cl.seg][s].type = "DATA"
        /\ cl.seg <= CleanSpan
    BY <1>2 DEF CleanerTyped
  <2>3. cl' \in CleanerRecord /\ cl'.seg = cl.seg /\ cl'.data \subseteq cl.data
    BY <1>2 DEF Shrinks
  <2>4. QED
    BY <2>1, <2>2, <2>3 DEF CleanerTyped
<1>3. CASE MoveData
  <2>1. PICK s \in cl.data :
          LET c == disk[cl.seg][s]
          IN /\ c \in Cells /\ c.type = "DATA" /\ Put(c)
             /\ Shrinks({s}, {}, {}) /\ UNCHANGED <<imap, cr>>
    BY <1>3, MoveDataIs
  <2>2. SegmentTyped'
    BY <2>1, PutTyped DEF SegmentTyped
  <2>3. QED
    BY <1>2, <1>3, <2>1, <2>2 DEF MoveData, Moving
<1>4. CASE MoveInode
  <2>1. PICK i \in cl.inos :
          /\ i \in Inodes /\ Put(Cell("INODE", i, 0, cl.nodes[i]))
          /\ Cell("INODE", i, 0, cl.nodes[i]) \in Cells
          /\ Shrinks({}, {i}, {}) /\ imap' = [imap EXCEPT ![i] = Here] /\ cr' = cr
    BY <1>4, MoveInodeIs
  <2>2. imap' \in [Inodes -> Addr]
    BY <2>1, PutIs DEF SegmentTyped
  <2>3. SegmentTyped'
    BY <2>1, <2>2, PutTyped DEF SegmentTyped
  <2>4. QED
    BY <1>2, <1>4, <2>1, <2>3 DEF MoveInode, Moving
<1>5. CASE MoveChunk
  <2>1. PICK c \in cl.chunks :
          /\ c \in Chunks /\ Put(ChunkCell(c, GetChunk(imap, c)))
          /\ ChunkCell(c, GetChunk(imap, c)) \in Cells
          /\ Shrinks({}, {}, {c}) /\ cr' = [cr EXCEPT ![c] = Here] /\ imap' = imap
    BY <1>5, MoveChunkIs
  <2>2. cr' \in [Chunks -> Addr]
    BY <2>1, PutIs DEF SegmentTyped
  <2>3. SegmentTyped'
    BY <2>1, <2>2, PutTyped DEF SegmentTyped
  <2>4. QED
    BY <1>2, <1>5, <2>1, <2>3 DEF MoveChunk, Moving
<1>6. CASE CleanTurn
  <2>1. Turn /\ cl' = cl /\ cl.pc = "move"
    BY <1>6 DEF CleanTurn, Moving
  <2>2. /\ SegmentTyped' /\ disk' = [disk EXCEPT ![mem.seg] = mem.cells]
        /\ mem'.seg = NextClean /\ NextClean \notin dirty /\ dirty' = dirty
    BY <2>1, TurnIs
  <2>3. cl.seg \in dirty /\ cl.seg # mem.seg /\ cl.seg \in Segs
    BY <2>1, SegmentCleaned DEF CleanerTyped
  <2>4. disk'[cl.seg] = disk[cl.seg]
    BY <2>2, <2>3 DEF SegmentTyped
  <2>5. QED
    BY <2>1, <2>2, <2>3, <2>4 DEF CleanerTyped
<1>7. CASE Release
  <2>1. /\ cl.pc = "move" /\ dirty' = dirty \ {cl.seg} /\ cl' = NextToClean
        /\ UNCHANGED <<disk, mem, leaveOff, imap, cr>>
    BY <1>7 DEF Release, Moving
  <2>2. SegmentTyped'
    BY <2>1 DEF SegmentTyped
  <2>3. QED
    BY <2>1, <2>2, NextToCleanIs DEF CleanerTyped
<1>8. CASE CleanEnds
  <2>1. cl' = CleanerOff /\ UNCHANGED <<disk, mem, dirty, leaveOff, imap, cr>>
    BY <1>8 DEF CleanEnds
  <2>2. SegmentTyped'
    BY <2>1 DEF SegmentTyped
  <2>3. QED
    BY <2>1, <2>2, OffIs DEF CleanerTyped
<1>9. QED
  BY <1>1, <1>3, <1>4, <1>5, <1>6, <1>7, <1>8 DEF CleanStep

-----------------------------------------------------------------------------
(* The blocks of a file that is imported.                                  *)

(* Quotient and remainder of a size by the size of a block.                *)
LEMMA Blocks ==
  ASSUME NEW n \in Nat
  PROVE  /\ n \div BlockSize \in Nat /\ n % BlockSize \in 0..(BlockSize - 1)
         /\ n = BlockSize * (n \div BlockSize) + (n % BlockSize)
         /\ (n \div BlockSize) * BlockSize = BlockSize * (n \div BlockSize)
<1>1. BlockSize \in Nat \ {0}
  BY LayoutIs
<1> DEFINE q == n \div BlockSize
           r == n % BlockSize
<1>2. q \in Int /\ r \in 0..(BlockSize - 1) /\ n = BlockSize * q + r
  BY <1>1, Remainder
<1> HIDE DEF q, r
<1>3. q \in Nat
  <2>1. q <= -1 => BlockSize * q <= -BlockSize
    BY <1>1, <1>2
  <2>2. QED
    BY <1>1, <1>2, <2>1
<1>4. q * BlockSize = BlockSize * q
  BY <1>1, <1>2
<1>5. QED
  BY <1>2, <1>3, <1>4 DEF q, r

(* What lies within the largest size lies in a block that has a pointer.   *)
LEMMA BlockOfByte ==
  ASSUME NEW n \in Nat
  PROVE  /\ n < MaxSize => n \div BlockSize \in 0..(MaxData - 1)
         /\ n <= MaxSize => n \div BlockSize <= MaxData
<1> DEFINE q == n \div BlockSize
           r == n % BlockSize
<1>1. q \in Nat /\ r \in 0..(BlockSize - 1) /\ n = BlockSize * q + r
  BY Blocks
<1>2. BlockSize \in Nat \ {0} /\ MaxData \in Nat \ {0} /\ MaxSize = BlockSize * MaxData
  BY LayoutIs, MaxSizeIs
<1> HIDE DEF q, r
<1>3. (n < MaxSize => BlockSize * q < BlockSize * MaxData)
      /\ (n <= MaxSize => BlockSize * q <= BlockSize * MaxData)
  BY <1>1, <1>2, MaxSizeIs
<1>4. (n < MaxSize => q < MaxData) /\ (n <= MaxSize => q <= MaxData)
  BY <1>1, <1>2, <1>3, Factors
<1>5. QED
  BY <1>1, <1>2, <1>4 DEF q

(* An import reads a block at least, and no more than a file has.          *)
LEMMA BlocksReadIs ==
  ASSUME NEW src \in Seq(Nat)
  PROVE  BlocksRead(src) \in 1..MaxData
<1>1. Len(src) \div BlockSize \in Nat
  BY Blocks
<1>2. QED
  BY <1>1, LayoutIs DEF BlocksRead, SmallerOf

(* A block that is read is filled up with zeros.                           *)
LEMMA SourceBlockIs ==
  ASSUME NEW src \in Seq(Nat), NEW b \in Nat
  PROVE  SourceBlock(src, b) \in Content
<1>1. ASSUME NEW k \in 1..BlockSize, b * BlockSize + k <= Len(src)
      PROVE  src[b * BlockSize + k] \in Nat
  <2>1. b * BlockSize \in Nat
    BY LayoutIs
  <2>2. b * BlockSize + k \in 1..Len(src)
    BY <1>1, <2>1, LayoutIs
  <2>3. QED
    BY <2>2
<1>2. QED
  BY <1>1 DEF SourceBlock, Content

(* The sizes that write_file leaves are those of a file within its         *)
(* pointers.                                                               *)
LEMMA NewNodeIs ==
  ASSUME NEW name \in Names, NEW src \in Seq(Nat)
  PROVE  NewNode(name, src) \in Block /\ NewNode(name, src).name = name
<1> DEFINE n     == BlocksRead(src)
           short == IF Len(src) >= MaxSize THEN 0 ELSE Len(src) % BlockSize
           full  == IF short = 0 THEN n ELSE n - 1
           node  == NewNode(name, src)
<1>1. n \in 1..MaxData
  BY BlocksReadIs
<1>2. short \in 0..(BlockSize - 1)
  <2>1. Len(src) % BlockSize \in 0..(BlockSize - 1) /\ 0 \in 0..(BlockSize - 1)
    BY Blocks, LayoutIs
  <2>2. QED
    BY <2>1
<1>3. node = [ZeroBlock EXCEPT !.name = name, !.incomplete = short, !.complete = full]
  BY DEF NewNode
<1> HIDE DEF n, short, node
<1>4. node = [bytes |-> ZeroBlock.bytes, ptrs |-> ZeroBlock.ptrs, chunk |-> ZeroBlock.chunk,
              name |-> name, complete |-> full, incomplete |-> short]
  BY <1>3 DEF ZeroBlock
<1>5. full \in Nat /\ short \in Nat /\ full * BlockSize + short <= MaxSize
  <2>1. full \in Nat /\ full <= MaxData /\ (short # 0 => full + 1 <= MaxData)
    BY <1>1, <1>2, LayoutIs
  <2>2. BlockSize \in Nat \ {0} /\ MaxData \in Nat \ {0} /\ MaxSize = BlockSize * MaxData
    BY LayoutIs, MaxSizeIs
  <2>3. full * BlockSize = BlockSize * full
    BY <2>1, <2>2
  <2> HIDE DEF full
  <2>4. CASE short = 0
    <3>1. BlockSize * full <= BlockSize * MaxData
      BY <2>1, <2>2
    <3>2. QED
      BY <2>1, <2>2, <2>3, <2>4, <3>1
  <2>5. CASE short # 0
    <3>1. BlockSize * (full + 1) <= BlockSize * MaxData
      BY <2>1, <2>2, <2>5
    <3>2. BlockSize * (full + 1) = BlockSize * full + BlockSize
      BY <2>1, <2>2, Factors
    <3>3. BlockSize * full \in Nat
      BY <2>1, <2>2
    <3>4. QED
      BY <1>2, <2>1, <2>2, <2>3, <3>1, <3>2, <3>3
  <2>6. QED
    BY <2>4, <2>5
<1> HIDE DEF full
<1>6. node \in Block
  BY <1>4, <1>5, BlockOf, BlockFields, ZeroBlockIs
<1>7. QED
  BY <1>4, <1>6 DEF node

(* The blocks that overwrite writes are blocks of the file, and the file   *)
(* ends within its pointers.  The last one is written when something is    *)
(* left behind the whole ones.                                             *)
LEMMA OverwriteReaches ==
  ASSUME NEW start \in Nat, NEW howMany \in Nat, start < MaxSize
  PROVE  LET many  == SmallerOf(howMany, MaxSize - start)
             first == start \div BlockSize
             rel   == start % BlockSize
             head  == SmallerOf(many, BlockSize - rel)
             rest  == many - head
             end   == start + many
             whole == rest \div BlockSize
         IN many > 0 =>
            /\ many \in Nat /\ end \in Nat /\ end <= MaxSize
            /\ first \in 0..(MaxData - 1) /\ rel \in 0..(BlockSize - 1) /\ head \in Nat
            /\ rest \in Nat /\ whole \in Nat
            /\ rest = 0 => whole = 0 /\ end <= BlockSize * (first + 1)
            /\ rest > 0 => end = BlockSize * (first + 1) + rest
            /\ \A b \in 1..whole : first + b \in 0..(MaxData - 1)
            /\ rest % BlockSize # 0 => first + whole + 1 \in 0..(MaxData - 1)
<1> DEFINE many  == SmallerOf(howMany, MaxSize - start)
           first == start \div BlockSize
           rel   == start % BlockSize
           head  == SmallerOf(many, BlockSize - rel)
           rest  == many - head
           end   == start + many
           whole == rest \div BlockSize
           over  == rest % BlockSize
<1> SUFFICES ASSUME many > 0
    PROVE  /\ many \in Nat /\ end \in Nat /\ end <= MaxSize
           /\ first \in 0..(MaxData - 1) /\ rel \in 0..(BlockSize - 1) /\ head \in Nat
           /\ rest \in Nat /\ whole \in Nat
           /\ rest = 0 => whole = 0 /\ end <= BlockSize * (first + 1)
           /\ rest > 0 => end = BlockSize * (first + 1) + rest
           /\ \A b \in 1..whole : first + b \in 0..(MaxData - 1)
           /\ over # 0 => first + whole + 1 \in 0..(MaxData - 1)
  OBVIOUS
<1>1. BlockSize \in Nat \ {0} /\ MaxData \in Nat \ {0} /\ MaxSize = BlockSize * MaxData
      /\ MaxSize \in Nat
  BY LayoutIs, MaxSizeIs
<1>2. many \in Nat /\ end \in Nat /\ end <= MaxSize
  BY <1>1 DEF SmallerOf
<1>3. first \in 0..(MaxData - 1) /\ rel \in 0..(BlockSize - 1) /\ start = BlockSize * first + rel
  BY BlockOfByte, Blocks
<1>4. BlockSize * (first + 1) = BlockSize * first + BlockSize /\ BlockSize * first \in Nat
  <2> HIDE DEF first
  <2>1. QED
    BY <1>1, <1>3, Factors
<1> HIDE DEF many, first, rel
<1>5. head \in Nat /\ rest \in Nat /\ (rest > 0 => head = BlockSize - rel)
      /\ (rest = 0 => many <= BlockSize - rel)
  BY <1>1, <1>2, <1>3 DEF SmallerOf
<1>6. rest > 0 => end = BlockSize * (first + 1) + rest
  BY <1>1, <1>2, <1>3, <1>4, <1>5
<1>7. rest = 0 => end <= BlockSize * (first + 1)
  BY <1>1, <1>2, <1>3, <1>4, <1>5
<1> HIDE DEF head, rest, end
<1>8. whole \in Nat /\ over \in 0..(BlockSize - 1) /\ rest = BlockSize * whole + over
  BY <1>5, Blocks
<1>9. rest = 0 => whole = 0
  <2> HIDE DEF whole, over
  <2>1. whole >= 1 => BlockSize * whole >= BlockSize
    BY <1>1, <1>8
  <2>2. QED
    BY <1>1, <1>8, <2>1
<1> HIDE DEF whole, over
<1> DEFINE last == first + whole + 1
<1>10. BlockSize * last = BlockSize * (first + 1) + BlockSize * whole
  <2>1. BlockSize * (first + 1) + BlockSize * whole = BlockSize * (first + 1 + whole)
    BY <1>1, <1>3, <1>8
  <2>2. first + 1 + whole = last
    BY <1>3, <1>8
  <2>3. QED
    BY <2>1, <2>2
<1>11. last \in Nat
  BY <1>3, <1>8
<1> HIDE DEF last
<1>12. rest > 0 => last <= MaxData /\ (over # 0 => last < MaxData)
  <2>1. rest > 0 => BlockSize * last <= BlockSize * MaxData
    BY <1>1, <1>2, <1>4, <1>6, <1>8, <1>10
  <2>2. rest > 0 /\ over # 0 => BlockSize * last < BlockSize * MaxData
    BY <1>1, <1>2, <1>4, <1>6, <1>8, <1>10
  <2>3. QED
    BY <1>1, <1>11, <2>1, <2>2, Factors
<1>13. \A b \in 1..whole : first + b \in 0..(MaxData - 1)
  BY <1>1, <1>3, <1>5, <1>8, <1>9, <1>12 DEF last
<1>14. over # 0 => rest > 0
  BY <1>1, <1>5, <1>8
<1>15. over # 0 => last \in 0..(MaxData - 1)
  BY <1>1, <1>11, <1>12, <1>14
<1>16. QED
  BY <1>2, <1>3, <1>5, <1>6, <1>7, <1>8, <1>9, <1>13, <1>15 DEF last

-----------------------------------------------------------------------------
(* The command in hand.                                                    *)

Tasks == (0..(MaxData - 1)) \X (Content \cup {Unread})
Waits(todo) == \E j \in 1..Len(todo) : todo[j][2] = Unread

WorkFields ==
  {"pc", "request", "ino", "entry", "node", "todo", "memSeg", "chunk", "turned", "before"}

OverwriteRequests == {"overwrite"} \X FileNames \X Nat \X Nat \X Nat

(* A block that is still to be read is one of an overwrite.                *)
Busy(w) ==
  /\ DOMAIN w = WorkFields
  /\ w.pc \in {"data", "inode", "chunk"}
  /\ w.ino \in Inodes /\ w.entry \in Inodes /\ w.node \in Block
  /\ w.todo \in Seq(Tasks) /\ w.chunk \in Chunk /\ w.turned \in BOOLEAN
  /\ w.pc = "data" => w.todo # << >>
  /\ Waits(w.todo) => w.request \in OverwriteRequests

CheckpointRecord ==
  [kind : {"none", "short", "empty", "full"}, leaveOff : Addr, dirty : SUBSET Segs,
   cr : [Chunks -> Addr]]

NameMaps(nm) == DOMAIN nm \subseteq Names /\ \A n \in DOMAIN nm : nm[n] \in Inodes

FilesTyped ==
  NameMaps(nameMap) /\ nameFile \in Seq(Names) /\ ckpt \in CheckpointRecord

(* The drive is cleaned within a command only, after the turn it made.     *)
ControlTyped ==
  /\ status \in {"down", "up", "refused", "spinning", "corrupt",
                "closing", "truncated", "named", "flushed"}
  /\ work = Idle \/ Busy(work)
  /\ status \notin {"up", "spinning", "corrupt"} => work = Idle
  /\ work = Idle => cl.pc = "off"
  /\ work # Idle /\ cl.pc # "off" => work.turned
  /\ mounts \in Nat

TypeInv == SegmentTyped /\ CleanerTyped /\ FilesTyped /\ ControlTyped

(* No command is not one.                                                  *)
LEMMA IdleIs == Idle.pc = "idle" /\ ~Busy(Idle)
BY DEF Idle, Busy

(* No block of bytes is taken for one that is still to be read.            *)
LEMMA UnreadIs == Unread \notin Content
<1>1. \A x \in Content : 1 \in DOMAIN x
  BY LayoutIs DEF Content
<1>2. DOMAIN Unread = {}
  BY DEF Unread
<1>3. QED
  BY <1>1, <1>2

(* Bytes that are overwritten are still bytes.                             *)
LEMMA FilledIs ==
  ASSUME NEW x \in Content, NEW lo \in Nat, NEW hi \in Nat, NEW c \in Nat
  PROVE  Filled(x, lo, hi, c) \in Content
BY DEF Filled, Content

(* The request of a command, and what is ready to be done for it.          *)
Fit(p, r, i, e, b, todo, c) ==
  /\ p \in {"data", "inode", "chunk"} /\ i \in Inodes /\ e \in Inodes /\ b \in Block
  /\ todo \in Seq(Tasks) /\ c \in Chunk
  /\ p = "data" => todo # << >>
  /\ Waits(todo) => r \in OverwriteRequests

(* A command that is begun is carried out.                                 *)
LEMMA WorkingIs ==
  ASSUME NEW p, NEW r, NEW i, NEW e, NEW b, NEW todo, NEW c, Fit(p, r, i, e, b, todo, c)
  PROVE  LET w == Working(p, r, i, e, b, todo, c)
         IN /\ Busy(w) /\ w # Idle /\ ~w.turned
            /\ w.pc = p /\ w.request = r /\ w.ino = i /\ w.entry = e /\ w.node = b
            /\ w.todo = todo /\ w.chunk = c
<1> DEFINE w == Working(p, r, i, e, b, todo, c)
<1>1. /\ DOMAIN w = WorkFields
      /\ w.pc = p /\ w.request = r /\ w.ino = i /\ w.entry = e /\ w.node = b
      /\ w.todo = todo /\ w.chunk = c /\ w.turned = FALSE
  BY DEF Working, WorkFields
<1> HIDE DEF w
<1>2. Busy(w)
  BY <1>1 DEF Busy, Fit
<1>3. QED
  BY <1>1, <1>2, IdleIs DEF w

(* The blocks that import writes.                                          *)
ImportTasks(src) == [b \in 1..BlocksRead(src) |-> <<b - 1, SourceBlock(src, b - 1)>>]

(* They are the first of the file, and none is still to be read.           *)
LEMMA ImportTasksAre ==
  ASSUME NEW src \in Seq(Nat)
  PROVE  /\ ImportTasks(src) \in Seq(Tasks) /\ Len(ImportTasks(src)) = BlocksRead(src)
         /\ ImportTasks(src) # << >> /\ ~Waits(ImportTasks(src))
<1> DEFINE n == BlocksRead(src)
           t == ImportTasks(src)
<1>1. n \in Nat /\ n >= 1 /\ n <= MaxData
  BY BlocksReadIs, LayoutIs
<1>2. ASSUME NEW b \in 1..n
      PROVE  <<b - 1, SourceBlock(src, b - 1)>> \in Tasks /\ SourceBlock(src, b - 1) # Unread
  <2>1. b - 1 \in Nat /\ b - 1 \in 0..(MaxData - 1)
    BY <1>1, LayoutIs
  <2>2. SourceBlock(src, b - 1) \in Content
    BY <2>1, SourceBlockIs
  <2>3. QED
    BY <2>1, <2>2, UnreadIs DEF Tasks
<1>3. t = [b \in 1..n |-> <<b - 1, SourceBlock(src, b - 1)>>]
  BY DEF ImportTasks
<1> HIDE DEF n, t
<1>4. t \in [1..n -> Tasks]
  BY <1>2, <1>3
<1>5. t \in Seq(Tasks) /\ Len(t) = n
  BY <1>1, <1>4
<1>6. \A b \in 1..n : t[b][2] # Unread
  BY <1>2, <1>3
<1>7. QED
  BY <1>1, <1>5, <1>6 DEF n, t, Waits

(* The blocks that overwrite writes.                                       *)
OverwriteTasks(first, block, whole, c, rest, last) ==
  << <<first, block>> >>
    \o [b \in 1..whole |-> <<first + b, [k \in 1..BlockSize |-> c]>>]
    \o (IF rest = 0 THEN << >> ELSE << <<last, Unread>> >>)

WithinFile(first, block, whole, c, rest, last) ==
  /\ first \in 0..(MaxData - 1) /\ block \in Content /\ whole \in Nat /\ c \in Nat
  /\ rest \in Nat
  /\ \A b \in 1..whole : first + b \in 0..(MaxData - 1)
  /\ rest # 0 => last \in 0..(MaxData - 1)

TasksAre(t, first, block, whole, c, rest, last) ==
  /\ t \in Seq(Tasks) /\ t # << >>
  /\ Len(t) = whole + (IF rest = 0 THEN 1 ELSE 2)
  /\ t[1] = <<first, block>>
  /\ \A b \in 1..whole : t[b + 1] = <<first + b, [k \in 1..BlockSize |-> c]>>
  /\ rest # 0 => t[whole + 2] = <<last, Unread>>

(* They are the first one, the whole ones and the one to be read.          *)
LEMMA OverwriteTasksAre ==
  ASSUME NEW first, NEW block, NEW whole, NEW c, NEW rest, NEW last,
         WithinFile(first, block, whole, c, rest, last)
  PROVE  TasksAre(OverwriteTasks(first, block, whole, c, rest, last),
                  first, block, whole, c, rest, last)
<1> DEFINE r == << <<first, block>> >>
           m == [b \in 1..whole |-> <<first + b, [k \in 1..BlockSize |-> c]>>]
           e == IF rest = 0 THEN << >> ELSE << <<last, Unread>> >>
           t == r \o m \o e
<1>0. /\ first \in 0..(MaxData - 1) /\ block \in Content /\ whole \in Nat /\ c \in Nat
      /\ rest \in Nat
      /\ \A b \in 1..whole : first + b \in 0..(MaxData - 1)
      /\ rest # 0 => last \in 0..(MaxData - 1)
  BY DEF WithinFile
<1>1. r \in Seq(Tasks) /\ Len(r) = 1 /\ r[1] = <<first, block>>
  BY <1>0 DEF Tasks
<1>2. m \in Seq(Tasks) /\ Len(m) = whole
      /\ \A b \in 1..whole : m[b] = <<first + b, [k \in 1..BlockSize |-> c]>>
  <2>1. [k \in 1..BlockSize |-> c] \in Content
    BY <1>0 DEF Content
  <2>2. m \in [1..whole -> Tasks]
    BY <1>0, <2>1 DEF Tasks
  <2>3. \A b \in 1..whole : m[b] = <<first + b, [k \in 1..BlockSize |-> c]>>
    BY <1>0
  <2> HIDE DEF m
  <2>4. m \in Seq(Tasks) /\ Len(m) = whole
    BY <1>0, <2>2
  <2>5. QED
    BY <1>0, <2>3, <2>4
<1>3. e \in Seq(Tasks) /\ Len(e) = (IF rest = 0 THEN 0 ELSE 1)
      /\ (rest # 0 => e[1] = <<last, Unread>>)
  <2>1. CASE rest = 0
    BY <1>0, <2>1
  <2>2. CASE rest # 0
    BY <1>0, <2>2 DEF Tasks
  <2>3. QED
    BY <1>0, <2>1, <2>2
<1> HIDE DEF r, m, e
<1> DEFINE rm == r \o m
<1>4. /\ rm \in Seq(Tasks) /\ Len(rm) = whole + 1 /\ rm[1] = r[1]
      /\ \A b \in 1..whole : rm[b + 1] = m[b]
  <2>0. /\ rm \in Seq(Tasks) /\ Len(rm) = Len(r) + Len(m)
        /\ \A i \in 1..(Len(r) + Len(m)) : rm[i] = IF i <= Len(r) THEN r[i] ELSE m[i - Len(r)]
    BY <1>0, <1>1, <1>2, ConcatProperties
  <2>1. /\ rm \in Seq(Tasks) /\ Len(rm) = 1 + whole
        /\ \A i \in 1..(1 + whole) : rm[i] = IF i <= 1 THEN r[i] ELSE m[i - 1]
    BY <1>0, <1>1, <1>2, <2>0
  <2>2. \A b \in 1..whole : b + 1 \in 1..(1 + whole) /\ ~(b + 1 <= 1) /\ (b + 1) - 1 = b
    BY <1>0
  <2> HIDE DEF rm
  <2>3. QED
    BY <1>0, <2>1, <2>2
<1> HIDE DEF rm
<1>5. /\ rm \o e \in Seq(Tasks) /\ Len(rm \o e) = whole + 1 + Len(e)
      /\ \A i \in 1..(whole + 1) : (rm \o e)[i] = rm[i]
      /\ rest # 0 => (rm \o e)[whole + 2] = e[1]
  <2> DEFINE u == rm \o e
  <2>1. /\ u \in Seq(Tasks) /\ Len(u) = Len(rm) + Len(e)
        /\ \A i \in 1..(Len(rm) + Len(e)) : u[i] = IF i <= Len(rm) THEN rm[i] ELSE e[i - Len(rm)]
    BY <1>0, <1>3, <1>4, ConcatProperties
  <2> HIDE DEF u
  <2>2. Len(e) \in Nat /\ Len(rm) = whole + 1
    BY <1>0, <1>3, <1>4
  <2>3. \A i \in 1..(whole + 1) : u[i] = rm[i]
    BY <1>0, <2>1, <2>2
  <2>4. ASSUME rest # 0 PROVE u[whole + 2] = e[1]
    <3>1. Len(e) = 1 /\ whole + 2 \in 1..(Len(rm) + Len(e)) /\ ~(whole + 2 <= Len(rm))
          /\ (whole + 2) - Len(rm) = 1
      BY <1>0, <1>3, <1>4, <2>4
    <3>2. QED
      BY <1>0, <2>1, <3>1
  <2>5. QED
    BY <1>0, <2>1, <2>2, <2>3, <2>4 DEF u
<1>6. t = rm \o e
  BY DEF rm
<1>7. \A b \in 1..whole : b + 1 \in 1..(whole + 1)
  BY <1>0
<1>8. OverwriteTasks(first, block, whole, c, rest, last) = t
  BY DEF OverwriteTasks, r, m, e
<1> HIDE DEF t
<1>9. t \in Seq(Tasks) /\ Len(t) = whole + (IF rest = 0 THEN 1 ELSE 2)
  BY <1>0, <1>3, <1>5, <1>6
<1>10. t[1] = <<first, block>> /\ t # << >>
  <2>1. 1 \in 1..(whole + 1)
    BY <1>0
  <2>2. t[1] = <<first, block>>
    BY <1>0, <1>1, <1>4, <1>5, <1>6, <2>1
  <2>3. QED
    BY <1>0, <1>9, <2>2
<1>11. \A b \in 1..whole : t[b + 1] = <<first + b, [k \in 1..BlockSize |-> c]>>
  BY <1>0, <1>2, <1>4, <1>5, <1>6, <1>7
<1>12. rest # 0 => t[whole + 2] = <<last, Unread>>
  BY <1>0, <1>3, <1>5, <1>6
<1>13. TasksAre(t, first, block, whole, c, rest, last)
  BY <1>9, <1>10, <1>11, <1>12 DEF TasksAre
<1>14. QED
  BY <1>8, <1>13

-----------------------------------------------------------------------------
(* NAME_MAP holds words, and only names and numbers are read from it.      *)

(* Sequences put one behind the other, one by one.                         *)
Appends(g, ss) == g[0] = << >> /\ \A k \in 1..Len(ss) : g[k] = g[k - 1] \o ss[k]

(* What FlattenSeq gives is what appending one by one gives.               *)
LEMMA FlattenIs ==
  ASSUME NEW S, NEW ss \in Seq(Seq(S)), ss # << >>
  PROVE  \E g \in [0..Len(ss) -> Seq(S)] :
           Appends(g, ss) /\ SeqsExt!FlattenSeq(ss) = g[Len(ss)]
<1> DEFINE n == Len(ss)
           E == << >>
           T == [k \in 1..n |-> [s \in Seq(S) |-> s \o ss[k]]]
           Is(f) == f = [i \in 1..n |-> IF i = 1 THEN ss[i] ELSE f[i - 1] \o ss[i]]
<1>1. n \in Nat \ {0} /\ \A k \in 1..n : ss[k] \in Seq(S)
  BY EmptySeq
<1>2. E \in Seq(S)
  OBVIOUS
<1>3. T \in [1..n -> [Seq(S) -> Seq(S)]]
  <2>1. \A k \in 1..n, s \in Seq(S) : s \o ss[k] \in Seq(S)
    BY <1>1, ConcatProperties
  <2>2. QED
    BY <2>1
<1> HIDE DEF n, E
<1>4. PICK g \in [0..n -> Seq(S)] : g[0] = E /\ \A k \in 1..n : g[k] = T[k][g[k - 1]]
  <2> HIDE DEF T
  <2>1. Steps(n, Seq(S), E, T)
    BY <1>1, <1>2, <1>3 DEF Steps
  <2>2. QED
    BY <2>1, RecursionExists
<1>5. \A k \in 1..n : k - 1 \in 0..n /\ g[k - 1] \in Seq(S) /\ g[k] = g[k - 1] \o ss[k]
  <2>1. \A k \in 1..n : k - 1 \in 0..n
    BY <1>1
  <2>2. \A k \in 1..n : g[k - 1] \in Seq(S)
    BY <1>4, <2>1
  <2>3. QED
    BY <1>4, <2>1, <2>2
<1>6. 1 \in 1..n /\ g[1] = ss[1]
  <2>1. 1 \in 1..n /\ 1 - 1 = 0
    BY <1>1
  <2>2. g[1] = E \o ss[1]
    BY <1>4, <1>5, <2>1
  <2>3. E \o ss[1] = ss[1]
    BY <1>1, <2>1, ConcatEmptySeq DEF E
  <2>4. QED
    BY <2>1, <2>2, <2>3
<1> DEFINE f == [i \in 1..n |-> g[i]]
<1>7. Is(f)
  <2>1. ASSUME NEW i \in 1..n, i # 1 PROVE i - 1 \in 1..n
    BY <1>1, <2>1
  <2>2. ASSUME NEW i \in 1..n PROVE f[i] = IF i = 1 THEN ss[i] ELSE f[i - 1] \o ss[i]
    BY <1>5, <1>6, <2>1
  <2>3. QED
    BY <2>2
<1> DEFINE h == CHOOSE x : Is(x)
<1>8. Is(h)
  <2> HIDE DEF f
  <2>1. QED
    BY <1>7
<1>9. SeqsExt!FlattenSeq(ss) = h[n]
  BY <1>1 DEF SeqsExt!FlattenSeq, n
<1> HIDE DEF h
<1>10. \A i \in 1..n : h[i] = IF i = 1 THEN ss[i] ELSE h[i - 1] \o ss[i]
  BY <1>8
<1>11. \A k \in 0..n : k = 0 \/ h[k] = g[k]
  <2> DEFINE Ks == {k \in 0..n : k = 0 \/ h[k] = g[k]}
  <2>1. 0 \in Ks
    BY <1>1
  <2>2. ASSUME NEW k \in 0..(n - 1), k \in Ks PROVE k + 1 \in Ks
    <3>1. k + 1 \in 1..n /\ (k + 1) - 1 = k /\ k + 1 \in 0..n
      BY <1>1
    <3>2. CASE k = 0
      BY <1>6, <1>10, <3>1, <3>2
    <3>3. CASE k # 0
      <4>1. h[k] = g[k] /\ k + 1 # 1
        BY <2>2, <3>3
      <4>2. h[k + 1] = h[k] \o ss[k + 1]
        BY <1>10, <3>1, <4>1
      <4>3. g[k + 1] = g[k] \o ss[k + 1]
        BY <1>5, <3>1
      <4>4. QED
        BY <3>1, <4>1, <4>2, <4>3
    <3>4. QED
      BY <3>2, <3>3
  <2> HIDE DEF Ks
  <2>3. \A k \in 0..n : k \in Ks
    BY <1>1, <2>1, <2>2, UpTo
  <2>4. QED
    BY <2>3 DEF Ks
<1>12. h[n] = g[n]
  BY <1>1, <1>11
<1>13. QED
  BY <1>4, <1>5, <1>9, <1>12 DEF Appends, n, E

(* There is a numeral for each inode.                                      *)
LEMMA NumeralsAre ==
  /\ DOMAIN Numerals = 1..NumFiles
  /\ \A k \in 1..NumFiles : Numerals[k] \in Names
<1>1. Numerals \in Seq(Names) /\ Len(Numerals) = NumFiles
  BY CommandAssumption DEF CommandAssumption
<1>2. QED
  BY <1>1

(* What is written is words that can be read as names.                     *)
LEMMA SavedNamesAre ==
  ASSUME NEW nm, NameMaps(nm)
  PROVE  SavedNames(nm) \in Seq(Names)
<1> DEFINE ss == [k \in DOMAIN NameOrder |-> LineOf(nm, NameOrder[k])]
<1>1. NameOrder \in Seq(STRING) /\ DOMAIN NameOrder = 1..Len(NameOrder) /\ Len(NameOrder) \in Nat
  BY NameAssumption DEF NameAssumption
<1>2. ASSUME NEW i \in Inodes PROVE Spelling(i) \in Names
  <2>1. i + 1 \in 1..NumFiles
    BY LayoutIs DEF Inodes
  <2>2. QED
    BY <2>1, NumeralsAre DEF Spelling
<1>3. ASSUME NEW n PROVE LineOf(nm, n) \in Seq(Names)
  <2>1. CASE n \notin DOMAIN nm
    BY <2>1 DEF LineOf
  <2>2. CASE n \in DOMAIN nm
    <3>1. Spelling(nm[n]) \in Names /\ n \in Names
      BY <1>2, <2>2 DEF NameMaps
    <3>2. <<Spelling(nm[n])>> \in Seq(Names) /\ <<n, Spelling(nm[n])>> \in Seq(Names)
      BY <3>1
    <3>3. QED
      BY <2>2, <3>2 DEF LineOf
  <2>3. QED
    BY <2>1, <2>2
<1>4. ss \in Seq(Seq(Names))
  <2>1. ss \in [1..Len(NameOrder) -> Seq(Names)]
    BY <1>1, <1>3
  <2> HIDE DEF ss
  <2>2. QED
    BY <1>1, <2>1
<1>5. SavedNames(nm) = SeqsExt!FlattenSeq(ss)
  BY DEF SavedNames
<1> HIDE DEF ss
<1>6. CASE ss = << >>
  <2>1. SeqsExt!FlattenSeq(ss) = << >>
    BY <1>6 DEF SeqsExt!FlattenSeq
  <2>2. QED
    BY <1>5, <2>1
<1>7. CASE ss # << >>
  <2>1. PICK g \in [0..Len(ss) -> Seq(Names)] : SeqsExt!FlattenSeq(ss) = g[Len(ss)]
    BY <1>4, <1>7, FlattenIs
  <2>2. Len(ss) \in 0..Len(ss)
    BY <1>4
  <2>3. QED
    BY <1>5, <2>1, <2>2
<1>8. QED
  BY <1>6, <1>7

(* A numeral spells an inode.                                              *)
LEMMA NumberOfIs ==
  ASSUME NEW w, IsNumeral(w)
  PROVE  NumberOf(w) \in Inodes
<1>1. DOMAIN Numerals = 1..NumFiles /\ NumFiles \in Nat
  BY NumeralsAre, LayoutIs
<1>2. \E k \in DOMAIN Numerals : Numerals[k] = w
  BY DEF IsNumeral
<1> DEFINE j == CHOOSE k \in DOMAIN Numerals : Numerals[k] = w
<1>3. j \in DOMAIN Numerals
  BY <1>2
<1>4. NumberOf(w) = j - 1
  BY DEF NumberOf
<1> HIDE DEF j
<1>5. QED
  BY <1>1, <1>3, <1>4 DEF Inodes

(* What is read is a name map.                                             *)
LEMMA LoadedNamesAre ==
  ASSUME NEW words \in Seq(Names), NamesLoad(words)
  PROVE  NameMaps(LoadedNames(words))
<1>1. CASE words = << >>
  <2>1. LoadedNames(words) = [n \in {""} |-> 0]
    BY <1>1 DEF LoadedNames
  <2>2. "" \in Names /\ 0 \in Inodes
    BY CommandAssumption, LayoutIs DEF CommandAssumption
  <2>3. QED
    BY <2>1, <2>2 DEF NameMaps
<1>2. CASE words # << >>
  <2> DEFINE at == {k \in DOMAIN words : k % 2 = 1}
             after(k) == IF k + 1 <= Len(words) THEN NumberOf(words[k + 1])
                         ELSE IF k = 1 THEN 0 ELSE NumberOf(words[k - 1])
             first(n) == CHOOSE k \in at :
                           words[k] = n /\ \A j \in at : words[j] = n => k <= j
             nm == [n \in {words[k] : k \in at} |-> after(first(n))]
  <2>1. LoadedNames(words) = nm
    BY <1>2 DEF LoadedNames
  <2>2. /\ DOMAIN words = 1..Len(words) /\ Len(words) \in Nat
        /\ \A k \in 1..Len(words) : words[k] \in Names
    OBVIOUS
  <2>3. ASSUME NEW k \in at PROVE after(k) \in Inodes
    <3>1. k \in Nat /\ k >= 1 /\ k <= Len(words) /\ k % 2 = 1
      BY <2>2
    <3>2. \A j \in 1..Len(words) : j % 2 = 0 => NumberOf(words[j]) \in Inodes
      BY <2>2, NumberOfIs DEF NamesLoad
    <3>3. CASE k + 1 <= Len(words)
      BY <2>2, <3>1, <3>2, <3>3
    <3>4. CASE ~(k + 1 <= Len(words)) /\ k = 1
      BY <3>4, LayoutIs
    <3>5. CASE ~(k + 1 <= Len(words)) /\ k # 1
      BY <2>2, <3>1, <3>2, <3>5
    <3>6. QED
      BY <3>3, <3>4, <3>5
  <2>4. ASSUME NEW n \in {words[k] : k \in at} PROVE first(n) \in at
    <3> DEFINE M == {k \in at : words[k] = n}
    <3>1. M \in SUBSET Nat /\ M # {}
      BY <2>2, <2>4
    <3>2. \E k \in M : \A j \in M : k <= j
      <4> HIDE DEF M
      <4>1. QED
        BY <3>1, LeastNumber
    <3>3. \E k \in at : words[k] = n /\ \A j \in at : words[j] = n => k <= j
      BY <3>2
    <3>4. QED
      BY <3>3
  <2>5. DOMAIN nm \subseteq Names
    BY <2>2
  <2>6. \A n \in DOMAIN nm : nm[n] \in Inodes
    <3> HIDE DEF first, after
    <3>1. QED
      BY <2>3, <2>4
  <2>7. QED
    BY <2>1, <2>5, <2>6 DEF NameMaps
<1>3. QED
  BY <1>1, <1>2

-----------------------------------------------------------------------------
(* Commands begin with what they need.                                     *)

(* Where nothing of the segments is touched, they are as they were.        *)
LEMMA SegmentsSame ==
  ASSUME SegmentTyped, CleanerTyped, UNCHANGED segVars
  PROVE  SegmentTyped' /\ CleanerTyped'
<1>1. UNCHANGED <<disk, mem, dirty, leaveOff, imap, cr>> /\ cl' = cl
  BY DEF segVars
<1>2. QED
  BY <1>1 DEF SegmentTyped, CleanerTyped

(* A name in use has an inode.                                             *)
LEMMA NameIsKnown ==
  ASSUME TypeInv, NEW n \in DOMAIN nameMap
  PROVE  n \in Names /\ nameMap[n] \in Inodes
BY DEF TypeInv, FilesTyped, NameMaps

(* The chunk of nothing is a chunk.                                        *)
LEMMA NoChunkIs == NoChunk \in Chunk
BY LayoutIs DEF NoChunk, Chunk

(* A free inode is one without a block.                                    *)
LEMMA FreeInodeIs ==
  ASSUME FreeInodes # {}
  PROVE  Least(FreeInodes) \in Inodes /\ imap[Least(FreeInodes)] = Nil
<1>1. FreeInodes \in SUBSET Nat
  BY LayoutIs DEF FreeInodes, Inodes
<1>2. Least(FreeInodes) \in FreeInodes
  BY <1>1, LeastIs
<1>3. QED
  BY <1>2 DEF FreeInodes

(* import takes a free inode, and has all of its blocks to write.          *)
LEMMA ImportIs ==
  ASSUME TypeInv, NEW n \in FileNames, NEW src \in Sources, Import(n, src)
  PROVE  LET ino == Least(FreeInodes)
         IN /\ ino \in Inodes /\ imap[ino] = Nil
            /\ Busy(work') /\ work' # Idle /\ ~work'.turned
            /\ work'.pc = "data" /\ work'.ino = ino /\ work'.entry = ino
            /\ work'.node = NewNode(n, src) /\ work'.todo = ImportTasks(src)
            /\ nameMap' = [m \in DOMAIN nameMap \cup {n} |-> IF m = n THEN ino ELSE nameMap[m]]
            /\ n \in Names /\ src \in Seq(Nat)
<1> DEFINE ino == Least(FreeInodes)
<1>1. /\ n \in Names /\ src \in Seq(Nat)
  BY CommandAssumption DEF CommandAssumption
<1>2. ino \in Inodes /\ imap[ino] = Nil
  BY FreeInodeIs DEF Import
<1>3. /\ nameMap' = [m \in DOMAIN nameMap \cup {n} |-> IF m = n THEN ino ELSE nameMap[m]]
      /\ work' = Working("data", <<"import", n, src>>, ino, ino, NewNode(n, src),
                         ImportTasks(src), NoChunk)
  BY DEF Import, ImportTasks
<1> HIDE DEF ino
<1>4. NewNode(n, src) \in Block
  BY <1>1, NewNodeIs
<1>5. /\ ImportTasks(src) \in Seq(Tasks) /\ ImportTasks(src) # << >> /\ ~Waits(ImportTasks(src))
  BY <1>1, ImportTasksAre
<1> DEFINE w == Working("data", <<"import", n, src>>, ino, ino, NewNode(n, src),
                        ImportTasks(src), NoChunk)
<1>6. /\ Busy(w) /\ w # Idle /\ ~w.turned /\ w.pc = "data" /\ w.ino = ino /\ w.entry = ino
      /\ w.node = NewNode(n, src) /\ w.todo = ImportTasks(src)
  <2>1. Fit("data", <<"import", n, src>>, ino, ino, NewNode(n, src), ImportTasks(src), NoChunk)
    BY <1>2, <1>4, <1>5, NoChunkIs DEF Fit
  <2>2. QED
    BY <2>1, WorkingIs
<1> HIDE DEF w
<1>7. QED
  BY <1>1, <1>2, <1>3, <1>6 DEF w, ino

(* remove frees the inode, and has its chunk to write.                     *)
LEMMA RemoveIs ==
  ASSUME TypeInv, NEW n \in FileNames, Remove(n)
  PROVE  LET ino == nameMap[n]
         IN /\ n \in DOMAIN nameMap /\ ino \in Inodes
            /\ nameMap' = [m \in DOMAIN nameMap \ {n} |-> nameMap[m]]
            /\ imap' = [imap EXCEPT ![ino] = Nil] /\ imap' \in [Inodes -> Addr]
            /\ Busy(work') /\ work' # Idle /\ ~work'.turned
            /\ work'.pc = "chunk" /\ work'.ino = ino /\ work'.entry = ino
            /\ work'.chunk = GetChunk(imap', ChunkOf(ino))
            /\ UNCHANGED <<disk, mem, dirty, leaveOff, cr, cl, nameFile, ckpt, status>>
<1> DEFINE ino == nameMap[n]
           chunk == GetChunk(imap', ChunkOf(ino))
           w == Working("chunk", <<"remove", n>>, ino, ino, ZeroBlock, << >>, chunk)
<1>1. n \in DOMAIN nameMap /\ ino \in Inodes
  BY NameIsKnown DEF Remove
<1>2. /\ nameMap' = [m \in DOMAIN nameMap \ {n} |-> nameMap[m]]
      /\ imap' = [imap EXCEPT ![ino] = Nil] /\ work' = w
      /\ UNCHANGED <<disk, mem, dirty, leaveOff, cr, cl, nameFile, ckpt, status>>
  BY DEF Remove
<1> HIDE DEF ino
<1>3. imap' \in [Inodes -> Addr]
  BY <1>1, <1>2, LayoutIs DEF TypeInv, SegmentTyped
<1>4. chunk \in Chunk
  BY <1>1, <1>3, ChunkOfInode, GetChunkIs
<1> HIDE DEF chunk
<1>5. << >> \in Seq(Tasks) /\ ~Waits(<< >>)
  BY DEF Waits
<1>6. /\ Busy(w) /\ w # Idle /\ ~w.turned /\ w.pc = "chunk" /\ w.ino = ino /\ w.entry = ino
      /\ w.chunk = chunk
  <2>1. Fit("chunk", <<"remove", n>>, ino, ino, ZeroBlock, << >>, chunk)
    BY <1>1, <1>4, <1>5, ZeroBlockIs DEF Fit
  <2>2. QED
    BY <2>1, WorkingIs
<1> HIDE DEF w
<1>7. QED
  BY <1>1, <1>2, <1>3, <1>6 DEF ino, chunk

(* What overwrite changes of an inode are its sizes.                       *)
Resized(node, end) ==
  IF end > FileSize(node)
    THEN [node EXCEPT !.complete = end \div BlockSize, !.incomplete = end % BlockSize]
    ELSE node

(* The name and the pointers stay, and the size becomes the end.           *)
LEMMA ResizedIs ==
  ASSUME NEW node \in Block, NEW end \in Nat, end <= MaxSize
  PROVE  /\ Resized(node, end) \in Block
         /\ Resized(node, end).name = node.name /\ Resized(node, end).ptrs = node.ptrs
         /\ FileSize(Resized(node, end)) = IF end > FileSize(node) THEN end ELSE FileSize(node)
<1> DEFINE full == end \div BlockSize
           part == end % BlockSize
           r    == Resized(node, end)
<1>1. /\ full \in Nat /\ part \in 0..(BlockSize - 1) /\ full * BlockSize + part = end
      /\ part \in Nat
  BY Blocks, LayoutIs
<1>2. CASE end > FileSize(node)
  <2>1. r = [node EXCEPT !.complete = full, !.incomplete = part]
    BY <1>2 DEF Resized
  <2> HIDE DEF full, part, r
  <2>2. r = [bytes |-> node.bytes, ptrs |-> node.ptrs, chunk |-> node.chunk,
             name |-> node.name, complete |-> full, incomplete |-> part]
    <3>1. node = [bytes |-> node.bytes, ptrs |-> node.ptrs, chunk |-> node.chunk,
                  name |-> node.name, complete |-> node.complete,
                  incomplete |-> node.incomplete]
      BY BlockFields
    <3>2. QED
      BY <2>1, <3>1
  <2>3. r \in Block
    BY <1>1, <2>2, BlockFields, BlockOf
  <2>4. FileSize(r) = end
    BY <1>1, <2>2 DEF FileSize
  <2>5. QED
    BY <1>2, <2>2, <2>3, <2>4 DEF r
<1>3. CASE ~(end > FileSize(node))
  BY <1>3 DEF Resized
<1>4. QED
  BY <1>2, <1>3

(* Each block that overwrite adds to a file is among those it writes.      *)
Added(size, start, first, whole, over, end, k) ==
  /\ {size, start, first, whole, end, k} \subseteq Nat /\ over \in 0..(BlockSize - 1)
  /\ BlockSize * first <= start /\ start < size
  /\ \/ end <= BlockSize * (first + 1)
     \/ end = BlockSize * (first + 1) + (BlockSize * whole + over)
  /\ BlockSize * k < end /\ size <= BlockSize * k

(* Such a block is a whole one or the last.                                *)
LEMMA OverwriteCovers ==
  ASSUME NEW size, NEW start, NEW first, NEW whole, NEW over, NEW end, NEW k,
         Added(size, start, first, whole, over, end, k)
  PROVE  /\ k > first
         /\ k - first \in 1..whole \/ (over # 0 /\ k = first + whole + 1)
<1>0. /\ size \in Nat /\ start \in Nat /\ first \in Nat /\ whole \in Nat /\ end \in Nat /\ k \in Nat
      /\ over \in 0..(BlockSize - 1)
      /\ BlockSize * first <= start /\ start < size
      /\ \/ end <= BlockSize * (first + 1)
         \/ end = BlockSize * (first + 1) + (BlockSize * whole + over)
      /\ BlockSize * k < end /\ size <= BlockSize * k
  BY DEF Added
<1>1. BlockSize \in Nat \ {0}
  BY LayoutIs
<1>2. BlockSize * first < BlockSize * k
  <2>1. BlockSize * first \in Int /\ BlockSize * k \in Int
    BY <1>0, <1>1
  <2>2. QED
    BY <1>0, <2>1
<1>3. first < k
  BY <1>0, <1>1, <1>2, Factors
<1>4. BlockSize * (first + 1) <= BlockSize * k
  BY <1>0, <1>1, <1>3
<1>5. end = BlockSize * (first + 1) + (BlockSize * whole + over)
  <2>1. BlockSize * (first + 1) \in Int /\ BlockSize * k \in Int
    BY <1>0, <1>1
  <2>2. QED
    BY <1>0, <1>4, <2>1
<1> DEFINE last == first + 1 + whole
<1>6. BlockSize * last = BlockSize * (first + 1) + BlockSize * whole
  BY <1>0, <1>1
<1>7. BlockSize * last \in Int /\ BlockSize * whole \in Int /\ BlockSize * (first + 1) \in Int
      /\ BlockSize * k \in Int /\ last \in Nat
  BY <1>0, <1>1
<1> HIDE DEF last
<1>8. end = BlockSize * last + over
  BY <1>0, <1>5, <1>6, <1>7
<1>9. BlockSize * (last + 1) = BlockSize * last + BlockSize
  BY <1>0, <1>1, <1>7, Factors
<1>10. BlockSize * k < BlockSize * (last + 1)
  BY <1>0, <1>1, <1>7, <1>8, <1>9
<1>11. k < last + 1
  BY <1>0, <1>1, <1>7, <1>10, Factors
<1>12. over = 0 => k < last
  <2>1. over = 0 => BlockSize * k < BlockSize * last
    BY <1>0, <1>7, <1>8
  <2>2. QED
    BY <1>0, <1>1, <1>7, <2>1, Factors
<1>13. QED
  BY <1>0, <1>3, <1>7, <1>11, <1>12 DEF last

(* overwrite has to write what it adds to the file.                        *)
LEMMA OverwriteIs ==
  ASSUME TypeInv, NEW n \in FileNames, NEW howMany \in Nat, NEW start \in Nat, NEW c \in Nat,
         Overwrite(n, howMany, start, c)
  PROVE  LET ino  == nameMap[n]
             node == BlockAt(imap[ino])
         IN /\ n \in DOMAIN nameMap /\ ino \in Inodes /\ node \in Block
            /\ Busy(work') /\ work' # Idle /\ ~work'.turned
            /\ work'.pc = "data" /\ work'.ino = ino
            /\ work'.entry = IF node.name \in DOMAIN nameMap THEN nameMap[node.name] ELSE 0
            /\ \E end \in 0..MaxSize :
                 /\ work'.node = Resized(node, end)
                 /\ \A k \in 0..(MaxData - 1) :
                      BlockSize * k < end /\ FileSize(node) <= BlockSize * k =>
                        \E j \in 1..Len(work'.todo) : work'.todo[j][1] = k
            /\ nameMap' = [m \in DOMAIN nameMap \cup {node.name} |->
                             IF m \in DOMAIN nameMap THEN nameMap[m] ELSE 0]
<1> DEFINE ino   == nameMap[n]
           node  == BlockAt(imap[ino])
           many  == SmallerOf(howMany, MaxSize - start)
           first == start \div BlockSize
           rel   == start % BlockSize
           head  == SmallerOf(many, BlockSize - rel)
           rest  == many - head
           end   == start + many
           whole == rest \div BlockSize
           over  == rest % BlockSize
           last  == first + whole + 1
           block == Filled(BlockAt(node.ptrs[first]).bytes, rel, rel + head, c)
           entry == IF node.name \in DOMAIN nameMap THEN nameMap[node.name] ELSE 0
           todo  == OverwriteTasks(first, block, whole, c, over, last)
           req   == <<"overwrite", n, howMany, start, c>>
           w     == Working("data", req, ino, entry, Resized(node, end), todo, NoChunk)
<1>1. n \in DOMAIN nameMap /\ ino \in Inodes
  BY NameIsKnown DEF Overwrite
<1>2. SegmentTyped /\ imap[ino] \in Addr
  BY <1>1 DEF TypeInv, SegmentTyped
<1>3. node \in Block
  BY <1>2, BlocksAre
<1>4. start < MaxSize /\ start < FileSize(node) /\ many > 0
  BY DEF Overwrite
<1>5. /\ nameMap' = [m \in DOMAIN nameMap \cup {node.name} |->
                       IF m \in DOMAIN nameMap THEN nameMap[m] ELSE 0]
      /\ work' = w
  BY DEF Overwrite, Resized, OverwriteTasks
<1>6. /\ many \in Nat /\ end \in Nat /\ end <= MaxSize
      /\ first \in 0..(MaxData - 1) /\ rel \in 0..(BlockSize - 1) /\ head \in Nat
      /\ rest \in Nat /\ whole \in Nat
      /\ rest = 0 => whole = 0 /\ end <= BlockSize * (first + 1)
      /\ rest > 0 => end = BlockSize * (first + 1) + rest
      /\ \A b \in 1..whole : first + b \in 0..(MaxData - 1)
      /\ over # 0 => last \in 0..(MaxData - 1)
  BY <1>4, OverwriteReaches
<1>7. over \in 0..(BlockSize - 1) /\ rest = BlockSize * whole + over
      /\ BlockSize * first <= start
  <2>1. rest \in Nat
    BY <1>6
  <2>2. over \in 0..(BlockSize - 1) /\ rest = BlockSize * whole + over
    <3> HIDE DEF rest
    <3>1. QED
      BY <2>1, Blocks
  <2>3. BlockSize * first <= start
    <3>1. start = BlockSize * first + rel /\ first \in Nat /\ rel \in 0..(BlockSize - 1)
      BY Blocks
    <3> HIDE DEF first, rel
    <3>2. BlockSize * first \in Int
      BY <3>1, LayoutIs
    <3>3. QED
      BY <3>1, <3>2
  <2>4. QED
    BY <2>2, <2>3
<1> HIDE DEF many, first, rel, head, rest, end, whole, over, ino, node, last
<1>8. block \in Content
  <2>1. node.ptrs[first] \in Addr
    BY <1>3, <1>6, BlockFields DEF Pointers
  <2>2. BlockAt(node.ptrs[first]).bytes \in Content
    BY <1>2, <2>1, BlocksAre, BlockFields
  <2>3. rel \in Nat /\ rel + head \in Nat
    BY <1>6, LayoutIs
  <2>4. QED
    BY <2>2, <2>3, FilledIs
<1> HIDE DEF block
<1>9. /\ todo \in Seq(Tasks) /\ todo # << >>
      /\ Len(todo) = whole + (IF over = 0 THEN 1 ELSE 2)
      /\ \A b \in 1..whole : todo[b + 1][1] = first + b
      /\ over # 0 => todo[whole + 2][1] = last
  <2>1. over \in Nat
    BY <1>7, LayoutIs
  <2>2. WithinFile(first, block, whole, c, over, last)
    BY <1>6, <1>8, <2>1 DEF WithinFile
  <2>3. TasksAre(todo, first, block, whole, c, over, last)
    BY <2>2, OverwriteTasksAre
  <2> HIDE DEF todo
  <2>4. QED
    BY <2>3 DEF TasksAre
<1>10. entry \in Inodes
  BY NameIsKnown, LayoutIs
<1>11. Resized(node, end) \in Block
  BY <1>3, <1>6, ResizedIs
<1> HIDE DEF entry, todo
<1>12. req \in OverwriteRequests
  BY DEF OverwriteRequests
<1> HIDE DEF req
<1>13. Fit("data", req, ino, entry, Resized(node, end), todo, NoChunk)
  BY <1>1, <1>9, <1>10, <1>11, <1>12, NoChunkIs DEF Fit
<1>14. /\ Busy(w) /\ w # Idle /\ ~w.turned /\ w.pc = "data" /\ w.ino = ino /\ w.entry = entry
       /\ w.node = Resized(node, end) /\ w.todo = todo
  BY <1>13, WorkingIs
<1> HIDE DEF w
<1>15. ASSUME NEW k \in 0..(MaxData - 1), BlockSize * k < end, FileSize(node) <= BlockSize * k
       PROVE  \E j \in 1..Len(todo) : todo[j][1] = k
  <2>1. FileSize(node) \in Nat /\ k \in Nat /\ first \in Nat
    BY <1>3, <1>6, BlockFields, LayoutIs
  <2>2. /\ k > first
        /\ k - first \in 1..whole \/ (over # 0 /\ k = last)
    <3>1. end <= BlockSize * (first + 1)
          \/ end = BlockSize * (first + 1) + (BlockSize * whole + over)
      BY <1>6, <1>7
    <3>2. Added(FileSize(node), start, first, whole, over, end, k)
      BY <1>4, <1>6, <1>7, <1>15, <2>1, <3>1 DEF Added
    <3>3. last = first + whole + 1
      BY DEF last
    <3>4. QED
      BY <3>2, <3>3, OverwriteCovers
  <2>3. CASE k - first \in 1..whole
    <3>1. (k - first) + 1 \in 1..Len(todo) /\ first + (k - first) = k
      BY <1>6, <1>9, <2>1, <2>3
    <3>2. QED
      BY <1>9, <2>3, <3>1
  <2>4. CASE over # 0 /\ k = last
    <3>1. whole + 2 \in 1..Len(todo)
      BY <1>6, <1>9, <2>4
    <3>2. QED
      BY <1>9, <2>4, <3>1
  <2>5. QED
    BY <2>2, <2>3, <2>4
<1>16. end \in 0..MaxSize
  BY <1>6, MaxSizeIs
<1>17. \E e \in 0..MaxSize :
         /\ work'.node = Resized(node, e)
         /\ \A k \in 0..(MaxData - 1) :
              BlockSize * k < e /\ FileSize(node) <= BlockSize * k =>
                \E j \in 1..Len(work'.todo) : work'.todo[j][1] = k
  BY <1>5, <1>14, <1>15, <1>16
<1>18. QED
  BY <1>1, <1>3, <1>5, <1>14, <1>17 DEF ino, node, entry

-----------------------------------------------------------------------------
(* The writes of a command.                                                *)

(* A command in hand is one that is being carried out.                     *)
LEMMA BusyIs ==
  ASSUME TypeInv, work.pc # "idle" \/ work # Idle
  PROVE  Busy(work) /\ work # Idle /\ status \in {"up", "spinning", "corrupt"}
<1>1. work # Idle
  BY IdleIs
<1>2. QED
  BY <1>1 DEF TypeInv, ControlTyped

(* Without a command nothing is cleaned.                                   *)
LEMMA IdleWork ==
  ASSUME TypeInv, work.pc = "idle"
  PROVE  work = Idle /\ cl.pc = "off"
BY DEF TypeInv, ControlTyped, Busy

(* The first block to be written.                                          *)
LEMMA HeadTask ==
  ASSUME TypeInv, work.pc = "data"
  PROVE  /\ Busy(work) /\ work.todo \in Seq(Tasks) /\ Len(work.todo) \in Nat \ {0}
         /\ Head(work.todo) = work.todo[1] /\ Head(work.todo) \in Tasks
         /\ Head(work.todo)[1] \in 0..(MaxData - 1)
         /\ Head(work.todo)[2] = Unread \/ Head(work.todo)[2] \in Content
<1>1. Busy(work)
  BY BusyIs
<1>2. work.todo \in Seq(Tasks) /\ work.todo # << >>
  BY <1>1 DEF Busy
<1>3. Len(work.todo) \in Nat \ {0} /\ Head(work.todo) = work.todo[1]
      /\ Head(work.todo) \in Tasks
  BY <1>2, EmptySeq, HeadTailProperties
<1>4. QED
  BY <1>1, <1>2, <1>3 DEF Tasks

(* The last block is read, and nothing else of the command changes.        *)
LEMMA ReadLastIs ==
  ASSUME TypeInv, ReadLast
  PROVE  LET k == Head(work.todo)[1]
         IN /\ Up /\ cl.pc = "off" /\ work.pc = "data" /\ Busy(work)
            /\ k \in 0..(MaxData - 1)
            /\ \E x \in Content :
                 work'.todo = [work.todo EXCEPT ![1] = <<k, x>>]
            /\ Busy(work') /\ work' # Idle
            /\ \A f \in WorkFields \ {"todo"} : work'[f] = work[f]
<1> DEFINE k == Head(work.todo)[1]
           a == work.node.ptrs[k]
           old == IF a[1] = work.memSeg THEN MemBlock(a) ELSE DiskBlock(a)
           req == work.request
           upto == (req[3] + req[4]) % BlockSize
           x == Filled(old.bytes, 0, upto, req[5])
<1>1. /\ Up /\ cl.pc = "off" /\ work.pc = "data" /\ Head(work.todo)[2] = Unread
      /\ work' = [work EXCEPT !.todo[1] = <<k, x>>]
  BY DEF ReadLast, Writing, NextUnread
<1>2. /\ Busy(work) /\ work.todo \in Seq(Tasks) /\ Len(work.todo) \in Nat \ {0}
      /\ Head(work.todo) = work.todo[1] /\ k \in 0..(MaxData - 1)
  BY <1>1, HeadTask
<1>3. Waits(work.todo)
  BY <1>1, <1>2 DEF Waits
<1>4. req \in OverwriteRequests
  BY <1>2, <1>3 DEF Busy
<1>5. req[3] + req[4] \in Nat /\ req[5] \in Nat
  BY <1>4 DEF OverwriteRequests
<1>6. upto \in Nat
  <2> HIDE DEF req
  <2>1. upto \in 0..(BlockSize - 1)
    BY <1>5, Blocks
  <2>2. QED
    BY <2>1, LayoutIs
<1>7. old.bytes \in Content
  <2>1. a \in Addr
    BY <1>2, BlockFields DEF Busy, Pointers
  <2>2. QED
    BY <2>1, BlocksAre, BlockFields DEF TypeInv
<1> HIDE DEF old, upto, req, k
<1>8. x \in Content
  BY <1>5, <1>6, <1>7, FilledIs
<1> HIDE DEF x
<1> DEFINE todo == [work.todo EXCEPT ![1] = <<k, x>>]
<1>9. todo \in Seq(Tasks) /\ Len(todo) = Len(work.todo) /\ todo # << >>
  <2>1. <<k, x>> \in Tasks
    BY <1>2, <1>8 DEF Tasks
  <2>2. QED
    BY <1>2, <2>1
<1>10. Waits(todo) => Waits(work.todo)
  BY <1>2, <1>3
<1> HIDE DEF todo
<1>11. DOMAIN work = WorkFields
  BY <1>2 DEF Busy
<1>12. /\ DOMAIN work' = WorkFields /\ work'.todo = todo
       /\ \A f \in WorkFields \ {"todo"} : work'[f] = work[f]
  BY <1>1, <1>11 DEF WorkFields, todo
<1>13. Busy(work')
  BY <1>2, <1>4, <1>9, <1>10, <1>12 DEF Busy, WorkFields, req
<1>14. work' # Idle
  BY <1>13, IdleIs
<1>15. QED
  BY <1>1, <1>2, <1>8, <1>12, <1>13, <1>14 DEF k, todo

(* A data block is written, and its inode told.                            *)
LEMMA WriteDataIs ==
  ASSUME TypeInv, WriteData
  PROVE  LET k == Head(work.todo)[1]
             c == Cell("DATA", work.ino, k, [ZeroBlock EXCEPT !.bytes = Head(work.todo)[2]])
         IN /\ Up /\ cl.pc = "off" /\ work.pc = "data" /\ Busy(work)
            /\ k \in 0..(MaxData - 1) /\ c \in Cells /\ Put(c)
            /\ Busy(work') /\ work' # Idle /\ ~work'.turned
            /\ work'.node = [work.node EXCEPT !.ptrs[k] = Here]
            /\ work'.todo = Tail(work.todo)
            /\ work'.pc = IF Len(work.todo) = 1 THEN "inode" ELSE "data"
            /\ \A f \in WorkFields \ {"node", "todo", "turned", "pc"} : work'[f] = work[f]
<1> DEFINE k == Head(work.todo)[1]
           b == [ZeroBlock EXCEPT !.bytes = Head(work.todo)[2]]
           c == Cell("DATA", work.ino, k, b)
           node == [work.node EXCEPT !.ptrs[k] = Here]
           todo == Tail(work.todo)
           pc   == IF Len(work.todo) = 1 THEN "inode" ELSE "data"
<1>1. /\ Up /\ cl.pc = "off" /\ work.pc = "data" /\ Head(work.todo)[2] # Unread
      /\ Put(c)
      /\ work' = [work EXCEPT !.node.ptrs[k] = Here, !.todo = Tail(@), !.turned = FALSE,
                              !.pc = pc]
  BY DEF WriteData, Writing, NextUnread
<1>2. /\ Busy(work) /\ work.todo \in Seq(Tasks) /\ Len(work.todo) \in Nat \ {0}
      /\ Head(work.todo) = work.todo[1] /\ k \in 0..(MaxData - 1)
      /\ Head(work.todo)[2] \in Content
  BY <1>1, HeadTask
<1>3. work.ino \in Inodes /\ work.node \in Block
  BY <1>2 DEF Busy
<1>4. c \in Cells
  BY <1>2, <1>3, ZeroBlockIs, BlockSet, CellIs
<1>5. Here \in Addr
  BY <1>1, <1>4, PutIs DEF TypeInv
<1>6. node \in Block
  BY <1>2, <1>3, <1>5, BlockSet
<1>7. /\ todo \in Seq(Tasks) /\ Len(todo) = Len(work.todo) - 1
      /\ \A j \in 1..Len(todo) : todo[j] = work.todo[j + 1]
  BY <1>2, EmptySeq, HeadTailProperties
<1>8. Waits(todo) => Waits(work.todo)
  <2> HIDE DEF todo
  <2>1. \A j \in 1..Len(todo) : j + 1 \in 1..Len(work.todo)
    BY <1>2, <1>7
  <2>2. QED
    BY <1>7, <2>1 DEF Waits
<1>9. pc = "data" => todo # << >>
  <2>1. pc = "data" => Len(work.todo) # 1
    OBVIOUS
  <2> HIDE DEF todo, pc
  <2>2. todo = << >> => Len(todo) = 0
    OBVIOUS
  <2>3. QED
    BY <1>2, <1>7, <2>1, <2>2
<1>10. pc \in {"data", "inode"}
  OBVIOUS
<1>11. DOMAIN work = WorkFields
  BY <1>2 DEF Busy
<1>12. /\ DOMAIN work' = WorkFields /\ work'.node = node /\ work'.todo = todo
       /\ work'.turned = FALSE /\ work'.pc = pc
       /\ \A f \in WorkFields \ {"node", "todo", "turned", "pc"} : work'[f] = work[f]
  BY <1>1, <1>11 DEF WorkFields
<1> HIDE DEF todo, node, pc, c, k
<1>13. Busy(work')
  BY <1>2, <1>6, <1>7, <1>8, <1>9, <1>10, <1>12 DEF Busy, WorkFields
<1>14. work' # Idle
  BY <1>13, IdleIs
<1>15. QED
  BY <1>1, <1>2, <1>4, <1>12, <1>13, <1>14 DEF todo, node, pc, c, k, b

(* The inode is written, the imap told, and its chunk copied.              *)
LEMMA WriteInodeIs ==
  ASSUME TypeInv, WriteInode
  PROVE  LET c == Cell("INODE", work.ino, 0, work.node)
         IN /\ Up /\ cl.pc = "off" /\ work.pc = "inode" /\ Busy(work)
            /\ c \in Cells /\ Put(c)
            /\ imap' = [imap EXCEPT ![work.entry] = Here] /\ imap' \in [Inodes -> Addr]
            /\ Busy(work') /\ work' # Idle /\ ~work'.turned
            /\ work'.pc = "chunk" /\ work'.chunk = GetChunk(imap', ChunkOf(work.entry))
            /\ \A f \in WorkFields \ {"chunk", "turned", "pc"} : work'[f] = work[f]
<1> DEFINE c == Cell("INODE", work.ino, 0, work.node)
           chunk == GetChunk(imap', ChunkOf(work.entry))
<1>1. /\ Up /\ cl.pc = "off" /\ work.pc = "inode" /\ Put(c)
      /\ imap' = [imap EXCEPT ![work.entry] = Here]
      /\ work' = [work EXCEPT !.pc = "chunk", !.turned = FALSE, !.chunk = chunk]
  BY DEF WriteInode, Writing
<1>2. Busy(work)
  BY <1>1, BusyIs
<1>3. work.ino \in Inodes /\ work.entry \in Inodes /\ work.node \in Block
      /\ DOMAIN work = WorkFields
  BY <1>2 DEF Busy
<1>4. c \in Cells
  BY <1>3, CellIs
<1>5. Here \in Addr
  BY <1>1, <1>4, PutIs DEF TypeInv
<1>6. imap' \in [Inodes -> Addr]
  BY <1>1, <1>3, <1>5 DEF TypeInv, SegmentTyped
<1>7. chunk \in Chunk
  BY <1>3, <1>6, ChunkOfInode, GetChunkIs
<1> HIDE DEF chunk, c
<1>8. /\ DOMAIN work' = WorkFields /\ work'.pc = "chunk" /\ work'.turned = FALSE
      /\ work'.chunk = chunk
      /\ \A f \in WorkFields \ {"chunk", "turned", "pc"} : work'[f] = work[f]
  BY <1>1, <1>3 DEF WorkFields
<1>9. Busy(work')
  BY <1>2, <1>7, <1>8 DEF Busy, WorkFields
<1>10. work' # Idle
  BY <1>9, IdleIs
<1>11. QED
  BY <1>1, <1>2, <1>4, <1>6, <1>8, <1>9, <1>10 DEF chunk, c

(* The chunk is written, the checkpoint region told, the command over.     *)
LEMMA WriteImapChunkIs ==
  ASSUME TypeInv, WriteImapChunk
  PROVE  LET c == ChunkOf(work.entry)
         IN /\ Up /\ cl.pc = "off" /\ work.pc = "chunk" /\ Busy(work)
            /\ c \in Chunks /\ work.chunk \in Chunk
            /\ ChunkCell(c, work.chunk) \in Cells /\ Put(ChunkCell(c, work.chunk))
            /\ cr' = [cr EXCEPT ![c] = Here] /\ cr' \in [Chunks -> Addr]
            /\ work' = Idle
<1> DEFINE c == ChunkOf(work.entry)
<1>1. /\ Up /\ cl.pc = "off" /\ work.pc = "chunk" /\ Put(ChunkCell(c, work.chunk))
      /\ cr' = [cr EXCEPT ![c] = Here] /\ work' = Idle
  BY DEF WriteImapChunk, Writing
<1>2. Busy(work)
  BY <1>1, BusyIs
<1>3. c \in Chunks /\ work.chunk \in Chunk
  BY <1>2, ChunkOfInode DEF Busy
<1> HIDE DEF c
<1>4. ChunkCell(c, work.chunk) \in Cells
  BY <1>3, ChunkCellIs
<1>5. Here \in Addr
  BY <1>1, <1>4, PutIs DEF TypeInv
<1>6. cr' \in [Chunks -> Addr]
  BY <1>1, <1>3, <1>5 DEF TypeInv, SegmentTyped
<1>7. QED
  BY <1>1, <1>2, <1>3, <1>4, <1>6 DEF c

(* A turn, and the cleaning it begins.                                     *)
LEMMA TurnSegmentIs ==
  ASSUME TypeInv, TurnSegment
  PROVE  /\ Up /\ cl.pc = "off" /\ Busy(work) /\ work # Idle /\ ~work.turned
         /\ Turn /\ cl' \in CleanerRecord /\ cl'.pc \in {"off", "scan"}
         /\ cl'.pc # "off" => cl' = Cleaner("scan", 0, mem.seg) /\ CleanBelow > 0
         /\ cl'.seg = 0
         /\ Busy(work') /\ work' # Idle /\ work'.turned
         /\ \A f \in WorkFields \ {"turned"} : work'[f] = work[f]
<1>1. /\ Up /\ cl.pc = "off" /\ work.pc # "idle" /\ ~work.turned /\ Turn
      /\ cl' = IF Cardinality(Clean) < CleanBelow
                 THEN Cleaner("scan", 0, mem.seg) ELSE CleanerOff
      /\ work' = [work EXCEPT !.turned = TRUE]
  BY DEF TurnSegment, WantsToWrite, TurnAndClean
<1>2. Busy(work) /\ work # Idle
  BY <1>1, BusyIs
<1>3. mem.seg \in Segs /\ 0 \in 0..NumSegments
  BY MemoryFields, LayoutIs DEF TypeInv, SegmentTyped
<1>4. /\ cl' \in CleanerRecord /\ cl'.pc \in {"off", "scan"} /\ cl'.seg = 0
      /\ cl'.pc # "off" => cl' = Cleaner("scan", 0, mem.seg)
  <2>1. CASE Cardinality(Clean) < CleanBelow
    BY <1>1, <1>3, <2>1, CleanerIs
  <2>2. CASE ~(Cardinality(Clean) < CleanBelow)
    BY <1>1, <1>3, <2>2, LayoutIs, CleanerIs DEF CleanerOff
  <2>3. QED
    BY <2>1, <2>2
<1>5. cl'.pc # "off" => CleanBelow > 0
  <2>1. Cardinality(Clean) \in Nat
    <3>1. IsFiniteSet(Segs)
      BY LayoutIs, FS_Interval DEF Segs
    <3>2. IsFiniteSet(Clean)
      BY <3>1, FS_Subset DEF Clean
    <3>3. QED
      BY <3>2, FS_CardinalityType
  <2>2. cl'.pc # "off" => Cardinality(Clean) < CleanBelow
    BY <1>1, OffIs
  <2>3. QED
    BY <2>1, <2>2, LayoutIs
<1>6. /\ DOMAIN work' = WorkFields /\ work'.turned = TRUE
      /\ \A f \in WorkFields \ {"turned"} : work'[f] = work[f]
  BY <1>1, <1>2 DEF Busy, WorkFields
<1>7. Busy(work')
  BY <1>2, <1>6 DEF Busy, WorkFields
<1>8. work' # Idle
  BY <1>7, IdleIs
<1>9. QED
  BY <1>1, <1>2, <1>4, <1>5, <1>6, <1>7, <1>8

-----------------------------------------------------------------------------
(* Every step keeps the types.                                             *)

(* A cleaner that is off has nothing to keep.                              *)
LEMMA OffTyped ==
  ASSUME cl' \in CleanerRecord, cl'.pc = "off"
  PROVE  CleanerTyped'
BY DEF CleanerTyped

(* A command that begins leaves the segments alone.                        *)
LEMMA CommandTyped ==
  ASSUME TypeInv, Ready, CountCommand,
         UNCHANGED <<disk, mem, dirty, leaveOff, cr, cl, nameFile, ckpt, status>>,
         imap' \in [Inodes -> Addr], NameMaps(nameMap'), Busy(work'), work' # Idle
  PROVE  TypeInv'
<1>1. work.pc = "idle" /\ status = "up" /\ mounts' = mounts
  BY DEF Ready, Up, CountCommand
<1>2. cl.pc = "off" /\ cl' = cl /\ cl \in CleanerRecord
  BY <1>1, IdleWork DEF TypeInv, CleanerTyped
<1>3. CleanerTyped'
  BY <1>2, OffTyped
<1>4. SegmentTyped'
  BY DEF TypeInv, SegmentTyped
<1>5. FilesTyped'
  BY DEF TypeInv, FilesTyped
<1>6. ControlTyped'
  BY <1>1, <1>2 DEF TypeInv, ControlTyped
<1>7. QED
  BY <1>3, <1>4, <1>5, <1>6 DEF TypeInv

(* import keeps the types.                                                 *)
LEMMA ImportTyped ==
  ASSUME TypeInv, NEW n \in FileNames, NEW src \in Sources, Import(n, src)
  PROVE  TypeInv'
<1> DEFINE ino == Least(FreeInodes)
<1>1. /\ ino \in Inodes /\ Busy(work') /\ work' # Idle /\ n \in Names
      /\ nameMap' = [m \in DOMAIN nameMap \cup {n} |-> IF m = n THEN ino ELSE nameMap[m]]
  BY ImportIs
<1>2. NameMaps(nameMap)
  BY DEF TypeInv, FilesTyped
<1> HIDE DEF ino
<1>3. NameMaps(nameMap')
  BY <1>1, <1>2 DEF NameMaps
<1>4. /\ Ready /\ CountCommand
      /\ UNCHANGED <<disk, mem, dirty, leaveOff, imap, cr, cl, nameFile, ckpt, status>>
  BY DEF Import, segVars
<1>5. imap' \in [Inodes -> Addr]
  BY <1>4 DEF TypeInv, SegmentTyped
<1>6. QED
  BY <1>1, <1>3, <1>4, <1>5, CommandTyped

(* remove keeps the types.                                                 *)
LEMMA RemoveTyped ==
  ASSUME TypeInv, NEW n \in FileNames, Remove(n)
  PROVE  TypeInv'
<1>1. /\ imap' \in [Inodes -> Addr] /\ Busy(work') /\ work' # Idle
      /\ nameMap' = [m \in DOMAIN nameMap \ {n} |-> nameMap[m]]
      /\ UNCHANGED <<disk, mem, dirty, leaveOff, cr, cl, nameFile, ckpt, status>>
  BY RemoveIs
<1>2. NameMaps(nameMap)
  BY DEF TypeInv, FilesTyped
<1>3. NameMaps(nameMap')
  BY <1>1, <1>2 DEF NameMaps
<1>4. Ready /\ CountCommand
  BY DEF Remove
<1>5. QED
  BY <1>1, <1>3, <1>4, CommandTyped

(* overwrite keeps the types.                                              *)
LEMMA OverwriteTyped ==
  ASSUME TypeInv, NEW n \in FileNames, NEW howMany \in Nat, NEW start \in Nat, NEW c \in Nat,
         Overwrite(n, howMany, start, c)
  PROVE  TypeInv'
<1> DEFINE node == BlockAt(imap[nameMap[n]])
<1>1. /\ node \in Block /\ Busy(work') /\ work' # Idle
      /\ nameMap' = [m \in DOMAIN nameMap \cup {node.name} |->
                       IF m \in DOMAIN nameMap THEN nameMap[m] ELSE 0]
  BY OverwriteIs
<1>2. NameMaps(nameMap) /\ 0 \in Inodes
  BY LayoutIs DEF TypeInv, FilesTyped
<1>3. node.name \in Names
  BY <1>1, BlockFields
<1> HIDE DEF node
<1>4. NameMaps(nameMap')
  BY <1>1, <1>2, <1>3 DEF NameMaps
<1>5. /\ Ready /\ CountCommand
      /\ UNCHANGED <<disk, mem, dirty, leaveOff, imap, cr, cl, nameFile, ckpt, status>>
  BY DEF Overwrite, segVars
<1>6. imap' \in [Inodes -> Addr]
  BY <1>5 DEF TypeInv, SegmentTyped
<1>7. QED
  BY <1>1, <1>4, <1>5, <1>6, CommandTyped

(* A process that ends leaves nothing in memory.                           *)
LEMMA EmptyIs ==
  /\ NoImap \in [Inodes -> Addr] /\ NoCr \in [Chunks -> Addr]
  /\ MemoryAt(FirstAddr, Blank) \in Memory
  /\ MemoryAt(FirstAddr, Blank).seg = 0 /\ MemoryAt(FirstAddr, Blank).idx = NumSsbs
  /\ MemoryAt(FirstAddr, Blank).cells = Blank
  /\ << >> \in Seq(Names) /\ NameMaps(<< >>)
  /\ \A k \in {"none", "short", "empty", "full"} :
       NoCheckpoint(k) \in CheckpointRecord /\ NoCheckpoint(k).kind = k
<1>1. NoImap \in [Inodes -> Addr] /\ NoCr \in [Chunks -> Addr]
  BY LayoutIs DEF NoImap, NoCr
<1>2. NumSsbs \in NumSsbs..SegSize
  BY LayoutIs
<1>3. /\ MemoryAt(FirstAddr, Blank) \in Memory
      /\ MemoryAt(FirstAddr, Blank).seg = 0 /\ MemoryAt(FirstAddr, Blank).idx = NumSsbs
      /\ MemoryAt(FirstAddr, Blank).cells = Blank
  BY <1>2, LayoutIs, BlankIs DEF MemoryAt, FirstAddr, Memory
<1>4. \A k \in {"none", "short", "empty", "full"} :
       NoCheckpoint(k) \in CheckpointRecord /\ NoCheckpoint(k).kind = k
  BY <1>1, LayoutIs DEF NoCheckpoint, Checkpoint, CheckpointRecord
<1>5. << >> \in Seq(Names) /\ NameMaps(<< >>)
  BY DEF NameMaps
<1>6. QED
  BY <1>1, <1>3, <1>4, <1>5

(* A process that ends keeps the types.                                    *)
LEMMA EndTyped ==
  ASSUME TypeInv, ProcessEnds, UNCHANGED <<disk, nameFile, mounts>>,
         ckpt' \in CheckpointRecord
  PROVE  TypeInv'
<1>1. /\ mem' = MemoryAt(FirstAddr, Blank) /\ dirty' = {} /\ leaveOff' = FirstAddr
      /\ imap' = NoImap /\ cr' = NoCr /\ cl' = CleanerOff
      /\ nameMap' = << >> /\ work' = Idle /\ status' = "down"
  BY DEF ProcessEnds
<1>2. SegmentTyped'
  BY <1>1, EmptyIs, LayoutIs DEF TypeInv, SegmentTyped
<1>3. CleanerTyped'
  BY <1>1, OffIs, OffTyped
<1>4. FilesTyped'
  BY <1>1, EmptyIs DEF TypeInv, FilesTyped
<1>5. ControlTyped'
  BY <1>1, OffIs DEF TypeInv, ControlTyped
<1>6. QED
  BY <1>2, <1>3, <1>4, <1>5 DEF TypeInv

(* A write of the command, with the cleaner off.                           *)
LEMMA WriteTyped ==
  ASSUME TypeInv, Up, cl.pc = "off", cl' = cl, SegmentTyped',
         UNCHANGED <<nameMap, nameFile, ckpt, status, mounts>>,
         work' = Idle \/ Busy(work')
  PROVE  TypeInv'
<1>1. CleanerTyped'
  BY OffTyped DEF TypeInv, CleanerTyped
<1>2. FilesTyped'
  BY DEF TypeInv, FilesTyped
<1>3. ControlTyped'
  BY DEF TypeInv, ControlTyped, Up
<1>4. QED
  BY <1>1, <1>2, <1>3 DEF TypeInv

(* The writes of a command, its turns and its cleaning keep the types.     *)
LEMMA WorkTyped ==
  ASSUME TypeInv, WorkStep
  PROVE  TypeInv'
<1> USE DEF bounds
<1>1. CASE ReadLast
  <2>1. Up /\ cl.pc = "off" /\ Busy(work')
    BY <1>1, ReadLastIs
  <2>2. UNCHANGED <<disk, mem, dirty, leaveOff, imap, cr, cl,
                    nameMap, nameFile, ckpt, status, mounts>>
    BY <1>1 DEF ReadLast, segVars
  <2>3. SegmentTyped'
    BY <2>2 DEF TypeInv, SegmentTyped
  <2>4. QED
    BY <2>1, <2>2, <2>3, WriteTyped
<1>2. CASE WriteData
  <2> DEFINE c == Cell("DATA", work.ino, Head(work.todo)[1],
                       [ZeroBlock EXCEPT !.bytes = Head(work.todo)[2]])
  <2>1. Up /\ cl.pc = "off" /\ Busy(work') /\ c \in Cells /\ Put(c)
    BY <1>2, WriteDataIs
  <2>2. UNCHANGED <<imap, cr, cl, nameMap, nameFile, ckpt, status, mounts>>
    BY <1>2 DEF WriteData
  <2> HIDE DEF c
  <2>3. SegmentTyped'
    BY <2>1, <2>2, PutTyped DEF TypeInv, SegmentTyped
  <2>4. QED
    BY <2>1, <2>2, <2>3, WriteTyped
<1>3. CASE WriteInode
  <2> DEFINE c == Cell("INODE", work.ino, 0, work.node)
  <2>1. /\ Up /\ cl.pc = "off" /\ Busy(work') /\ c \in Cells /\ Put(c)
        /\ imap' \in [Inodes -> Addr]
    BY <1>3, WriteInodeIs
  <2>2. UNCHANGED <<cr, cl, nameMap, nameFile, ckpt, status, mounts>>
    BY <1>3 DEF WriteInode
  <2> HIDE DEF c
  <2>3. SegmentTyped'
    BY <2>1, <2>2, PutTyped DEF TypeInv, SegmentTyped
  <2>4. QED
    BY <2>1, <2>2, <2>3, WriteTyped
<1>4. CASE WriteImapChunk
  <2> DEFINE c == ChunkCell(ChunkOf(work.entry), work.chunk)
  <2>1. /\ Up /\ cl.pc = "off" /\ work' = Idle /\ c \in Cells /\ Put(c)
        /\ cr' \in [Chunks -> Addr]
    BY <1>4, WriteImapChunkIs
  <2>2. UNCHANGED <<imap, cl, nameMap, nameFile, ckpt, status, mounts>>
    BY <1>4 DEF WriteImapChunk
  <2> HIDE DEF c
  <2>3. SegmentTyped'
    BY <2>1, <2>2, PutTyped DEF TypeInv, SegmentTyped
  <2>4. QED
    BY <2>1, <2>2, <2>3, WriteTyped
<1>5. CASE TurnSegment
  <2>1. /\ Up /\ Turn /\ cl' \in CleanerRecord /\ cl'.pc \in {"off", "scan"} /\ cl'.seg = 0
        /\ Busy(work') /\ work' # Idle /\ work'.turned
    BY <1>5, TurnSegmentIs
  <2>2. UNCHANGED <<nameMap, nameFile, ckpt, status, mounts>>
    BY <1>5 DEF TurnSegment
  <2>3. SegmentTyped'
    BY <2>1, TurnIs DEF TypeInv
  <2>4. CleanerTyped'
    BY <2>1, LayoutIs DEF CleanerTyped
  <2>5. FilesTyped'
    BY <2>2 DEF TypeInv, FilesTyped
  <2>6. ControlTyped'
    BY <2>1, <2>2 DEF TypeInv, ControlTyped, Up
  <2>7. QED
    BY <2>3, <2>4, <2>5, <2>6 DEF TypeInv
<1>6. CASE Cleaning
  <2>1. Up /\ CleanStep /\ UNCHANGED <<nameMap, nameFile, ckpt, status, work, mounts>>
    BY <1>6 DEF Cleaning, driveVars
  <2>2. SegmentTyped' /\ CleanerTyped'
    BY <2>1, CleanStepTyped DEF TypeInv
  <2>3. FilesTyped'
    BY <2>1 DEF TypeInv, FilesTyped
  <2>4. cl.pc # "off"
    BY <2>1 DEF CleanStep, ScanSegment, MoveData, MoveInode, MoveChunk, CleanTurn,
       Release, CleanEnds, Moving
  <2>5. ControlTyped'
    BY <2>1, <2>4 DEF TypeInv, ControlTyped
  <2>6. QED
    BY <2>2, <2>3, <2>5 DEF TypeInv
<1>7. CASE Overrun
  <2>1. /\ status = "up" /\ cl.pc = "off" /\ work.pc # "idle"
        /\ status' = "corrupt" /\ UNCHANGED <<segVars, nameMap, nameFile, ckpt, work, mounts>>
    BY <1>7 DEF Overrun, WantsToWrite, Up
  <2>2. SegmentTyped' /\ CleanerTyped' /\ cl' = cl
    BY <2>1, SegmentsSame DEF TypeInv, segVars
  <2>3. FilesTyped'
    BY <2>1 DEF TypeInv, FilesTyped
  <2>4. ControlTyped'
    BY <2>1, <2>2 DEF TypeInv, ControlTyped
  <2>5. QED
    BY <2>2, <2>3, <2>4 DEF TypeInv
<1>8. CASE Spin
  <2>1. /\ status = "up" /\ disk' = [disk EXCEPT ![mem.seg] = mem.cells]
        /\ mem' = [mem EXCEPT !.idx = NumSsbs, !.cells = Blank]
        /\ status' = "spinning"
        /\ UNCHANGED <<dirty, leaveOff, imap, cr, cl, nameMap, nameFile, ckpt, work, mounts>>
    BY <1>8 DEF Spin, Up
  <2>2. /\ mem.seg \in Segs /\ mem.cells \in Image /\ disk \in [Segs -> Image]
        /\ mem = [seg |-> mem.seg, idx |-> mem.idx, cells |-> mem.cells]
    BY MemoryFields DEF TypeInv, SegmentTyped
  <2>3. mem' = [seg |-> mem.seg, idx |-> NumSsbs, cells |-> Blank]
    BY <2>1, <2>2
  <2>4. mem' \in Memory /\ mem'.seg = mem.seg
    BY <2>2, <2>3, BlankIs, LayoutIs DEF Memory
  <2>5. disk' \in [Segs -> Image]
    BY <2>1, <2>2
  <2>6. SegmentTyped'
    BY <2>1, <2>4, <2>5 DEF TypeInv, SegmentTyped
  <2>7. CleanerTyped'
    <3>1. cl' = cl /\ dirty' = dirty /\ cl \in CleanerRecord
      BY <2>1 DEF TypeInv, CleanerTyped
    <3>2. ASSUME cl.pc = "move" PROVE disk'[cl.seg] = disk[cl.seg]
      <4>1. cl.seg # mem.seg /\ cl.seg \in Segs
        BY <3>2, SegmentCleaned DEF TypeInv, CleanerTyped
      <4>2. QED
        BY <2>1, <2>2, <4>1
    <3>3. QED
      BY <2>4, <3>1, <3>2 DEF TypeInv, CleanerTyped
  <2>8. FilesTyped'
    BY <2>1 DEF TypeInv, FilesTyped
  <2>9. ControlTyped'
    BY <2>1 DEF TypeInv, ControlTyped
  <2>10. QED
    BY <2>6, <2>7, <2>8, <2>9 DEF TypeInv
<1>9. QED
  BY <1>1, <1>2, <1>3, <1>4, <1>5, <1>6, <1>7, <1>8 DEF WorkStep

(* A mount finds in the files what a shutdown left.                        *)
LEMMA SavedImapIs ==
  ASSUME TypeInv
  PROVE  SavedImap \in [Inodes -> Addr]
<1>1. ASSUME NEW i \in Inodes
      PROVE  (IF ckpt.cr[ChunkOf(i)] = Nil THEN Nil
              ELSE DiskBlock(ckpt.cr[ChunkOf(i)]).chunk[i % ChunkLen]) \in Addr
  <2>1. ChunkOf(i) \in Chunks /\ i % ChunkLen \in 0..(ChunkLen - 1)
    BY ChunkOfInode
  <2>2. ckpt.cr[ChunkOf(i)] \in Addr
    BY <2>1 DEF TypeInv, FilesTyped, CheckpointRecord
  <2>3. DiskBlock(ckpt.cr[ChunkOf(i)]).chunk \in Chunk
    BY <2>2, BlocksAre, BlockFields DEF TypeInv
  <2>4. QED
    BY <2>1, <2>3, LayoutIs DEF Chunk
<1>2. QED
  BY <1>1 DEF SavedImap

(* What a mount takes from the files.                                      *)
LEMMA MountIs ==
  ASSUME TypeInv, Mount
  PROVE  /\ status = "down" /\ status' = "up" /\ mounts' = mounts + 1
         /\ work = Idle /\ cl.pc = "off" /\ UNCHANGED <<disk, nameFile, ckpt, work, cl>>
         /\ ckpt.kind = "full" /\ ckpt.leaveOff[2] >= NumSsbs
         /\ ckpt.leaveOff[1] \in Segs /\ ckpt.leaveOff[2] \in Slots
         /\ mem' \in Memory /\ mem'.seg = ckpt.leaveOff[1] /\ mem'.idx = ckpt.leaveOff[2]
         /\ mem'.cells = disk[ckpt.leaveOff[1]]
         /\ leaveOff' = <<ckpt.leaveOff[1], ckpt.leaveOff[2] - 1>> /\ leaveOff' \in Addr
         /\ dirty' = ckpt.dirty /\ cr' = ckpt.cr /\ imap' = SavedImap
         /\ NamesLoad(nameFile) /\ nameMap' = LoadedNames(nameFile)
<1>1. /\ status = "down" /\ status' = "up" /\ mounts' = mounts + 1
      /\ UNCHANGED <<disk, nameFile, ckpt, work, cl>>
      /\ ckpt.kind = "full" /\ ckpt.leaveOff[2] >= NumSsbs
      /\ mem' = MemoryAt(ckpt.leaveOff, disk[ckpt.leaveOff[1]])
      /\ leaveOff' = [ckpt.leaveOff EXCEPT ![2] = @ - 1]
      /\ dirty' = ckpt.dirty /\ cr' = ckpt.cr /\ imap' = SavedImap
      /\ NamesLoad(nameFile) /\ nameMap' = LoadedNames(nameFile)
  BY DEF Mount, StartProcess, Mountable, LeaveOffValid
<1>2. work = Idle /\ cl.pc = "off"
  BY <1>1 DEF TypeInv, ControlTyped
<1>3. ckpt.leaveOff \in Addr
  BY DEF TypeInv, FilesTyped, CheckpointRecord
<1>4. /\ ckpt.leaveOff[1] \in Segs /\ ckpt.leaveOff[2] \in 0..(SegSize - 1)
      /\ ckpt.leaveOff = <<ckpt.leaveOff[1], ckpt.leaveOff[2]>>
  BY <1>3 DEF Addr
<1>5. ckpt.leaveOff[2] \in Slots /\ ckpt.leaveOff[2] \in NumSsbs..SegSize
      /\ ckpt.leaveOff[2] - 1 \in 0..(SegSize - 1)
  BY <1>1, <1>4, LayoutIs DEF Slots
<1>6. disk[ckpt.leaveOff[1]] \in Image
  BY <1>4 DEF TypeInv, SegmentTyped
<1>7. /\ mem' \in Memory /\ mem'.seg = ckpt.leaveOff[1] /\ mem'.idx = ckpt.leaveOff[2]
      /\ mem'.cells = disk[ckpt.leaveOff[1]]
  BY <1>1, <1>4, <1>5, <1>6 DEF MemoryAt, Memory
<1>8. leaveOff' = <<ckpt.leaveOff[1], ckpt.leaveOff[2] - 1>>
  BY <1>1, <1>4
<1>9. leaveOff' \in Addr
  BY <1>4, <1>5, <1>8 DEF Addr
<1>10. QED
  BY <1>1, <1>2, <1>4, <1>5, <1>7, <1>8, <1>9

(* A process that begins keeps the types.                                  *)
LEMMA StartTyped ==
  ASSUME TypeInv, Format \/ Mount \/ RefuseMount
  PROVE  TypeInv'
<1>1. /\ status = "down" /\ mounts' = mounts + 1 /\ UNCHANGED <<work, cl>>
      /\ status' \in {"up", "refused"}
  BY DEF Format, Mount, RefuseMount, StartProcess
<1>2. work = Idle /\ cl.pc = "off" /\ mounts' \in Nat /\ cl \in CleanerRecord
  BY <1>1 DEF TypeInv, ControlTyped, CleanerTyped
<1>3. CleanerTyped'
  BY <1>1, <1>2, OffTyped
<1>4. ControlTyped'
  BY <1>1, <1>2 DEF ControlTyped
<1>5. CASE Format
  <2>1. /\ disk' = [s \in Segs |-> Blank] /\ ckpt' = NoCheckpoint("short")
        /\ UNCHANGED <<mem, dirty, leaveOff, imap, cr, nameMap, nameFile>>
    BY <1>5 DEF Format
  <2>2. disk' \in [Segs -> Image]
    BY <2>1, BlankIs
  <2>3. SegmentTyped'
    BY <2>1, <2>2 DEF TypeInv, SegmentTyped
  <2>4. FilesTyped'
    BY <2>1, EmptyIs DEF TypeInv, FilesTyped
  <2>5. QED
    BY <1>3, <1>4, <2>3, <2>4 DEF TypeInv
<1>6. CASE Mount
  <2>1. /\ UNCHANGED <<disk, nameFile, ckpt>> /\ mem' \in Memory /\ leaveOff' \in Addr
        /\ dirty' = ckpt.dirty /\ cr' = ckpt.cr /\ imap' = SavedImap
        /\ NamesLoad(nameFile) /\ nameMap' = LoadedNames(nameFile)
    BY <1>6, MountIs
  <2>2. ckpt.dirty \in SUBSET Segs /\ ckpt.cr \in [Chunks -> Addr] /\ nameFile \in Seq(Names)
    BY DEF TypeInv, FilesTyped, CheckpointRecord
  <2>3. SegmentTyped'
    BY <2>1, <2>2, SavedImapIs DEF TypeInv, SegmentTyped
  <2>4. NameMaps(LoadedNames(nameFile))
    BY <2>1, <2>2, LoadedNamesAre
  <2>5. FilesTyped'
    BY <2>1, <2>4 DEF TypeInv, FilesTyped
  <2>6. QED
    BY <1>3, <1>4, <2>3, <2>5 DEF TypeInv
<1>7. CASE RefuseMount
  <2>1. UNCHANGED <<segVars, nameMap, nameFile, ckpt>>
    BY <1>7 DEF RefuseMount
  <2>2. SegmentTyped'
    BY <2>1, SegmentsSame DEF TypeInv
  <2>3. FilesTyped'
    BY <2>1 DEF TypeInv, FilesTyped
  <2>4. QED
    BY <1>3, <1>4, <2>2, <2>3 DEF TypeInv
<1>8. QED
  BY <1>5, <1>6, <1>7

(* The block number behind another is that of a block of the drive.        *)
LEMMA SuccIs ==
  ASSUME NEW a \in Addr
  PROVE  Succ(a) \in Addr
<1>1. a[1] \in Segs /\ a[2] \in 0..(SegSize - 1)
  BY DEF Addr
<1>2. (a[1] + 1) % NumSegments \in Segs
  <2>1. a[1] + 1 \in Int
    BY <1>1, LayoutIs DEF Segs
  <2>2. QED
    BY <2>1, LayoutIs, Remainder DEF Segs
<1>3. 0 \in 0..(SegSize - 1)
  BY LayoutIs
<1>4. CASE a[2] + 1 < SegSize
  <2>1. a[2] + 1 \in 0..(SegSize - 1)
    BY <1>1, <1>4, LayoutIs
  <2>2. QED
    BY <1>1, <1>4, <2>1 DEF Succ, Addr
<1>5. CASE ~(a[2] + 1 < SegSize)
  BY <1>2, <1>3, <1>5 DEF Succ, Addr
<1>6. QED
  BY <1>4, <1>5

(* ~Drive keeps the types.                                                 *)
LEMMA ShutdownTyped ==
  ASSUME TypeInv, Shutdown
  PROVE  TypeInv'
<1> USE DEF bounds
<1>1. CASE BeginShutdown
  <2>1. /\ work.pc = "idle" /\ status' = "closing" /\ nameFile' = << >>
        /\ UNCHANGED <<segVars, nameMap, ckpt, work, mounts>>
    BY <1>1 DEF BeginShutdown
  <2>2. work = Idle
    BY <2>1, IdleWork
  <2>3. SegmentTyped' /\ CleanerTyped' /\ cl' = cl
    BY <2>1, SegmentsSame DEF TypeInv, segVars
  <2>4. FilesTyped'
    BY <2>1, EmptyIs DEF TypeInv, FilesTyped
  <2>5. ControlTyped'
    BY <2>1, <2>2, <2>3 DEF TypeInv, ControlTyped
  <2>6. QED
    BY <2>3, <2>4, <2>5 DEF TypeInv
<1>5. CASE TruncateCheckpoint
  <2>1. /\ status = "closing" /\ status' = "truncated" /\ ckpt' = NoCheckpoint("empty")
        /\ UNCHANGED <<segVars, nameMap, nameFile, work, mounts>>
    BY <1>5 DEF TruncateCheckpoint
  <2>2. SegmentTyped' /\ CleanerTyped' /\ cl' = cl
    BY <2>1, SegmentsSame DEF TypeInv, segVars
  <2>3. FilesTyped'
    BY <2>1, EmptyIs DEF TypeInv, FilesTyped
  <2>4. ControlTyped'
    BY <2>1, <2>2 DEF TypeInv, ControlTyped
  <2>5. QED
    BY <2>2, <2>3, <2>4 DEF TypeInv
<1>2. CASE WriteNames
  <2>1. /\ status = "truncated" /\ status' = "named" /\ nameFile' = SavedNames(nameMap)
        /\ leaveOff' = Succ(leaveOff)
        /\ UNCHANGED <<disk, mem, dirty, imap, cr, cl, nameMap, ckpt, work, mounts>>
    BY <1>2 DEF WriteNames
  <2>2. leaveOff' \in Addr
    BY <2>1, SuccIs DEF TypeInv, SegmentTyped
  <2>3. SegmentTyped'
    BY <2>1, <2>2 DEF TypeInv, SegmentTyped
  <2>4. CleanerTyped'
    BY <2>1 DEF TypeInv, CleanerTyped
  <2>5. nameFile' \in Seq(Names)
    BY <2>1, SavedNamesAre DEF TypeInv, FilesTyped
  <2>6. FilesTyped'
    BY <2>1, <2>5 DEF TypeInv, FilesTyped
  <2>7. ControlTyped'
    BY <2>1 DEF TypeInv, ControlTyped
  <2>8. QED
    BY <2>3, <2>4, <2>6, <2>7 DEF TypeInv
<1>3. CASE FlushLast
  <2>1. /\ status = "named" /\ disk' = [disk EXCEPT ![mem.seg] = mem.cells]
        /\ mem' = [mem EXCEPT !.cells = Blank] /\ status' = "flushed"
        /\ UNCHANGED <<dirty, leaveOff, imap, cr, cl, nameMap, nameFile, ckpt, work, mounts>>
    BY <1>3 DEF FlushLast
  <2>2. /\ mem.seg \in Segs /\ mem.idx \in NumSsbs..SegSize /\ mem.cells \in Image
        /\ disk \in [Segs -> Image]
        /\ mem = [seg |-> mem.seg, idx |-> mem.idx, cells |-> mem.cells]
    BY MemoryFields DEF TypeInv, SegmentTyped
  <2>3. mem' = [seg |-> mem.seg, idx |-> mem.idx, cells |-> Blank]
    BY <2>1, <2>2
  <2>4. mem' \in Memory
    BY <2>2, <2>3, BlankIs DEF Memory
  <2>5. disk' \in [Segs -> Image]
    BY <2>1, <2>2
  <2>6. SegmentTyped'
    BY <2>1, <2>4, <2>5 DEF TypeInv, SegmentTyped
  <2>7. work = Idle /\ cl.pc = "off" /\ cl' = cl /\ cl \in CleanerRecord
    BY <2>1 DEF TypeInv, ControlTyped, CleanerTyped
  <2>8. CleanerTyped'
    BY <2>7, OffTyped
  <2>9. FilesTyped'
    BY <2>1 DEF TypeInv, FilesTyped
  <2>10. ControlTyped'
    BY <2>1, <2>7 DEF TypeInv, ControlTyped
  <2>11. QED
    BY <2>6, <2>8, <2>9, <2>10 DEF TypeInv
<1>4. CASE WriteCheckpoint
  <2>1. ckpt' = Checkpoint("full", leaveOff, dirty, cr) /\ ProcessEnds
        /\ UNCHANGED <<disk, nameFile, mounts>>
    BY <1>4 DEF WriteCheckpoint
  <2>2. ckpt' \in CheckpointRecord
    BY <2>1 DEF TypeInv, SegmentTyped, Checkpoint, CheckpointRecord
  <2>3. QED
    BY <2>1, <2>2, EndTyped
<1>6. QED
  BY <1>1, <1>2, <1>3, <1>4, <1>5 DEF Shutdown

(* A crash, or an exception that nothing catches, keeps the types.         *)
LEMMA DeathTyped ==
  ASSUME TypeInv, Crash \/ OutOfInodes
  PROVE  TypeInv'
<1>1. ProcessEnds /\ UNCHANGED <<disk, nameFile, ckpt, mounts>>
  BY DEF Crash, OutOfInodes, CountCommand
<1>2. ckpt' \in CheckpointRecord
  BY <1>1 DEF TypeInv, FilesTyped
<1>3. QED
  BY <1>1, <1>2, EndTyped

(* A step that changes nothing keeps the types.                            *)
LEMMA SameTyped ==
  ASSUME TypeInv, UNCHANGED vars
  PROVE  TypeInv'
<1>1. SegmentTyped' /\ CleanerTyped' /\ cl' = cl
  BY SegmentsSame DEF vars, segVars, TypeInv
<1>2. UNCHANGED <<nameMap, nameFile, ckpt, status, work, mounts>>
  BY DEF vars, driveVars, bounds
<1>3. QED
  BY <1>1, <1>2 DEF TypeInv, FilesTyped, ControlTyped

(* The types at the beginning.                                             *)
LEMMA InitTyped ==
  ASSUME Init
  PROVE  TypeInv
<1>1. SegmentTyped
  BY EmptyIs, BlankIs, LayoutIs DEF Init, SegmentTyped
<1>2. CleanerTyped
  BY OffIs DEF Init, CleanerTyped
<1>3. FilesTyped
  BY EmptyIs DEF Init, FilesTyped
<1>4. ControlTyped
  BY OffIs DEF Init, ControlTyped
<1>5. QED
  BY <1>1, <1>2, <1>3, <1>4 DEF TypeInv

(* The commands are given names, contents and places of the sets that they *)
(* come from.                                                              *)
LEMMA CommandStepTyped ==
  ASSUME TypeInv, Command
  PROVE  TypeInv'
<1>1. CASE \E n \in FileNames, src \in Sources : Import(n, src)
  BY <1>1, ImportTyped
<1>2. CASE \E n \in FileNames : Remove(n)
  BY <1>2, RemoveTyped
<1>3. CASE \E n \in FileNames, o \in Overwrites : Overwrite(n, o[1], o[2], o[3])
  <2>1. PICK n \in FileNames, o \in Overwrites : Overwrite(n, o[1], o[2], o[3])
    BY <1>3
  <2>2. o[1] \in Nat /\ o[2] \in Nat /\ o[3] \in Nat
    BY CommandAssumption DEF CommandAssumption
  <2>3. QED
    BY <2>1, <2>2, OverwriteTyped
<1>4. CASE OutOfInodes
  BY <1>4, DeathTyped
<1>5. QED
  BY <1>1, <1>2, <1>3, <1>4 DEF Command

(* Every step keeps the types.                                             *)
LEMMA NextTyped ==
  ASSUME TypeInv, [Next]_vars
  PROVE  TypeInv'
<1>1. CASE Format \/ Mount \/ RefuseMount
  BY <1>1, StartTyped
<1>2. CASE Command
  BY <1>2, CommandStepTyped
<1>3. CASE WorkStep
  BY <1>3, WorkTyped
<1>4. CASE Shutdown
  BY <1>4, ShutdownTyped
<1>5. CASE Crash
  BY <1>5, DeathTyped
<1>6. CASE Stopped \/ UNCHANGED vars
  BY <1>6, SameTyped DEF Stopped
<1>7. QED
  BY <1>1, <1>2, <1>3, <1>4, <1>5, <1>6 DEF Next

(* The types always hold.                                                  *)
LEMMA TypeInvariant == Spec => []TypeInv
<1>1. Init => TypeInv
  BY InitTyped
<1>2. TypeInv /\ [Next]_vars => TypeInv'
  BY NextTyped
<1>3. QED
  BY <1>1, <1>2, PTL DEF Spec

(* Whatever the sizes of the drive, and whatever the commands, mounts and  *)
(* crashes: no block is written beyond the segment in memory, no block     *)
(* number read from the drive lies beyond it, and no name has an inode     *)
(* that the imap has no room for.                                          *)
THEOREM TypeCorrect == Spec => []TypeOK
<1>1. TypeInv => TypeOK
  <2> SUFFICES ASSUME TypeInv PROVE TypeOK
    OBVIOUS
  <2>1. Cells \subseteq CellType
    BY DEF Cells
  <2>2. \A g \in Segs, s \in Slots : disk[g][s] \in CellType
    BY <2>1 DEF TypeInv, SegmentTyped, Image
  <2>3. /\ mem.seg \in Segs /\ mem.idx \in NumSsbs..SegSize /\ mem.cells \in Image
    BY MemoryFields DEF TypeInv, SegmentTyped
  <2>4. \A s \in Slots : mem.cells[s] \in CellType
    BY <2>1, <2>3 DEF Image
  <2>5. dirty \subseteq Segs /\ leaveOff \in Addr /\ imap \in [Inodes -> Addr]
        /\ cr \in [Chunks -> Addr]
    BY DEF TypeInv, SegmentTyped
  <2>6. cl.pc \in {"off", "scan", "move"} /\ cl.seg \in 0..NumSegments
    BY CleanerFields DEF TypeInv, CleanerTyped
  <2>7. DOMAIN nameMap \subseteq Names /\ \A n \in DOMAIN nameMap : nameMap[n] \in Inodes
    BY DEF TypeInv, FilesTyped, NameMaps
  <2>8. work.pc \in {"idle", "data", "inode", "chunk"}
    BY IdleIs DEF TypeInv, ControlTyped, Busy
  <2>9. status \in {"down", "up", "refused", "spinning", "corrupt",
                    "closing", "truncated", "named", "flushed"}
    BY DEF TypeInv, ControlTyped
  <2>10. QED
    BY <2>2, <2>3, <2>4, <2>5, <2>6, <2>7, <2>8, <2>9 DEF TypeOK
<1>2. QED
  BY <1>1, TypeInvariant, PTL

-----------------------------------------------------------------------------
(* display and cat.                                                        *)

(* Whole blocks in front of a place shift it by so many blocks.            *)
LEMMA BlocksInFront ==
  ASSUME NEW b \in Nat, NEW n \in Nat
  PROVE  /\ b * BlockSize \in Nat
         /\ (b * BlockSize + n) \div BlockSize = b + (n \div BlockSize)
         /\ (b * BlockSize + n) % BlockSize = n % BlockSize
<1> DEFINE m == b * BlockSize + n
           q == m \div BlockSize
           r == m % BlockSize
           v == n \div BlockSize
           w == n % BlockSize
<1>1. BlockSize \in Nat \ {0}
  BY LayoutIs
<1>2. b * BlockSize = BlockSize * b /\ BlockSize * b \in Nat /\ m \in Nat
  BY <1>1
<1>3. q \in Nat /\ r \in 0..(BlockSize - 1) /\ m = BlockSize * q + r
  <2> HIDE DEF m
  <2>1. QED
    BY <1>2, Blocks
<1>4. v \in Nat /\ w \in 0..(BlockSize - 1) /\ n = BlockSize * v + w
  BY Blocks
<1>5. m = BlockSize * b + n
  BY <1>2
<1> HIDE DEF m, q, r, v, w
<1>6. BlockSize * (b + v) = BlockSize * b + BlockSize * v
  BY <1>1, <1>4
<1> DEFINE p == b + v
<1>7. p \in Nat /\ BlockSize * q + r = BlockSize * p + w
  <2>1. BlockSize * b \in Int /\ BlockSize * v \in Int
    BY <1>1, <1>4
  <2>2. QED
    BY <1>3, <1>4, <1>5, <1>6, <2>1
<1> HIDE DEF p
<1>8. q = p /\ r = w
  <2>1. PICK d \in Int : d = q - p
    BY <1>3, <1>7
  <2>2. BlockSize * d = w - r
    <3>1. BlockSize * d = BlockSize * q - BlockSize * p
      BY <1>1, <1>3, <1>7, <2>1
    <3>2. BlockSize * q \in Int /\ BlockSize * p \in Int
      BY <1>1, <1>3, <1>7
    <3>3. QED
      BY <1>3, <1>4, <1>7, <3>1, <3>2
  <2>3. (d >= 1 => BlockSize * d >= BlockSize) /\ (d <= -1 => BlockSize * d <= -BlockSize)
    BY <1>1
  <2>4. d = 0
    BY <1>1, <1>3, <1>4, <2>2, <2>3
  <2>5. q = p
    BY <1>3, <1>7, <2>1, <2>4
  <2>6. BlockSize * q \in Int
    BY <1>1, <1>3
  <2>7. QED
    BY <1>3, <1>4, <1>7, <2>5, <2>6
<1>9. QED
  BY <1>2, <1>8 DEF p, q, r, v, w, m

(* The byte of a file behind k others.                                     *)
ByteAt(node, k, live) ==
  BlockSeen(node.ptrs[k \div BlockSize], live).bytes[(k % BlockSize) + 1]

(* From the start of a block on, display shows as many bytes as there are, *)
(* those of the file.                                                      *)
LEMMA ShownIs ==
  ASSUME NEW node \in Block, NEW b \in Nat, NEW howMany \in Nat, NEW live \in BOOLEAN,
         b * BlockSize <= FileSize(node)
  PROVE  Shown(node, b * BlockSize, howMany, live) =
           [k \in 1..SmallerOf(howMany, FileSize(node) - b * BlockSize) |->
              ByteAt(node, b * BlockSize + (k - 1), live)]
<1> DEFINE start == b * BlockSize
           size  == FileSize(node)
           many  == SmallerOf(howMany, size - start)
           first == start \div BlockSize
           n     == (LastBlock(start, many) - first) * BlockSize + (many % BlockSize)
<1>1. start \in Nat /\ size \in Nat /\ ~(start > size)
  BY BlocksInFront, BlockFields
<1>2. many \in Nat
  BY <1>1 DEF SmallerOf
<1>3. first = b
  <2>1. 0 \in Nat /\ 0 \in 0..(BlockSize - 1) /\ BlockSize \in Nat \ {0}
    BY LayoutIs
  <2>2. (start + 0) \div BlockSize = b + (0 \div BlockSize)
    BY <2>1, BlocksInFront
  <2>3. 0 \div BlockSize = 0
    BY <2>1
  <2>4. start + 0 = start
    BY <1>1
  <2>5. QED
    BY <2>2, <2>3, <2>4
<1>4. LastBlock(start, many) = b + (many \div BlockSize)
  <2> HIDE DEF many
  <2>1. QED
    BY <1>2, BlocksInFront DEF LastBlock
<1> HIDE DEF start, first, many, size
<1>5. n = many
  <2> DEFINE q == many \div BlockSize
             r == many % BlockSize
  <2>1. q \in Nat /\ r \in 0..(BlockSize - 1) /\ many = BlockSize * q + r
        /\ q * BlockSize = BlockSize * q
    BY <1>2, Blocks
  <2>2. n = ((b + q) - b) * BlockSize + r
    BY <1>3, <1>4
  <2> HIDE DEF q, r
  <2>3. (b + q) - b = q
    BY <2>1
  <2>4. QED
    BY <2>1, <2>2, <2>3
<1>6. ASSUME NEW k \in 1..many
      PROVE  BlockSeen(node.ptrs[b + ((k - 1) \div BlockSize)], live)
               .bytes[((k - 1) % BlockSize) + 1] = ByteAt(node, start + (k - 1), live)
  <2> DEFINE j == k - 1
  <2>1. j \in Nat
    BY <1>2
  <2> HIDE DEF j
  <2>2. (start + j) \div BlockSize = b + (j \div BlockSize)
        /\ (start + j) % BlockSize = j % BlockSize
    BY <2>1, BlocksInFront DEF start
  <2>3. QED
    BY <2>2 DEF ByteAt, j
<1>7. Shown(node, start, howMany, live) =
        [k \in 1..n |-> BlockSeen(node.ptrs[first + ((k - 1) \div BlockSize)], live)
                          .bytes[((k - 1) % BlockSize) + 1]]
  BY <1>1 DEF Shown, many, first, size
<1> HIDE DEF n
<1>8. QED
  BY <1>3, <1>5, <1>6, <1>7 DEF start, many, size

(* cat shows the whole file, and its bytes are numbers.                    *)
LEMMA BytesAre ==
  ASSUME TypeInv, NEW node \in Block, NEW live \in BOOLEAN
  PROVE  /\ Bytes(node, live) = [k \in 1..FileSize(node) |-> ByteAt(node, k - 1, live)]
         /\ Bytes(node, live) \in Seq(Nat) /\ Len(Bytes(node, live)) = FileSize(node)
<1> DEFINE size == FileSize(node)
           all  == Bytes(node, live)
<1>1. /\ size \in Nat /\ size <= MaxSize /\ MaxSize \in Nat /\ MaxSize = MaxData * BlockSize
  BY BlockFields, MaxSizeIs DEF MaxSize
<1>2. /\ BlockSize \in Nat \ {0} /\ MaxData \in Nat \ {0} /\ NumFiles \in Nat \ {0}
      /\ MaxData <= NumFiles
  BY LayoutIs
<1>3. NumFiles * BlockSize \in Nat /\ size <= NumFiles * BlockSize
  <2>1. MaxData * BlockSize <= NumFiles * BlockSize
    <3>1. PICK d \in Nat : d = NumFiles - MaxData
      BY <1>2
    <3>2. d * BlockSize \in Nat /\ d * BlockSize = NumFiles * BlockSize - MaxData * BlockSize
      BY <1>2, <3>1
    <3>3. MaxData * BlockSize \in Int /\ NumFiles * BlockSize \in Int
      BY <1>2
    <3>4. QED
      BY <3>2, <3>3
  <2>2. NumFiles * BlockSize \in Nat
    BY <1>2
  <2>3. QED
    BY <1>1, <2>1, <2>2
<1> DEFINE howMany == NumFiles * BlockSize
<1>4. 0 * BlockSize = 0
  BY <1>2
<1> HIDE DEF size, howMany
<1>5. Shown(node, 0, howMany, live) =
        [k \in 1..SmallerOf(howMany, size - 0) |-> ByteAt(node, 0 + (k - 1), live)]
  <2>1. 0 * BlockSize <= FileSize(node)
    BY <1>1, <1>4 DEF size
  <2>2. Shown(node, 0 * BlockSize, howMany, live) =
          [k \in 1..SmallerOf(howMany, FileSize(node) - 0 * BlockSize) |->
             ByteAt(node, 0 * BlockSize + (k - 1), live)]
    BY <1>3, <2>1, ShownIs DEF howMany
  <2>3. QED
    BY <1>4, <2>2 DEF size
<1>6. SmallerOf(howMany, size - 0) = size
  BY <1>1, <1>3 DEF SmallerOf, howMany
<1>7. \A k \in 1..size : 0 + (k - 1) = k - 1
  BY <1>1
<1>8. all = [k \in 1..size |-> ByteAt(node, k - 1, live)]
  BY <1>5, <1>6, <1>7 DEF Bytes, howMany
<1>9. ASSUME NEW k \in 1..size PROVE ByteAt(node, k - 1, live) \in Nat
  <2> DEFINE j == k - 1
  <2>1. j \in Nat /\ j < MaxSize
    BY <1>1
  <2> HIDE DEF j
  <2>2. j \div BlockSize \in 0..(MaxData - 1) /\ j % BlockSize \in 0..(BlockSize - 1)
    BY <2>1, BlockOfByte, Blocks
  <2>3. node.ptrs[j \div BlockSize] \in Addr
    BY <2>2, BlockFields DEF Pointers
  <2>4. BlockSeen(node.ptrs[j \div BlockSize], live).bytes \in Content
    BY <2>3, BlocksAre, BlockFields DEF BlockSeen, TypeInv
  <2>5. (j % BlockSize) + 1 \in 1..BlockSize
    BY <1>2, <2>2
  <2>6. QED
    BY <2>4, <2>5 DEF ByteAt, Content, j
<1> HIDE DEF all
<1>10. all \in [1..size -> Nat]
  BY <1>8, <1>9
<1>11. all \in Seq(Nat) /\ Len(all) = size
  BY <1>1, <1>10
<1>12. QED
  BY <1>8, <1>11 DEF size, all

(* Whatever the file, and whatever was written since: from the start of    *)
(* any block on display shows what cat shows there.                        *)
THEOREM DisplayIsAligned == Spec => []DisplayAligned
<1>1. TypeInv => DisplayAligned
  <2> SUFFICES ASSUME TypeInv, NEW n \in DOMAIN nameMap \cap FileNames
               PROVE  LET node == BlockAt(imap[nameMap[n]])
                          all  == Bytes(node, TRUE)
                      IN \A b \in 0..(MaxData - 1), many \in 1..MaxSize :
                           b * BlockSize <= Len(all) =>
                             Shown(node, b * BlockSize, many, TRUE) =
                               SubSeq(all, b * BlockSize + 1,
                                      SmallerOf(b * BlockSize + many, Len(all)))
    BY DEF DisplayAligned
  <2> DEFINE node == BlockAt(imap[nameMap[n]])
             all  == Bytes(node, TRUE)
             size == FileSize(node)
  <2>1. nameMap[n] \in Inodes
    BY NameIsKnown
  <2>2. node \in Block
    BY <2>1, BlocksAre DEF TypeInv, SegmentTyped
  <2> HIDE DEF node
  <2>3. all = [k \in 1..size |-> ByteAt(node, k - 1, TRUE)] /\ all \in Seq(Nat) /\ Len(all) = size
        /\ size \in Nat
    BY <2>2, BytesAre, BlockFields
  <2> HIDE DEF all, size
  <2>4. ASSUME NEW b \in 0..(MaxData - 1), NEW many \in 1..MaxSize, b * BlockSize <= size
        PROVE  Shown(node, b * BlockSize, many, TRUE) =
                 SubSeq(all, b * BlockSize + 1, SmallerOf(b * BlockSize + many, size))
    <3> DEFINE start == b * BlockSize
               upto  == SmallerOf(start + many, size)
               len   == SmallerOf(many, size - start)
               sub   == SubSeq(all, start + 1, upto)
    <3>1. start \in Nat /\ many \in Nat /\ many >= 1 /\ b \in Nat
      BY LayoutIs, MaxSizeIs, BlocksInFront
    <3>2. Shown(node, start, many, TRUE) = [k \in 1..len |-> ByteAt(node, start + (k - 1), TRUE)]
      <4>1. b * BlockSize <= FileSize(node)
        BY <2>4 DEF size
      <4>2. Shown(node, b * BlockSize, many, TRUE) =
              [k \in 1..SmallerOf(many, FileSize(node) - b * BlockSize) |->
                 ByteAt(node, b * BlockSize + (k - 1), TRUE)]
        BY <2>2, <3>1, <4>1, ShownIs
      <4>3. QED
        BY <4>2 DEF size
    <3>3. start <= size
      BY <2>4
    <3> HIDE DEF start
    <3>4. len \in Nat /\ upto \in Nat /\ upto = start + len /\ upto <= size
      BY <2>3, <3>1, <3>3 DEF SmallerOf
    <3> HIDE DEF len, upto
    <3>5. CASE len = 0
      <4>1. sub = << >>
        BY <2>3, <3>1, <3>3, <3>4, <3>5, SubSeqEmpty
      <4>2. Shown(node, start, many, TRUE) = << >>
        <5> DEFINE f == Shown(node, start, many, TRUE)
        <5>0. 1..len = {} /\ 1..0 = {}
          BY <3>5
        <5> DEFINE g(k) == ByteAt(node, start + (k - 1), TRUE)
        <5> HIDE DEF g
        <5>1. f = [k \in {} |-> g(k)]
          BY <3>2, <5>0 DEF g
        <5> HIDE DEF f
        <5>2. f \in [1..0 -> {}]
          BY <5>0, <5>1
        <5>3. f \in Seq({}) /\ Len(f) = 0
          BY <5>2
        <5>4. QED
          BY <5>3, EmptySeq DEF f
      <4>3. QED
        BY <4>1, <4>2 DEF start, upto
    <3>6. CASE len # 0
      <4>1. start + 1 \in 1..(Len(all) + 1) /\ upto \in (start + 1)..Len(all)
        BY <2>3, <3>1, <3>3, <3>4, <3>6
      <4>2. /\ sub \in Seq(Nat)
            /\ Len(sub) = IF start + 1 <= upto THEN upto - (start + 1) + 1 ELSE 0
            /\ \A i \in 1..(upto - (start + 1) + 1) : sub[i] = all[(start + 1) + i - 1]
        <5>1. /\ start + 1 \in Int /\ upto \in Int
              /\ \A i \in (start + 1)..upto : all[i] \in Nat
          <6>1. all \in Seq(Nat) /\ Len(all) = size
            BY <2>3
          <6>2. (start + 1)..upto \subseteq 1..size
            BY <2>3, <3>1, <3>4
          <6>3. \A i \in 1..size : all[i] \in Nat
            BY <6>1
          <6>4. QED
            BY <3>1, <3>4, <6>2, <6>3
        <5>2. QED
          BY <5>1, SubSeqProperties
      <4>3. upto - (start + 1) + 1 = len /\ start + 1 <= upto
        BY <3>1, <3>4, <3>6
      <4> HIDE DEF sub
      <4>4. Len(sub) = len /\ sub = [i \in 1..len |-> sub[i]]
        BY <4>2, <4>3
      <4>5. ASSUME NEW i \in 1..len PROVE sub[i] = ByteAt(node, start + (i - 1), TRUE)
        <5>1. sub[i] = all[(start + 1) + i - 1]
          BY <4>2, <4>3
        <5>2. (start + 1) + i - 1 \in 1..size
              /\ ((start + 1) + i - 1) - 1 = start + (i - 1)
          BY <2>3, <3>1, <3>4
        <5>3. QED
          BY <2>3, <5>1, <5>2
      <4>6. sub = Shown(node, start, many, TRUE)
        BY <3>2, <4>4, <4>5
      <4>7. QED
        BY <4>6 DEF sub, start, upto
    <3>7. QED
      BY <3>5, <3>6
  <2>5. QED
    BY <2>3, <2>4 DEF node, all
<1>2. QED
  BY <1>1, TypeInvariant, PTL

=============================================================================
