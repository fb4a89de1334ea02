------------------------------- MODULE Segment -------------------------------
(***************************************************************************)
(* Prog5: the segments of the log-structured drive (Segment.cpp).  The     *)
(* segment in memory takes the blocks that are written, is flushed to its  *)
(* file when it is full, moves on to a clean segment, and cleans the drive *)
(* when few clean ones are left.                                           *)
(*                                                                         *)
(* A block number segment * SIZE + offset is the pair <<segment, offset>>. *)
(* A cell is a block with its entry of the segment summary blocks; the     *)
(* summary blocks fill the offsets below NumSsbs.                          *)
(***************************************************************************)
EXTENDS Integers, FiniteSets

CONSTANTS
  NumSegments,  \* Drive::NUM_SEGMENTS
  SegSize,      \* Segment::SIZE
  NumSsbs,      \* Segment::NUM_SSBS
  BlockSize,    \* Block::SIZE
  MaxData,      \* INode::NUM_DATA_BLOCKS
  NumFiles,     \* IMap::NUM_FILES
  ChunkLen,     \* IMap::Chunk::AS_POINTERS_SIZE
  CleanBelow,   \* the 9 of find_backing_segment
  CleanSpan     \* the 32 of clean

ASSUME LayoutAssumption ==
  /\ {NumSegments, BlockSize, MaxData, NumFiles, ChunkLen} \subseteq Nat \ {0}
  /\ NumSsbs \in Nat \ {0} /\ SegSize \in Nat /\ SegSize > NumSsbs
  /\ NumFiles % ChunkLen = 0 /\ MaxData <= NumFiles
  /\ CleanBelow \in Nat /\ CleanSpan \in 0..NumSegments

Segs   == 0..(NumSegments - 1)
Slots  == NumSsbs..(SegSize - 1)
Inodes == 0..(NumFiles - 1)
Chunks == 0..((NumFiles \div ChunkLen) - 1)
Addr   == Segs \X (0..(SegSize - 1))
Nil    == <<0, 0>>                  \* block number 0, "none"

(* A block as data, as an inode or as a chunk of the imap: each kind uses  *)
(* its own fields.  A block read as a kind it is not reads as zeros.       *)
ZeroBlock ==
  [bytes      |-> [k \in 1..BlockSize |-> 0],
   ptrs       |-> [k \in 0..(MaxData - 1) |-> Nil],
   chunk      |-> [k \in 0..(ChunkLen - 1) |-> Nil],
   name       |-> "",
   complete   |-> 0,
   incomplete |-> 0]

Cell(type, id, index, block) ==
  [type |-> type, id |-> id, index |-> index, block |-> block]

EmptyCell == Cell("SSB", 0, 0, ZeroBlock)
Blank     == [s \in Slots |-> EmptyCell]   \* blocks = consolidated_type{}

VARIABLES
  disk,         \* the segment files
  mem,          \* memory_segment: backing_segment, curr_idx and blocks
  dirty,        \* Drive::segment_dirtiness
  leaveOff,     \* imap.leave_off
  imap,         \* block number of each inode
  cr,           \* imap.CHECKPOINT_REGION, block number of each chunk
  cl            \* where clean() stands

segVars == <<disk, mem, dirty, leaveOff, imap, cr, cl>>

ChunkOf(ino) == ino \div ChunkLen
GetChunk(im, c) == [k \in 0..(ChunkLen - 1) |-> im[c * ChunkLen + k]]

(* What the segment files hold, and what the drive reads: the segment in   *)
(* memory stands for its file.  Nothing else is read from a summary block  *)
(* than zeros.                                                             *)
DiskBlock(a) == IF a[2] \in Slots THEN disk[a[1]][a[2]].block ELSE ZeroBlock
MemBlock(a)  == IF a[2] \in Slots THEN mem.cells[a[2]].block ELSE ZeroBlock
BlockAt(a)   == IF a[1] = mem.seg THEN MemBlock(a) ELSE DiskBlock(a)

Full == mem.idx = SegSize
Here == <<mem.seg, mem.idx>>

(* write_block and update_SSB, with room left in the segment. *)
Put(cell) ==
  /\ ~Full
  /\ mem' = [mem EXCEPT !.cells[mem.idx] = cell, !.idx = @ + 1]
  /\ dirty' = dirty \cup {mem.seg}
  /\ leaveOff' = Here
  /\ UNCHANGED disk

(* find_backing_segment: the first clean segment from this one on, around. *)
Distance(s, t) == (t - s) % NumSegments
Clean == Segs \ dirty
NextClean ==
  CHOOSE t \in Clean : \A u \in Clean : Distance(mem.seg, t) <= Distance(mem.seg, u)

(* flush, and find_backing_segment when it finds one. *)
Turn ==
  /\ Full /\ Clean # {}
  /\ disk' = [disk EXCEPT ![mem.seg] = mem.cells]
  /\ mem' = [seg |-> NextClean, idx |-> NumSsbs, cells |-> Blank]
  /\ UNCHANGED <<dirty, leaveOff, imap, cr>>

-----------------------------------------------------------------------------
(* clean *)

NoNodes == [i \in Inodes |-> ZeroBlock]

Cleaner(pc, seg, orphan) ==
  [pc |-> pc, seg |-> seg, orphan |-> orphan,
   data |-> {}, nodes |-> NoNodes, inos |-> {}, chunks |-> {}]

CleanerOff == Cleaner("off", 0, 0)

(* Mutant of NextToClean: the loop does not move on.                       *)
NextToCleanStays == Cleaner("scan", cl.seg, cl.orphan)
NextToClean == Cleaner("scan", cl.seg + 1, cl.orphan)

(* A segment's live blocks are moved one by one: its data, then the inodes *)
(* of that data and its own, then the chunks of those inodes and its own.  *)
Moving   == cl.pc = "move"
AllMoved == cl.data = {} /\ cl.inos = {} /\ cl.chunks = {}

(* The first write into a full segment turns to another one and, with few  *)
(* clean segments left, has the drive cleaned; writes of clean() do not.   *)
TurnAndClean ==
  /\ Turn
  /\ cl' = IF Cardinality(Clean) < CleanBelow
             THEN Cleaner("scan", 0, mem.seg) ELSE CleanerOff

CleanTurn ==
  /\ Moving /\ ~AllMoved
  /\ Turn
  /\ UNCHANGED cl

(* What clean() takes for alive in segment i.  Inodes are read from the    *)
(* segment files, also those whose only copy is in memory.                 *)
LiveData(i) ==
  {s \in Slots : LET c == disk[i][s] IN
     c.type = "DATA" /\ DiskBlock(imap[c.id]).ptrs[c.index] = <<i, s>>}
LiveInodes(i) ==
  {s \in Slots : disk[i][s].type = "INODE" /\ imap[disk[i][s].id] = <<i, s>>}
LiveChunks(i) ==
  {s \in Slots : disk[i][s].type = "IMAP_CHUNK" /\ cr[disk[i][s].id] = <<i, s>>}

WorthCleaning(i) ==
  /\ i \in dirty \ {mem.seg, cl.orphan}
  /\ Cardinality(LiveData(i)) + Cardinality(LiveInodes(i))
       + Cardinality(LiveChunks(i)) # SegSize - NumSsbs

Least(S) == CHOOSE s \in S : \A t \in S : s <= t

ScanSegment ==
  /\ cl.pc = "scan" /\ cl.seg < CleanSpan
  /\ cl' =
       IF WorthCleaning(cl.seg)
         THEN LET inos == {disk[cl.seg][s].id :
                             s \in LiveData(cl.seg) \cup LiveInodes(cl.seg)}
              IN [cl EXCEPT
                    !.pc     = "move",
                    !.data   = LiveData(cl.seg),
                    !.inos   = inos,
                    !.nodes  = [i \in Inodes |-> IF i \in inos
                                  THEN DiskBlock(imap[i]) ELSE ZeroBlock],
                    !.chunks = {ChunkOf(i) : i \in inos} \cup
                               {disk[cl.seg][s].id : s \in LiveChunks(cl.seg)}]
         ELSE NextToClean
  /\ UNCHANGED <<disk, mem, dirty, leaveOff, imap, cr>>

MoveData ==
  /\ Moving /\ cl.data # {}
  /\ LET s == Least(cl.data)
         c == disk[cl.seg][s]
     IN /\ Put(c)
        /\ cl' = [cl EXCEPT !.data = @ \ {s}, !.nodes[c.id].ptrs[c.index] = Here]
  /\ UNCHANGED <<imap, cr>>

(* Mutant of MoveInode: the imap is not told where the inode went.         *)
MoveInodeUntold ==
  /\ Moving /\ cl.data = {} /\ cl.inos # {}
  /\ LET i == Least(cl.inos)
     IN /\ Put(Cell("INODE", i, 0, cl.nodes[i]))
        /\ cl' = [cl EXCEPT !.inos = @ \ {i}]
  /\ UNCHANGED <<imap, cr>>

MoveInode ==
  /\ Moving /\ cl.data = {} /\ cl.inos # {}
  /\ LET i == Least(cl.inos)
     IN /\ Put(Cell("INODE", i, 0, cl.nodes[i]))
        /\ imap' = [imap EXCEPT ![i] = Here]
        /\ cl' = [cl EXCEPT !.inos = @ \ {i}]
  /\ UNCHANGED cr

ChunkCell(c, chunk) ==
  Cell("IMAP_CHUNK", c, 0, [ZeroBlock EXCEPT !.chunk = chunk])

(* Mutant of MoveChunk: the checkpoint region is not told.                 *)
MoveChunkUntold ==
  /\ Moving /\ cl.data = {} /\ cl.inos = {} /\ cl.chunks # {}
  /\ LET c == Least(cl.chunks)
     IN /\ Put(ChunkCell(c, GetChunk(imap, c)))
        /\ cl' = [cl EXCEPT !.chunks = @ \ {c}]
  /\ UNCHANGED <<imap, cr>>

MoveChunk ==
  /\ Moving /\ cl.data = {} /\ cl.inos = {} /\ cl.chunks # {}
  /\ LET c == Least(cl.chunks)
     IN /\ Put(ChunkCell(c, GetChunk(imap, c)))
        /\ cr' = [cr EXCEPT ![c] = Here]
        /\ cl' = [cl EXCEPT !.chunks = @ \ {c}]
  /\ UNCHANGED imap

Release ==
  /\ Moving /\ AllMoved
  /\ dirty' = dirty \ {cl.seg}
  /\ cl' = NextToClean
  /\ UNCHANGED <<disk, mem, leaveOff, imap, cr>>

CleanEnds ==
  /\ cl.pc = "scan" /\ cl.seg = CleanSpan
  /\ cl' = CleanerOff
  /\ UNCHANGED <<disk, mem, dirty, leaveOff, imap, cr>>

CleanStep ==
  \/ ScanSegment \/ MoveData \/ MoveInode \/ MoveChunk
  \/ CleanTurn \/ Release \/ CleanEnds

=============================================================================
