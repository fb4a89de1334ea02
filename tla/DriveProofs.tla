------------------------------ MODULE DriveProofs ------------------------------
(***************************************************************************)
(* Proofs about Drive, for every size of the drive and every sequence of   *)
(* commands, mounts and crashes: that what the imap and the checkpoint     *)
(* region point to is what they stand for, as far as the cleaner and the   *)
(* files that a mount reads let it be.                                     *)
(***************************************************************************)
EXTENDS DriveTypeProofs

-----------------------------------------------------------------------------
(* Cells that have been written, in the segment in memory or in a file.    *)

CellOf(a, m, d) == IF a[1] = m.seg THEN m.cells[a[2]] ELSE d[a[1]][a[2]]

(* A block number that was given to a block: in a dirty segment, and below *)
(* the end of the one in memory.                                           *)
Placed(a, m, g) == a[2] \in Slots /\ a[1] \in g /\ (a[1] = m.seg => a[2] < m.idx)

Holds(a, m, d, g, t, i) ==
  Placed(a, m, g) /\ CellOf(a, m, d).type = t /\ CellOf(a, m, d).id = i

(* Nothing that was written is lost in a step.                             *)
Keeps ==
  \A a \in Addr : Placed(a, mem, dirty) =>
    Placed(a, mem', dirty') /\ CellOf(a, mem', disk') = CellOf(a, mem, disk)

(* Where no segment is touched, nothing is lost.                           *)
LEMMA SameKeeps ==
  ASSUME UNCHANGED <<disk, mem, dirty>>
  PROVE  Keeps
<1>1. disk' = disk /\ mem' = mem /\ dirty' = dirty
  OBVIOUS
<1>2. QED
  BY <1>1 DEF Keeps

(* A block is written behind those that were.                              *)
LEMMA PutKeeps ==
  ASSUME SegmentTyped, NEW c \in Cells, Put(c)
  PROVE  /\ Keeps
         /\ Here \in Addr /\ Here # Nil /\ Here[1] = mem.seg
         /\ Placed(Here, mem', dirty') /\ CellOf(Here, mem', disk') = c
         /\ ~Placed(Here, mem, dirty)
<1>1. /\ mem.idx \in Slots /\ Here \in Addr /\ Here # Nil
      /\ Here[1] = mem.seg /\ Here[2] = mem.idx
      /\ disk' = disk /\ dirty' = dirty \cup {mem.seg}
      /\ mem'.seg = mem.seg /\ mem'.idx = mem.idx + 1
      /\ mem'.cells = [mem.cells EXCEPT ![mem.idx] = c]
  BY PutIs
<1>2. mem.cells \in Image /\ mem.idx \in Nat
  BY MemoryFields, LayoutIs DEF SegmentTyped
<1>3. ASSUME NEW a \in Addr, Placed(a, mem, dirty)
      PROVE  Placed(a, mem', dirty') /\ CellOf(a, mem', disk') = CellOf(a, mem, disk)
  <2>1. a[2] \in Slots /\ a[1] \in dirty /\ (a[1] = mem.seg => a[2] < mem.idx) /\ a[2] \in Nat
    <3>1. Slots \subseteq Nat
      BY LayoutIs DEF Slots
    <3>2. QED
      BY <1>3, <3>1 DEF Placed
  <2>2. Placed(a, mem', dirty')
    BY <1>1, <1>2, <2>1 DEF Placed
  <2>3. a[1] = mem.seg => mem'.cells[a[2]] = mem.cells[a[2]]
    BY <1>1, <1>2, <2>1 DEF Image
  <2>4. QED
    BY <1>1, <2>2, <2>3 DEF CellOf
<1>4. Keeps
  BY <1>3 DEF Keeps
<1>5. Placed(Here, mem', dirty')
  BY <1>1, <1>2 DEF Placed
<1>6. mem'.cells[mem.idx] = c
  BY <1>1, <1>2 DEF Image
<1>7. CellOf(Here, mem', disk') = c
  BY <1>1, <1>6 DEF CellOf
<1>8. ~Placed(Here, mem, dirty)
  BY <1>1, <1>2 DEF Placed
<1>9. QED
  BY <1>1, <1>4, <1>5, <1>7, <1>8

(* A turn takes a segment in which nothing is that is still needed.        *)
LEMMA TurnKeeps ==
  ASSUME SegmentTyped, Turn
  PROVE  Keeps
<1>1. /\ disk' = [disk EXCEPT ![mem.seg] = mem.cells]
      /\ mem'.seg = NextClean /\ NextClean \notin dirty /\ dirty' = dirty
  BY TurnIs
<1>2. mem.seg \in Segs /\ disk \in [Segs -> Image] /\ dirty \in SUBSET Segs
  BY MemoryFields DEF SegmentTyped
<1>3. ASSUME NEW a \in Addr, Placed(a, mem, dirty)
      PROVE  Placed(a, mem', dirty') /\ CellOf(a, mem', disk') = CellOf(a, mem, disk)
  <2>1. a[1] \in Segs /\ a[1] # mem'.seg /\ a[1] \in dirty
    BY <1>1, <1>2, <1>3 DEF Placed
  <2>2. Placed(a, mem', dirty')
    BY <1>1, <1>3, <2>1 DEF Placed
  <2>3. disk'[a[1]] = IF a[1] = mem.seg THEN mem.cells ELSE disk[a[1]]
    BY <1>1, <1>2, <2>1
  <2>4. QED
    BY <2>1, <2>2, <2>3 DEF CellOf
<1>4. QED
  BY <1>3 DEF Keeps

(* What is read from a place that was written is its cell.                 *)
LEMMA ReadPlaced ==
  ASSUME NEW a, Placed(a, mem, dirty)
  PROVE  BlockAt(a) = CellOf(a, mem, disk).block
BY DEF Placed, BlockAt, MemBlock, DiskBlock, CellOf

-----------------------------------------------------------------------------
(* Maps from numbers to blocks of one type: the imap and the checkpoint    *)
(* region.  What of a map lies in the segment that is being cleaned is     *)
(* among what is left to be moved.                                         *)

Sound(f, t, left, m, d, g, c) ==
  \A i \in DOMAIN f : f[i] # Nil =>
    /\ Holds(f[i], m, d, g, t, i)
    /\ c.pc = "move" /\ f[i][1] = c.seg => i \in left

(* The map stays as it is, and nothing it needs is lost.                   *)
LEMMA SoundKept ==
  ASSUME NEW D, NEW f \in [D -> Addr], NEW t, NEW left, NEW rest,
         Sound(f, t, left, mem, disk, dirty, cl), Keeps,
         cl'.pc = "move" => cl.pc = "move" /\ cl'.seg = cl.seg /\ left \subseteq rest
  PROVE  Sound(f, t, rest, mem', disk', dirty', cl')
<1>1. ASSUME NEW i \in D, f[i] # Nil
      PROVE  /\ Holds(f[i], mem', disk', dirty', t, i)
             /\ cl'.pc = "move" /\ f[i][1] = cl'.seg => i \in rest
  <2>1. /\ Holds(f[i], mem, disk, dirty, t, i) /\ f[i] \in Addr
        /\ cl.pc = "move" /\ f[i][1] = cl.seg => i \in left
    BY <1>1 DEF Sound
  <2>2. Holds(f[i], mem', disk', dirty', t, i)
    BY <2>1 DEF Holds, Keeps
  <2>3. QED
    BY <2>1, <2>2
<1>2. QED
  BY <1>1 DEF Sound

Written(c, t, i) == c \in Cells /\ Put(c) /\ c.type = t /\ c.id = i

Entered(h, f, i) == h = [f EXCEPT ![i] = Here]

StaysBut(i, left, rest) ==
  cl'.pc = "move" =>
    cl.pc = "move" /\ cl'.seg = cl.seg /\ cl.seg # mem.seg /\ left \ {i} \subseteq rest

(* What was just written is entered in the map.                            *)
LEMMA SoundSet ==
  ASSUME SegmentTyped, NEW D, NEW f \in [D -> Addr], NEW t, NEW left, NEW rest,
         Sound(f, t, left, mem, disk, dirty, cl),
         NEW c, NEW i \in D, Written(c, t, i), StaysBut(i, left, rest),
         NEW h, Entered(h, f, i)
  PROVE  Sound(h, t, rest, mem', disk', dirty', cl')
<1>0. /\ c \in Cells /\ Put(c) /\ c.type = t /\ c.id = i
      /\ cl'.pc = "move" => /\ cl.pc = "move" /\ cl'.seg = cl.seg /\ cl.seg # mem.seg
                            /\ left \ {i} \subseteq rest
      /\ h = [f EXCEPT ![i] = Here]
  BY DEF Written, StaysBut, Entered
<1>1. /\ Keeps /\ Here[1] = mem.seg
      /\ Placed(Here, mem', dirty') /\ CellOf(Here, mem', disk') = c
  BY <1>0, PutKeeps
<1>2. ASSUME NEW j \in D, h[j] # Nil
      PROVE  /\ Holds(h[j], mem', disk', dirty', t, j)
             /\ cl'.pc = "move" /\ h[j][1] = cl'.seg => j \in rest
  <2>1. CASE j = i
    <3>1. h[j] = Here
      BY <1>0, <2>1
    <3>2. QED
      BY <1>0, <1>1, <2>1, <3>1 DEF Holds
  <2>2. CASE j # i
    <3>1. h[j] = f[j]
      BY <1>0, <2>2
    <3>2. /\ Holds(f[j], mem, disk, dirty, t, j) /\ f[j] \in Addr
          /\ cl.pc = "move" /\ f[j][1] = cl.seg => j \in left
      BY <1>2, <3>1 DEF Sound
    <3>3. Holds(f[j], mem', disk', dirty', t, j)
      BY <1>1, <3>2 DEF Holds, Keeps
    <3>4. QED
      BY <1>0, <2>2, <3>1, <3>2, <3>3
  <2>3. QED
    BY <2>1, <2>2
<1>3. DOMAIN h = D
  BY <1>0
<1>4. QED
  BY <1>2, <1>3 DEF Sound

Dropped(h, f, i) == h = [f EXCEPT ![i] = Nil]

(* A block is given up.                                                    *)
LEMMA SoundUnset ==
  ASSUME NEW D, NEW f \in [D -> Addr], NEW t, NEW left, NEW i \in D,
         Sound(f, t, left, mem, disk, dirty, cl), NEW h, Dropped(h, f, i)
  PROVE  Sound(h, t, left, mem, disk, dirty, cl)
<1>1. \A j \in D : h[j] # Nil => h[j] = f[j]
  BY DEF Dropped
<1>2. DOMAIN h = D
  BY DEF Dropped
<1>3. QED
  BY <1>1, <1>2 DEF Sound

ImapHolds == Sound(imap, "INODE", cl.inos, mem, disk, dirty, cl)
CrHolds   == Sound(cr, "IMAP_CHUNK", cl.chunks, mem, disk, dirty, cl)

(* A scan knows of all that lies in its segment.                           *)
LEMMA ScanSound ==
  ASSUME SegmentTyped, CleanerTyped, ScanSegment
  PROVE  /\ ImapHolds => ImapHolds'
         /\ CrHolds => CrHolds'
<1>1. /\ UNCHANGED <<disk, mem, dirty, imap, cr>>
      /\ cl.pc = "scan"
  BY ScanFinds DEF ScanSegment
<1>2. imap \in [Inodes -> Addr] /\ cr \in [Chunks -> Addr]
  BY DEF SegmentTyped
<1>3. Keeps
  BY <1>1, SameKeeps
<1>4. CASE ~WorthCleaning(cl.seg)
  <2>1. cl'.pc = "scan"
    BY <1>4, ScanFinds, CleanerFields DEF NextToClean, Cleaner
  <2>2. ImapHolds => Sound(imap, "INODE", cl'.inos, mem', disk', dirty', cl')
    BY <1>2, <1>3, <2>1, SoundKept DEF ImapHolds
  <2>3. CrHolds => Sound(cr, "IMAP_CHUNK", cl'.chunks, mem', disk', dirty', cl')
    BY <1>2, <1>3, <2>1, SoundKept DEF CrHolds
  <2>4. QED
    BY <1>1, <2>2, <2>3 DEF ImapHolds, CrHolds
<1>5. CASE WorthCleaning(cl.seg)
  <2>1. /\ cl'.seg = cl.seg /\ cl'.inos = Found(cl.seg) /\ cl'.chunks = FoundChunks(cl.seg)
    BY <1>5, ScanFinds
  <2>2. cl.seg # mem.seg
    BY <1>5 DEF WorthCleaning
  <2>3. ASSUME NEW i \in Inodes, imap[i] # Nil, imap[i][1] = cl.seg,
               Holds(imap[i], mem, disk, dirty, "INODE", i)
        PROVE  i \in Found(cl.seg)
    <3>1. PICK a \in Addr : a = imap[i]
      BY <1>2
    <3>2. a[2] \in Slots /\ disk[cl.seg][a[2]].type = "INODE" /\ disk[cl.seg][a[2]].id = i
      BY <2>2, <2>3, <3>1 DEF Holds, Placed, CellOf
    <3>3. a = <<cl.seg, a[2]>>
      BY <2>3, <3>1 DEF Addr
    <3>4. a[2] \in LiveInodes(cl.seg)
      BY <3>1, <3>2, <3>3 DEF LiveInodes
    <3>5. QED
      BY <3>2, <3>4 DEF Found
  <2>4. ASSUME NEW i \in Chunks, cr[i] # Nil, cr[i][1] = cl.seg,
               Holds(cr[i], mem, disk, dirty, "IMAP_CHUNK", i)
        PROVE  i \in FoundChunks(cl.seg)
    <3>1. PICK a \in Addr : a = cr[i]
      BY <1>2
    <3>2. a[2] \in Slots /\ disk[cl.seg][a[2]].type = "IMAP_CHUNK" /\ disk[cl.seg][a[2]].id = i
      BY <2>2, <2>4, <3>1 DEF Holds, Placed, CellOf
    <3>3. a = <<cl.seg, a[2]>>
      BY <2>4, <3>1 DEF Addr
    <3>4. a[2] \in LiveChunks(cl.seg)
      BY <3>1, <3>2, <3>3 DEF LiveChunks
    <3>5. QED
      BY <3>2, <3>4 DEF FoundChunks
  <2>5. ImapHolds => ImapHolds'
    BY <1>1, <1>2, <2>1, <2>3 DEF ImapHolds, Sound
  <2>6. CrHolds => CrHolds'
    BY <1>1, <1>2, <2>1, <2>4 DEF CrHolds, Sound
  <2>7. QED
    BY <2>5, <2>6
<1>6. QED
  BY <1>4, <1>5

(* Cleaning keeps both maps sound: what it moves it enters, and it gives a *)
(* segment up when nothing of them is left there.                          *)
LEMMA CleanSound ==
  ASSUME SegmentTyped, CleanerTyped, CleanStep
  PROVE  /\ ImapHolds => ImapHolds'
         /\ CrHolds => CrHolds'
<1>0. imap \in [Inodes -> Addr] /\ cr \in [Chunks -> Addr]
  BY DEF SegmentTyped
<1>1. CASE ScanSegment
  BY <1>1, ScanSound
<1>2. CASE MoveData
  <2>1. PICK s \in cl.data :
          LET c == disk[cl.seg][s]
          IN /\ c \in Cells /\ Put(c) /\ Shrinks({s}, {}, {}) /\ UNCHANGED <<imap, cr>>
    BY <1>2, MoveDataIs
  <2>2. /\ cl'.pc = "move" /\ cl.pc = "move" /\ cl'.seg = cl.seg
        /\ cl'.inos = cl.inos /\ cl'.chunks = cl.chunks /\ UNCHANGED <<imap, cr>> /\ Keeps
    BY <1>2, <2>1, PutKeeps DEF Shrinks, MoveData, Moving
  <2>3. ImapHolds => Sound(imap, "INODE", cl'.inos, mem', disk', dirty', cl')
    BY <1>0, <2>2, SoundKept DEF ImapHolds
  <2>4. CrHolds => Sound(cr, "IMAP_CHUNK", cl'.chunks, mem', disk', dirty', cl')
    BY <1>0, <2>2, SoundKept DEF CrHolds
  <2>5. QED
    BY <2>2, <2>3, <2>4 DEF ImapHolds, CrHolds
<1>3. CASE MoveInode
  <2>1. PICK i \in cl.inos :
          /\ i \in Inodes /\ Put(Cell("INODE", i, 0, cl.nodes[i]))
          /\ Cell("INODE", i, 0, cl.nodes[i]) \in Cells
          /\ Shrinks({}, {i}, {}) /\ imap' = [imap EXCEPT ![i] = Here] /\ cr' = cr
    BY <1>3, MoveInodeIs
  <2> DEFINE c == Cell("INODE", i, 0, cl.nodes[i])
  <2>2. c \in Cells /\ Put(c) /\ c.type = "INODE" /\ c.id = i
    BY <2>1 DEF Cell
  <2> HIDE DEF c
  <2>3. /\ cl'.pc = "move" /\ cl.pc = "move" /\ cl'.seg = cl.seg /\ cl.seg # mem.seg
        /\ cl'.inos = cl.inos \ {i} /\ cl'.chunks = cl.chunks
        /\ imap' = [imap EXCEPT ![i] = Here] /\ cr' = cr
        /\ Keeps
    BY <1>3, <2>1, <2>2, PutKeeps DEF Shrinks, MoveInode, Moving, CleanerTyped
  <2>4. ImapHolds => Sound(imap', "INODE", cl'.inos, mem', disk', dirty', cl')
    <3>1. /\ Written(c, "INODE", i) /\ StaysBut(i, cl.inos, cl'.inos)
          /\ Entered(imap', imap, i)
      BY <2>2, <2>3 DEF Written, StaysBut, Entered
    <3>2. QED
      BY <1>0, <2>1, <2>3, <3>1, SoundSet DEF ImapHolds
  <2>5. CrHolds => Sound(cr, "IMAP_CHUNK", cl'.chunks, mem', disk', dirty', cl')
    BY <1>0, <2>3, SoundKept DEF CrHolds
  <2>6. QED
    BY <2>3, <2>4, <2>5 DEF ImapHolds, CrHolds
<1>4. CASE MoveChunk
  <2>1. PICK i \in cl.chunks :
          /\ i \in Chunks /\ GetChunk(imap, i) \in Chunk
          /\ Put(ChunkCell(i, GetChunk(imap, i)))
          /\ ChunkCell(i, GetChunk(imap, i)) \in Cells
          /\ Shrinks({}, {}, {i}) /\ cr' = [cr EXCEPT ![i] = Here] /\ imap' = imap
    BY <1>4, MoveChunkIs
  <2> DEFINE c == ChunkCell(i, GetChunk(imap, i))
  <2>2. c \in Cells /\ Put(c) /\ c.type = "IMAP_CHUNK" /\ c.id = i
    BY <2>1, ChunkCellIs
  <2> HIDE DEF c
  <2>3. /\ cl'.pc = "move" /\ cl.pc = "move" /\ cl'.seg = cl.seg /\ cl.seg # mem.seg
        /\ cl'.inos = cl.inos /\ cl'.chunks = cl.chunks \ {i}
        /\ cr' = [cr EXCEPT ![i] = Here] /\ imap' = imap
        /\ Keeps
    BY <1>4, <2>1, <2>2, PutKeeps DEF Shrinks, MoveChunk, Moving, CleanerTyped
  <2>4. CrHolds => Sound(cr', "IMAP_CHUNK", cl'.chunks, mem', disk', dirty', cl')
    <3>1. /\ Written(c, "IMAP_CHUNK", i) /\ StaysBut(i, cl.chunks, cl'.chunks)
          /\ Entered(cr', cr, i)
      BY <2>2, <2>3 DEF Written, StaysBut, Entered
    <3>2. QED
      BY <1>0, <2>1, <2>3, <3>1, SoundSet DEF CrHolds
  <2>5. ImapHolds => Sound(imap, "INODE", cl'.inos, mem', disk', dirty', cl')
    BY <1>0, <2>3, SoundKept DEF ImapHolds
  <2>6. QED
    BY <2>3, <2>4, <2>5 DEF ImapHolds, CrHolds
<1>5. CASE CleanTurn
  <2>1. Turn /\ cl' = cl /\ Keeps /\ UNCHANGED <<imap, cr>>
    BY <1>5, TurnKeeps DEF CleanTurn, Turn
  <2>2. ImapHolds => Sound(imap, "INODE", cl'.inos, mem', disk', dirty', cl')
    BY <1>0, <2>1, SoundKept DEF ImapHolds
  <2>3. CrHolds => Sound(cr, "IMAP_CHUNK", cl'.chunks, mem', disk', dirty', cl')
    BY <1>0, <2>1, SoundKept DEF CrHolds
  <2>4. QED
    BY <2>1, <2>2, <2>3 DEF ImapHolds, CrHolds
<1>6. CASE Release
  <2>1. /\ cl.pc = "move" /\ cl.inos = {} /\ cl.chunks = {}
        /\ UNCHANGED <<disk, mem, imap, cr>> /\ dirty' = dirty \ {cl.seg}
        /\ cl'.pc = "scan"
    BY <1>6, NextToCleanIs DEF Release, Moving, AllMoved
  <2>2. ASSUME ImapHolds PROVE ImapHolds'
    BY <1>0, <2>1, <2>2 DEF ImapHolds, Sound, Holds, Placed
  <2>3. ASSUME CrHolds PROVE CrHolds'
    BY <1>0, <2>1, <2>3 DEF CrHolds, Sound, Holds, Placed
  <2>4. QED
    BY <2>2, <2>3
<1>7. CASE CleanEnds
  <2>1. UNCHANGED <<disk, mem, dirty, imap, cr>> /\ cl'.pc = "off" /\ Keeps
    BY <1>7, OffIs, SameKeeps DEF CleanEnds
  <2>2. ImapHolds => Sound(imap, "INODE", cl'.inos, mem', disk', dirty', cl')
    BY <1>0, <2>1, SoundKept DEF ImapHolds
  <2>3. CrHolds => Sound(cr, "IMAP_CHUNK", cl'.chunks, mem', disk', dirty', cl')
    BY <1>0, <2>1, SoundKept DEF CrHolds
  <2>4. QED
    BY <2>1, <2>2, <2>3 DEF ImapHolds, CrHolds
<1>8. QED
  BY <1>1, <1>2, <1>3, <1>4, <1>5, <1>6, <1>7 DEF CleanStep

-----------------------------------------------------------------------------
(* Processes.  A checkpoint that a mount has read stays as it is until a   *)
(* shutdown truncates it, and a process begins with nothing.               *)

NotCleaning == cl.pc = "off"

(* The parameter uncleaned says whether the invariants are those of a      *)
(* drive that has not been cleaned.                                        *)
StartInv(uncleaned) ==
  /\ status # "down" \/ ckpt.kind # "none" => mounts >= 1
  /\ status \in {"up", "spinning", "corrupt", "closing"} /\ ckpt.kind = "full" =>
       mounts >= 2
  /\ status \in {"truncated", "named", "flushed"} => ckpt.kind = "empty"
  /\ status = "down" => /\ mem = MemoryAt(FirstAddr, Blank) /\ dirty = {}
                        /\ leaveOff = FirstAddr /\ imap = NoImap /\ cr = NoCr
                        /\ nameMap = << >>
  /\ uncleaned => cl.pc = "off"

Process == <<status, ckpt, mounts>>
Fresh == <<mem, dirty, leaveOff, imap, cr, nameMap>>

(* What each step does to the process and to the checkpoint.               *)
LEMMA StepProcess ==
  ASSUME TypeInv, [Next]_vars
  PROVE  \/ UNCHANGED Process /\ (status = "down" => UNCHANGED Fresh)
         \/ /\ status = "up" /\ status' \in {"spinning", "corrupt"}
            /\ UNCHANGED <<ckpt, mounts>>
         \/ /\ status = "down" /\ ckpt.kind = "none" /\ mounts' = mounts + 1
            /\ status' = "up" /\ ckpt'.kind = "short"
         \/ /\ status = "down" /\ ckpt.kind = "full" /\ mounts' = mounts + 1
            /\ status' = "up" /\ ckpt' = ckpt
         \/ /\ status = "down" /\ mounts' = mounts + 1
            /\ status' = "refused" /\ ckpt' = ckpt
         \/ /\ status = "up" /\ status' = "closing" /\ UNCHANGED <<ckpt, mounts>>
         \/ /\ status = "closing" /\ status' = "truncated" /\ ckpt'.kind = "empty"
            /\ mounts' = mounts
         \/ /\ status = "truncated" /\ status' = "named" /\ UNCHANGED <<ckpt, mounts>>
         \/ /\ status = "named" /\ status' = "flushed" /\ UNCHANGED <<ckpt, mounts>>
         \/ /\ status # "down" /\ ProcessEnds /\ mounts' = mounts
            /\ ckpt' = ckpt \/ (ckpt'.kind = "full" /\ status = "flushed")
<1> USE DEF bounds, Process, Up
<1>1. CASE Format
  BY <1>1, EmptyIs DEF Format, StartProcess
<1>2. CASE Mount
  BY <1>2, MountIs
<1>3. CASE RefuseMount
  BY <1>3 DEF RefuseMount, StartProcess
<1>4. CASE Command
  <2>1. CASE OutOfInodes
    BY <2>1 DEF OutOfInodes, Ready, CountCommand
  <2>2. CASE \E n \in FileNames, src \in Sources : Import(n, src)
    BY <2>2 DEF Import, Ready, CountCommand
  <2>3. CASE \E n \in FileNames : Remove(n)
    BY <2>3 DEF Remove, Ready, CountCommand
  <2>4. CASE \E n \in FileNames, o \in Overwrites : Overwrite(n, o[1], o[2], o[3])
    BY <2>4 DEF Overwrite, Ready, CountCommand
  <2>5. QED
    BY <1>4, <2>1, <2>2, <2>3, <2>4 DEF Command
<1>5. CASE WorkStep
  <2>1. CASE Overrun \/ Spin
    BY <2>1 DEF Overrun, Spin, WantsToWrite
  <2>2. CASE ReadLast \/ WriteData \/ WriteInode \/ WriteImapChunk
    BY <2>2 DEF ReadLast, WriteData, WriteInode, WriteImapChunk, Writing
  <2>3. CASE TurnSegment \/ Cleaning
    BY <2>3 DEF TurnSegment, Cleaning, WantsToWrite, driveVars
  <2>4. QED
    BY <1>5, <2>1, <2>2, <2>3 DEF WorkStep
<1>6. CASE Shutdown
  <2>1. CASE BeginShutdown
    BY <2>1 DEF BeginShutdown
  <2>5. CASE TruncateCheckpoint
    BY <2>5, EmptyIs DEF TruncateCheckpoint
  <2>2. CASE WriteNames \/ FlushLast
    BY <2>2 DEF WriteNames, FlushLast
  <2>3. CASE WriteCheckpoint
    BY <2>3 DEF WriteCheckpoint, Checkpoint
  <2>4. QED
    BY <1>6, <2>1, <2>2, <2>3, <2>5 DEF Shutdown
<1>7. CASE Crash
  BY <1>7 DEF Crash, Running
<1>8. CASE Stopped \/ UNCHANGED vars
  BY <1>8 DEF Stopped, vars, segVars, driveVars, Fresh
<1>9. QED
  BY <1>1, <1>2, <1>3, <1>4, <1>5, <1>6, <1>7, <1>8 DEF Next

(* The cleaner is off when it is never asked to begin.                     *)
LEMMA StepOff ==
  ASSUME TypeInv, [Next]_vars, CleanBelow = 0, cl.pc = "off"
  PROVE  cl'.pc = "off"
<1>1. CASE TurnSegment
  BY <1>1, TurnSegmentIs
<1>2. CASE Cleaning
  BY <1>2 DEF Cleaning, CleanStep, ScanSegment, MoveData, MoveInode, MoveChunk, CleanTurn,
     Release, CleanEnds, Moving
<1>3. CASE ProcessEnds
  BY <1>3, OffIs DEF ProcessEnds
<1>4. CASE cl' = cl
  BY <1>4
<1>5. QED
  <2> USE DEF segVars
  <2>1. CASE Format \/ Mount \/ RefuseMount
    BY <1>4, <2>1 DEF Format, Mount, RefuseMount, StartProcess
  <2>2. CASE Command
    BY <1>3, <1>4, <2>2 DEF Command, Import, Remove, Overwrite, OutOfInodes
  <2>3. CASE WorkStep
    BY <1>1, <1>2, <1>4, <2>3 DEF WorkStep, ReadLast, WriteData, WriteInode, WriteImapChunk,
       Overrun, Spin
  <2>4. CASE Shutdown \/ Crash
    BY <1>3, <1>4, <2>4 DEF Shutdown, BeginShutdown, TruncateCheckpoint, WriteNames,
       FlushLast, WriteCheckpoint, Crash
  <2>5. CASE Stopped \/ UNCHANGED vars
    BY <1>4, <2>5 DEF Stopped, vars
  <2>6. QED
    BY <2>1, <2>2, <2>3, <2>4, <2>5 DEF Next

(* Every step keeps processes and checkpoints in order.                    *)
LEMMA StartNext ==
  ASSUME NEW uncleaned \in BOOLEAN, TypeInv, StartInv(uncleaned), [Next]_vars,
         uncleaned => NotCleaning'
  PROVE  StartInv(uncleaned)'
<1>1. mounts \in Nat
  BY DEF TypeInv, ControlTyped
<1>2. uncleaned => cl'.pc = "off"
  BY DEF NotCleaning
<1>3. CASE UNCHANGED Process /\ (status = "down" => UNCHANGED Fresh)
  BY <1>2, <1>3 DEF StartInv, Process, Fresh
<1>4. CASE status # "down" /\ ProcessEnds /\ mounts' = mounts
  BY <1>2, <1>4 DEF StartInv, ProcessEnds
<1>5. CASE status' # "down" /\ ~(UNCHANGED Process)
  BY <1>1, <1>2, <1>5, StepProcess DEF StartInv, ProcessEnds
<1>6. QED
  BY <1>3, <1>4, <1>5, StepProcess DEF ProcessEnds, Process

-----------------------------------------------------------------------------
(* The leave-off point.  After a write it is at the last block, before the *)
(* write that follows a turn still in the segment that was left; ~Drive    *)
(* moves it behind the last block, be that behind the segment.             *)

PlaceInv ==
  /\ status \in {"up", "closing", "truncated"} /\ (work = Idle \/ ~work.turned) =>
       leaveOff[1] = mem.seg /\ leaveOff[2] + 1 >= mem.idx
  /\ status \in {"named", "flushed"} =>
       leaveOff[2] < NumSsbs \/ (leaveOff[1] = mem.seg /\ leaveOff[2] >= mem.idx)

(* After a write the leave-off point is at the block that was written.     *)
LEMMA PutPlaces ==
  ASSUME TypeInv, NEW c \in Cells, Put(c), status' = "up"
  PROVE  PlaceInv'
<1>1. /\ leaveOff' = Here /\ Here[1] = mem.seg /\ Here[2] = mem.idx
      /\ mem'.seg = mem.seg /\ mem'.idx = mem.idx + 1
  BY PutIs DEF TypeInv
<1>2. mem.idx \in Int
  BY MemoryFields, LayoutIs DEF TypeInv, SegmentTyped
<1>3. QED
  BY <1>1, <1>2 DEF PlaceInv

(* Where neither moves, and no turn is over, the place stays.              *)
LEMMA PlaceSame ==
  ASSUME PlaceInv, UNCHANGED <<mem, leaveOff>>,
         status' = "up" => /\ status = "up"
                           /\ work' = Idle \/ ~work'.turned => work = Idle \/ ~work.turned,
         status' \in {"closing", "truncated"} => status' = status /\ work' = work,
         status' \in {"named", "flushed"} => status' = status
  PROVE  PlaceInv'
BY DEF PlaceInv

(* Every step keeps the leave-off point in place.                          *)
LEMMA PlaceNext ==
  ASSUME NEW uncleaned \in BOOLEAN, TypeInv, StartInv(uncleaned), PlaceInv, [Next]_vars
  PROVE  PlaceInv'
<1> USE DEF Up
<1>0. mem.idx \in NumSsbs..SegSize /\ mem.seg \in Segs /\ leaveOff \in Addr
      /\ leaveOff[2] \in 0..(SegSize - 1) /\ SegSize \in Nat /\ NumSsbs \in Nat \ {0}
  BY MemoryFields, LayoutIs DEF TypeInv, SegmentTyped, Addr
<1>1. CASE Format
  <2>1. mem' = MemoryAt(FirstAddr, Blank) /\ leaveOff' = FirstAddr /\ status' = "up"
    BY <1>1 DEF Format, StartProcess, StartInv
  <2>2. QED
    BY <1>0, <2>1, EmptyIs DEF PlaceInv, FirstAddr
<1>2. CASE Mount
  <2>1. /\ status' = "up" /\ mem'.seg = ckpt.leaveOff[1] /\ mem'.idx = ckpt.leaveOff[2]
        /\ ckpt.leaveOff[2] \in Slots
        /\ leaveOff' = <<ckpt.leaveOff[1], ckpt.leaveOff[2] - 1>>
    BY <1>2, MountIs
  <2>2. ckpt.leaveOff[2] \in Int
    BY <1>0, <2>1 DEF Slots
  <2>3. QED
    BY <2>1, <2>2 DEF PlaceInv
<1>3. CASE ReadLast
  <2>1. work'.turned = work.turned /\ work # Idle /\ work' # Idle
    BY <1>3, ReadLastIs, IdleIs DEF WorkFields
  <2>2. UNCHANGED <<mem, leaveOff, status>>
    BY <1>3 DEF ReadLast, segVars
  <2>3. QED
    BY <1>3, <2>1, <2>2, PlaceSame DEF ReadLast, Writing
<1>4. CASE WriteData
  <2>1. \E c \in Cells : Put(c)
    BY <1>4, WriteDataIs
  <2>2. status' = "up"
    BY <1>4 DEF WriteData, Writing
  <2>3. QED
    BY <2>1, <2>2, PutPlaces
<1>5. CASE WriteInode
  <2>1. \E c \in Cells : Put(c)
    BY <1>5, WriteInodeIs
  <2>2. status' = "up"
    BY <1>5 DEF WriteInode, Writing
  <2>3. QED
    BY <2>1, <2>2, PutPlaces
<1>6. CASE WriteImapChunk
  <2>1. \E c \in Cells : Put(c)
    BY <1>6, WriteImapChunkIs
  <2>2. status' = "up"
    BY <1>6 DEF WriteImapChunk, Writing
  <2>3. QED
    BY <2>1, <2>2, PutPlaces
<1>7. CASE TurnSegment
  <2>1. work' # Idle /\ work'.turned /\ status' = "up"
    BY <1>7, TurnSegmentIs DEF TurnSegment, WantsToWrite
  <2>2. QED
    BY <2>1 DEF PlaceInv
<1>8. CASE Cleaning
  <2>1. status' = "up" /\ work' = work /\ cl.pc # "off"
    BY <1>8 DEF Cleaning, driveVars, CleanStep, ScanSegment, MoveData, MoveInode, MoveChunk,
       CleanTurn, Release, CleanEnds, Moving
  <2>2. work # Idle /\ work.turned
    BY <2>1 DEF TypeInv, ControlTyped
  <2>3. QED
    BY <2>1, <2>2 DEF PlaceInv
<1>9. CASE Command
  <2>1. CASE OutOfInodes
    BY <2>1 DEF OutOfInodes, ProcessEnds, PlaceInv
  <2>2. CASE ~OutOfInodes
    <3>1. UNCHANGED <<mem, leaveOff, status>> /\ status = "up" /\ work.pc = "idle"
      BY <1>9, <2>2 DEF Command, Import, Remove, Overwrite, Ready, segVars
    <3>2. work = Idle
      BY <3>1, IdleWork
    <3>3. QED
      BY <3>1, <3>2, PlaceSame
  <2>3. QED
    BY <2>1, <2>2
<1>10. CASE WriteNames
  <2>1. /\ leaveOff' = Succ(leaveOff) /\ mem' = mem /\ status' = "named" /\ status = "truncated"
    BY <1>10 DEF WriteNames
  <2>2. leaveOff[1] = mem.seg /\ leaveOff[2] + 1 >= mem.idx
    <3>1. work = Idle
      BY <2>1 DEF TypeInv, ControlTyped
    <3>2. QED
      BY <2>1, <3>1 DEF PlaceInv
  <2>3. CASE leaveOff[2] + 1 < SegSize
    <3>1. leaveOff' = <<leaveOff[1], leaveOff[2] + 1>>
      BY <2>1, <2>3 DEF Succ
    <3>2. QED
      BY <2>1, <2>2, <3>1 DEF PlaceInv
  <2>4. CASE ~(leaveOff[2] + 1 < SegSize)
    <3>1. leaveOff'[2] = 0
      BY <2>1, <2>4 DEF Succ
    <3>2. leaveOff'[2] < NumSsbs
      BY <1>0, <3>1
    <3>3. QED
      BY <2>1, <3>2 DEF PlaceInv
  <2>5. QED
    BY <2>3, <2>4
<1>11. CASE FlushLast
  <2>1. /\ leaveOff' = leaveOff /\ status = "named" /\ status' = "flushed"
        /\ mem' = [mem EXCEPT !.cells = Blank]
    BY <1>11 DEF FlushLast
  <2>2. mem'.seg = mem.seg /\ mem'.idx = mem.idx
    <3>1. mem = [seg |-> mem.seg, idx |-> mem.idx, cells |-> mem.cells]
      BY MemoryFields DEF TypeInv, SegmentTyped
    <3>2. QED
      BY <2>1, <3>1
  <2>3. QED
    BY <2>1, <2>2 DEF PlaceInv
<1>12. CASE BeginShutdown \/ TruncateCheckpoint
  <2>1. /\ UNCHANGED <<mem, leaveOff, work>> /\ status' \in {"closing", "truncated"}
        /\ (status = "up" /\ work.pc = "idle") \/ (status = "closing" /\ work = Idle)
    BY <1>12 DEF BeginShutdown, TruncateCheckpoint, segVars, TypeInv, ControlTyped
  <2>2. work = Idle
    BY <2>1, IdleWork
  <2>3. QED
    BY <2>1, <2>2 DEF PlaceInv
<1>13. CASE RefuseMount \/ Overrun \/ Spin \/ WriteCheckpoint \/ Crash
  BY <1>13 DEF RefuseMount, Overrun, Spin, WriteCheckpoint, Crash, ProcessEnds, PlaceInv
<1>14. CASE Stopped \/ UNCHANGED vars
  BY <1>14 DEF Stopped, vars, segVars, driveVars, PlaceInv
<1>15. QED
  BY <1>1, <1>2, <1>3, <1>4, <1>5, <1>6, <1>7, <1>8, <1>9, <1>10, <1>11, <1>12, <1>13, <1>14
  DEF Next, WorkStep, Shutdown

-----------------------------------------------------------------------------
(* The chunks of the imap.  The cleaner does not know what the last        *)
(* checkpoint needs: of a mount that follows a crash after cleaning,       *)
(* nothing is said.                                                        *)

Open == {"up", "closing", "truncated", "named"}

ChunkInv(uncleaned) == status \in Open /\ (mounts <= 2 \/ uncleaned) => CrHolds

(* A checkpoint whose chunks are in the segment files, in front of the     *)
(* place from which on the next process writes.                            *)
Behind(a, k) ==
  /\ a[2] \in Slots /\ a[1] \in k.dirty
  /\ a[1] = k.leaveOff[1] => a[2] < k.leaveOff[2] \/ k.leaveOff[2] < NumSsbs

InFile(a, d) == d[a[1]][a[2]]

Saved(a, k, d, t, i) == Behind(a, k) /\ InFile(a, d).type = t /\ InFile(a, d).id = i

SavedSound(k, d) ==
  \A c \in Chunks : k.cr[c] # Nil => Saved(k.cr[c], k, d, "IMAP_CHUNK", c)

FlushedInv(uncleaned) ==
  status = "flushed" /\ (mounts <= 2 \/ uncleaned) =>
    SavedSound(Checkpoint("full", leaveOff, dirty, cr), disk)

CkptInv(uncleaned) ==
  ckpt.kind = "full" /\ (mounts <= 1 \/ uncleaned) => SavedSound(ckpt, disk)

(* Without cleaning, what a mount has read is not written over.            *)
KeptInv(uncleaned) ==
  status = "up" /\ ckpt.kind = "full" /\ uncleaned =>
    /\ ckpt.dirty \subseteq dirty /\ ckpt.leaveOff[2] >= NumSsbs
    /\ mem.seg \in ckpt.dirty =>
         /\ mem.seg = ckpt.leaveOff[1] /\ mem.idx >= ckpt.leaveOff[2]
         /\ \A s \in Slots : s < ckpt.leaveOff[2] => mem.cells[s] = disk[mem.seg][s]

Quiet == UNCHANGED <<disk, mem, dirty, cr, cl, mounts>> /\ status \in Open

(* The steps of a drive in use: those that leave segments and cleaner      *)
(* alone, and the others.                                                  *)
LEMMA StepKinds ==
  ASSUME [Next]_vars, status' \in Open
  PROVE  \/ Quiet \/ Format \/ Mount
         \/ WriteData \/ WriteInode \/ WriteImapChunk \/ TurnSegment \/ Cleaning
<1> USE DEF Open, Up, segVars, bounds
<1>1. CASE Format \/ Mount
  BY <1>1
<1>2. CASE RefuseMount \/ Overrun \/ Spin \/ FlushLast \/ WriteCheckpoint \/ Crash \/ OutOfInodes
  BY <1>2 DEF RefuseMount, Overrun, Spin, FlushLast, WriteCheckpoint, Crash, OutOfInodes,
     ProcessEnds
<1>3. CASE Command /\ ~OutOfInodes
  <2> USE DEF Ready, CountCommand, Quiet
  <2>1. CASE \E n \in FileNames, src \in Sources : Import(n, src)
    BY <2>1 DEF Import
  <2>2. CASE \E n \in FileNames : Remove(n)
    BY <2>2 DEF Remove
  <2>3. CASE \E n \in FileNames, o \in Overwrites : Overwrite(n, o[1], o[2], o[3])
    BY <2>3 DEF Overwrite
  <2>4. QED
    BY <1>3, <2>1, <2>2, <2>3 DEF Command
<1>4. CASE ReadLast \/ BeginShutdown \/ TruncateCheckpoint \/ WriteNames
  BY <1>4 DEF ReadLast, Writing, BeginShutdown, TruncateCheckpoint, WriteNames, Quiet
<1>5. CASE WriteData \/ WriteInode \/ WriteImapChunk \/ TurnSegment \/ Cleaning
  BY <1>5
<1>6. CASE Stopped \/ UNCHANGED vars
  BY <1>6 DEF Stopped, vars, driveVars, Quiet
<1>7. QED
  BY <1>1, <1>2, <1>3, <1>4, <1>5, <1>6 DEF Next, WorkStep, Shutdown

(* A mount finds what was saved.                                           *)
LEMMA MountReads ==
  ASSUME TypeInv, Mount, NEW a \in Addr, Behind(a, ckpt)
  PROVE  Placed(a, mem', dirty') /\ CellOf(a, mem', disk') = InFile(a, disk)
<1>1. /\ disk' = disk /\ dirty' = ckpt.dirty /\ ckpt.leaveOff[2] >= NumSsbs
      /\ ckpt.leaveOff[2] \in Slots
      /\ mem'.seg = ckpt.leaveOff[1] /\ mem'.idx = ckpt.leaveOff[2]
      /\ mem'.cells = disk[ckpt.leaveOff[1]]
  BY MountIs
<1>2. ckpt.leaveOff[2] \in Nat /\ NumSsbs \in Nat
  BY <1>1, LayoutIs DEF Slots
<1>3. a[1] = mem'.seg => a[2] < mem'.idx
  BY <1>1, <1>2 DEF Behind
<1>4. CellOf(a, mem', disk') = InFile(a, disk)
  BY <1>1 DEF CellOf, InFile
<1>5. Placed(a, mem', dirty')
  BY <1>1, <1>3 DEF Behind, Placed
<1>6. QED
  BY <1>4, <1>5

(* Every step keeps the chunks.                                            *)
LEMMA ChunkNext ==
  ASSUME NEW uncleaned \in BOOLEAN, TypeInv, StartInv(uncleaned), ChunkInv(uncleaned),
         CkptInv(uncleaned), [Next]_vars
  PROVE  ChunkInv(uncleaned)'
<1> SUFFICES ASSUME status' \in Open, mounts' <= 2 \/ uncleaned
             PROVE  CrHolds'
  BY DEF ChunkInv
<1>0. cr \in [Chunks -> Addr] /\ SegmentTyped /\ CleanerTyped /\ mounts \in Nat
  BY DEF TypeInv, SegmentTyped, ControlTyped
<1>1. CASE Quiet
  <2>1. CrHolds /\ UNCHANGED <<disk, mem, dirty, cr, cl>>
    BY <1>1 DEF Quiet, ChunkInv
  <2>2. QED
    BY <2>1 DEF CrHolds
<1>2. CASE Format
  <2>1. cr' = NoCr
    BY <1>2 DEF Format, StartProcess, StartInv
  <2>2. QED
    BY <2>1 DEF CrHolds, Sound, NoCr
<1>3. CASE Mount
  <2>1. /\ mounts' = mounts + 1 /\ UNCHANGED <<disk, cl>> /\ cl.pc = "off" /\ ckpt.kind = "full"
        /\ cr' = ckpt.cr /\ dirty' = ckpt.dirty /\ ckpt.leaveOff[2] >= NumSsbs
        /\ ckpt.leaveOff[2] \in Slots
        /\ mem'.seg = ckpt.leaveOff[1] /\ mem'.idx = ckpt.leaveOff[2]
        /\ mem'.cells = disk[ckpt.leaveOff[1]]
    BY <1>3, MountIs
  <2>2. SavedSound(ckpt, disk)
    BY <1>0, <2>1 DEF CkptInv
  <2>3. ckpt.cr \in [Chunks -> Addr]
    BY DEF TypeInv, FilesTyped, CheckpointRecord
  <2>5. ASSUME NEW c \in Chunks, ckpt.cr[c] # Nil
        PROVE  Holds(ckpt.cr[c], mem', disk', dirty', "IMAP_CHUNK", c)
    <3>1. PICK a \in Addr : a = ckpt.cr[c]
      BY <2>3
    <3>2. Saved(a, ckpt, disk, "IMAP_CHUNK", c)
      BY <2>2, <2>5, <3>1 DEF SavedSound
    <3>3. Placed(a, mem', dirty') /\ CellOf(a, mem', disk') = InFile(a, disk)
      BY <1>3, <3>2, MountReads DEF Saved
    <3>4. QED
      BY <3>1, <3>2, <3>3 DEF Holds, Saved
  <2>6. DOMAIN ckpt.cr = Chunks
    BY <2>3
  <2>7. QED
    BY <2>1, <2>5, <2>6 DEF CrHolds, Sound
<1>4. ASSUME status = "up", mounts' = mounts, cr' = cr, cl' = cl, NEW c \in Cells, Put(c)
      PROVE  CrHolds'
  <2>1. CrHolds /\ Keeps
    BY <1>0, <1>4, PutKeeps DEF ChunkInv, Open
  <2>2. Sound(cr, "IMAP_CHUNK", cl.chunks, mem', disk', dirty', cl')
    BY <1>0, <1>4, <2>1, SoundKept DEF CrHolds
  <2>3. QED
    BY <1>4, <2>2 DEF CrHolds
<1>5. CASE WriteData
  <2>1. \E c \in Cells : Put(c)
    BY <1>5, WriteDataIs
  <2>2. status = "up" /\ UNCHANGED <<mounts, cr, cl>>
    BY <1>5 DEF WriteData, Writing, Up, bounds
  <2>3. QED
    BY <1>4, <2>1, <2>2
<1>6. CASE WriteInode
  <2>1. \E c \in Cells : Put(c)
    BY <1>6, WriteInodeIs
  <2>2. status = "up" /\ UNCHANGED <<mounts, cr, cl>>
    BY <1>6 DEF WriteInode, Writing, Up, bounds
  <2>3. QED
    BY <1>4, <2>1, <2>2
<1>7. CASE WriteImapChunk
  <2> DEFINE i == ChunkOf(work.entry)
             c == ChunkCell(i, work.chunk)
  <2>1. /\ status = "up" /\ cl.pc = "off" /\ i \in Chunks /\ work.chunk \in Chunk
        /\ c \in Cells /\ Put(c) /\ cr' = [cr EXCEPT ![i] = Here]
    BY <1>7, WriteImapChunkIs DEF Up
  <2>2. c.type = "IMAP_CHUNK" /\ c.id = i
    BY <2>1, ChunkCellIs
  <2>3. mounts' = mounts /\ cl' = cl
    BY <1>7 DEF WriteImapChunk, bounds
  <2> HIDE DEF c, i
  <2>4. CrHolds
    BY <2>1, <2>3 DEF ChunkInv, Open
  <2>5. Written(c, "IMAP_CHUNK", i) /\ StaysBut(i, cl.chunks, cl'.chunks) /\ Entered(cr', cr, i)
    BY <2>1, <2>2, <2>3 DEF Written, StaysBut, Entered
  <2>6. Sound(cr', "IMAP_CHUNK", cl'.chunks, mem', disk', dirty', cl')
    BY <1>0, <2>1, <2>4, <2>5, SoundSet DEF CrHolds
  <2>7. QED
    BY <2>6 DEF CrHolds
<1>8. CASE TurnSegment
  <2>1. status = "up" /\ Turn /\ cl'.pc # "move"
    BY <1>8, TurnSegmentIs DEF Up
  <2>2. mounts' = mounts /\ cr' = cr /\ Keeps
    BY <1>0, <1>8, <2>1, TurnKeeps DEF TurnSegment, Turn, bounds
  <2>3. CrHolds
    BY <2>1, <2>2 DEF ChunkInv, Open
  <2>4. Sound(cr, "IMAP_CHUNK", cl'.chunks, mem', disk', dirty', cl')
    BY <1>0, <2>1, <2>2, <2>3, SoundKept DEF CrHolds
  <2>5. QED
    BY <2>2, <2>4 DEF CrHolds
<1>9. CASE Cleaning
  <2>1. status = "up" /\ CleanStep /\ mounts' = mounts
    BY <1>9 DEF Cleaning, Up, bounds
  <2>2. CrHolds
    BY <2>1 DEF ChunkInv, Open
  <2>3. QED
    BY <1>0, <2>1, <2>2, CleanSound
<1>10. QED
  BY <1>1, <1>2, <1>3, <1>5, <1>6, <1>7, <1>8, <1>9, StepKinds

(* One step leads to the last flush.                                       *)
LEMMA FlushSteps ==
  ASSUME [Next]_vars, status' = "flushed"
  PROVE  FlushLast \/ UNCHANGED vars
<1> USE DEF Up
<1>1. CASE Format \/ Mount \/ RefuseMount \/ Crash
  BY <1>1 DEF Format, Mount, RefuseMount, Crash, ProcessEnds
<1>2. CASE Command
  BY <1>2 DEF Command, Import, Remove, Overwrite, OutOfInodes, Ready, ProcessEnds
<1>3. CASE WorkStep
  BY <1>3 DEF WorkStep, ReadLast, WriteData, WriteInode, WriteImapChunk, Writing,
     TurnSegment, Cleaning, Overrun, Spin, WantsToWrite, driveVars
<1>4. CASE Shutdown
  BY <1>4 DEF Shutdown, BeginShutdown, TruncateCheckpoint, WriteNames, WriteCheckpoint,
     ProcessEnds
<1>5. CASE Stopped \/ UNCHANGED vars
  BY <1>5 DEF Stopped
<1>6. QED
  BY <1>1, <1>2, <1>3, <1>4, <1>5 DEF Next

(* The last flush leaves what was written in the files, behind the         *)
(* leave-off point.                                                        *)
LEMMA FlushSaves ==
  ASSUME TypeInv, PlaceInv, FlushLast, NEW a \in Addr, NEW k,
         k.leaveOff = leaveOff, k.dirty = dirty, Placed(a, mem, dirty)
  PROVE  Behind(a, k) /\ InFile(a, disk') = CellOf(a, mem, disk)
<1>1. status = "named" /\ disk' = [disk EXCEPT ![mem.seg] = mem.cells]
  BY DEF FlushLast
<1>2. leaveOff[2] < NumSsbs \/ (leaveOff[1] = mem.seg /\ leaveOff[2] >= mem.idx)
  BY <1>1 DEF PlaceInv
<1>3. /\ disk \in [Segs -> Image] /\ mem.seg \in Segs
      /\ mem.idx \in Nat /\ leaveOff[2] \in Nat /\ Slots \subseteq Nat
  BY MemoryFields, LayoutIs DEF TypeInv, SegmentTyped, Addr, Slots
<1>4. a[2] \in Slots /\ a[1] \in dirty /\ (a[1] = mem.seg => a[2] < mem.idx) /\ a[1] \in Segs
  BY DEF Placed, Addr
<1>5. InFile(a, disk') = CellOf(a, mem, disk)
  BY <1>1, <1>3, <1>4 DEF CellOf, InFile
<1>6. a[1] = leaveOff[1] => a[2] < leaveOff[2] \/ leaveOff[2] < NumSsbs
  <2>1. a[2] \in Nat /\ leaveOff[2] \in Nat /\ mem.idx \in Nat
    BY <1>3, <1>4
  <2>2. CASE leaveOff[2] < NumSsbs
    BY <2>2
  <2>3. CASE leaveOff[1] = mem.seg /\ leaveOff[2] >= mem.idx
    <3>1. ASSUME a[1] = leaveOff[1]
          PROVE  a[2] < mem.idx
      BY <1>4, <2>3, <3>1
    <3>2. QED
      BY <2>1, <2>3, <3>1
  <2>4. QED
    BY <1>2, <2>2, <2>3
<1>7. QED
  BY <1>4, <1>5, <1>6 DEF Behind

(* The last flush leaves what the checkpoint needs in the files.           *)
LEMMA FlushedNext ==
  ASSUME NEW uncleaned \in BOOLEAN, TypeInv, PlaceInv, ChunkInv(uncleaned),
         FlushedInv(uncleaned), [Next]_vars
  PROVE  FlushedInv(uncleaned)'
<1> SUFFICES ASSUME status' = "flushed", mounts' <= 2 \/ uncleaned
             PROVE  SavedSound(Checkpoint("full", leaveOff', dirty', cr'), disk')
  BY DEF FlushedInv
<1>1. CASE FlushLast
  <2> DEFINE k == Checkpoint("full", leaveOff, dirty, cr)
  <2>1. status = "named" /\ UNCHANGED <<dirty, leaveOff, cr, mounts>>
    BY <1>1 DEF FlushLast, bounds
  <2>2. CrHolds /\ cr \in [Chunks -> Addr]
    BY <2>1 DEF ChunkInv, Open, TypeInv, SegmentTyped
  <2>3. k.leaveOff = leaveOff /\ k.dirty = dirty /\ k.cr = cr
    BY DEF Checkpoint
  <2> HIDE DEF k
  <2>4. ASSUME NEW c \in Chunks, cr[c] # Nil
        PROVE  Saved(cr[c], k, disk', "IMAP_CHUNK", c)
    <3>1. PICK a \in Addr : a = cr[c]
      BY <2>2
    <3>2. Holds(a, mem, disk, dirty, "IMAP_CHUNK", c)
      BY <2>2, <2>4, <3>1 DEF CrHolds, Sound
    <3>3. Behind(a, k) /\ InFile(a, disk') = CellOf(a, mem, disk)
      BY <1>1, <2>3, <3>2, FlushSaves DEF Holds
    <3>4. QED
      BY <3>1, <3>2, <3>3 DEF Holds, Saved
  <2>5. SavedSound(k, disk')
    BY <2>3, <2>4 DEF SavedSound
  <2>6. QED
    BY <2>1, <2>5 DEF k
<1>2. CASE UNCHANGED vars
  BY <1>2 DEF vars, segVars, driveVars, bounds, FlushedInv
<1>3. QED
  BY <1>1, <1>2, FlushSteps

(* Nor does a write touch what the mount has read.                         *)
LEMMA PutKept ==
  ASSUME NEW uncleaned \in BOOLEAN, TypeInv, KeptInv(uncleaned), NEW c \in Cells, Put(c),
         UNCHANGED <<ckpt, status>>
  PROVE  KeptInv(uncleaned)'
<1> SUFFICES ASSUME status = "up", ckpt.kind = "full", uncleaned
             PROVE  KeptInv(uncleaned)'
  BY DEF KeptInv
<1>1. /\ mem.idx \in Slots /\ disk' = disk /\ dirty' = dirty \cup {mem.seg}
      /\ mem'.seg = mem.seg /\ mem'.idx = mem.idx + 1
      /\ mem'.cells = [mem.cells EXCEPT ![mem.idx] = c]
  BY PutIs DEF TypeInv
<1>2. /\ ckpt.dirty \subseteq dirty /\ ckpt.leaveOff[2] >= NumSsbs
      /\ mem.seg \in ckpt.dirty =>
           /\ mem.seg = ckpt.leaveOff[1] /\ mem.idx >= ckpt.leaveOff[2]
           /\ \A s \in Slots : s < ckpt.leaveOff[2] => mem.cells[s] = disk[mem.seg][s]
  BY DEF KeptInv
<1>3. mem.cells \in Image /\ Slots \subseteq Nat /\ ckpt.leaveOff[2] \in Nat
  BY MemoryFields, LayoutIs DEF TypeInv, SegmentTyped, FilesTyped, CheckpointRecord, Addr, Slots
<1>4. ASSUME mem.seg \in ckpt.dirty
      PROVE  /\ mem'.idx >= ckpt.leaveOff[2]
             /\ \A s \in Slots : s < ckpt.leaveOff[2] => mem'.cells[s] = disk[mem.seg][s]
  <2>1. mem.idx >= ckpt.leaveOff[2] /\ mem.idx \in Nat
    BY <1>1, <1>2, <1>3, <1>4
  <2>2. mem'.idx >= ckpt.leaveOff[2]
    BY <1>1, <1>3, <2>1
  <2>3. ASSUME NEW s \in Slots, s < ckpt.leaveOff[2]
        PROVE  mem'.cells[s] = disk[mem.seg][s]
    <3>1. s # mem.idx
      BY <1>3, <2>1, <2>3
    <3>2. mem'.cells[s] = mem.cells[s]
      BY <1>1, <1>3, <3>1 DEF Image
    <3>3. QED
      BY <1>2, <1>4, <2>3, <3>2
  <2>4. QED
    BY <2>2, <2>3
<1>5. ckpt'.dirty \subseteq dirty'
  BY <1>1, <1>2
<1>6. QED
  BY <1>1, <1>2, <1>4, <1>5 DEF KeptInv

(* Every step keeps it.                                                    *)
LEMMA KeptNext ==
  ASSUME NEW uncleaned \in BOOLEAN, TypeInv, StartInv(uncleaned), KeptInv(uncleaned),
         [Next]_vars
  PROVE  KeptInv(uncleaned)'
<1> SUFFICES ASSUME status' = "up", ckpt'.kind = "full", uncleaned
             PROVE  KeptInv(uncleaned)'
  BY DEF KeptInv
<1>0. status = "down" \/ (status = "up" /\ ckpt' = ckpt)
  BY StepProcess DEF Process, ProcessEnds
<1>1. CASE Quiet
  <2>1. status = "up" /\ UNCHANGED <<disk, mem, dirty, ckpt>>
    BY <1>0, <1>1 DEF Quiet, Open
  <2>2. QED
    BY <2>1 DEF KeptInv
<1>2. CASE Format
  BY <1>2, EmptyIs DEF Format
<1>3. CASE Mount
  <2>1. /\ UNCHANGED <<disk, ckpt>> /\ dirty' = ckpt.dirty /\ ckpt.leaveOff[2] >= NumSsbs
        /\ mem'.seg = ckpt.leaveOff[1] /\ mem'.idx = ckpt.leaveOff[2]
        /\ ckpt.leaveOff[2] \in Slots /\ mem'.cells = disk[ckpt.leaveOff[1]]
    BY <1>3, MountIs
  <2>2. ckpt.leaveOff[2] \in Int
    BY <2>1 DEF Slots
  <2>3. QED
    BY <2>1, <2>2 DEF KeptInv
<1>4. CASE WriteData
  <2>1. \E c \in Cells : Put(c)
    BY <1>4, WriteDataIs
  <2>2. QED
    BY <1>4, <2>1, PutKept DEF WriteData
<1>5. CASE WriteInode
  <2>1. \E c \in Cells : Put(c)
    BY <1>5, WriteInodeIs
  <2>2. QED
    BY <1>5, <2>1, PutKept DEF WriteInode
<1>6. CASE WriteImapChunk
  <2>1. \E c \in Cells : Put(c)
    BY <1>6, WriteImapChunkIs
  <2>2. QED
    BY <1>6, <2>1, PutKept DEF WriteImapChunk
<1>7. CASE TurnSegment
  <2>1. Turn /\ UNCHANGED <<ckpt, status>> /\ status = "up"
    BY <1>7, TurnSegmentIs DEF TurnSegment, Up
  <2>2. mem'.seg \notin dirty /\ dirty' = dirty
    BY <2>1, TurnIs DEF TypeInv
  <2>3. QED
    BY <2>1, <2>2 DEF KeptInv
<1>8. CASE Cleaning
  BY <1>8 DEF StartInv, Cleaning, CleanStep, ScanSegment, MoveData, MoveInode, MoveChunk,
     CleanTurn, Release, CleanEnds, Moving
<1>9. status' \in Open
  BY DEF Open
<1>10. QED
  BY <1>1, <1>2, <1>3, <1>4, <1>5, <1>6, <1>7, <1>8, <1>9, StepKinds

(* The segment files change when a drive is made and when the segment in   *)
(* memory is flushed.                                                      *)
LEMMA DiskSteps ==
  ASSUME [Next]_vars
  PROVE  \/ disk' = disk \/ Format \/ FlushLast
         \/ status = "up" /\ disk' = [disk EXCEPT ![mem.seg] = mem.cells]
<1> USE DEF segVars, Up
<1>1. CASE Mount \/ RefuseMount
  BY <1>1 DEF Mount, RefuseMount
<1>2. CASE Command
  BY <1>2 DEF Command, Import, Remove, Overwrite, OutOfInodes
<1>3. CASE ReadLast \/ WriteData \/ WriteInode \/ WriteImapChunk \/ Overrun
  BY <1>3 DEF ReadLast, WriteData, WriteInode, WriteImapChunk, Overrun, Put
<1>4. CASE TurnSegment \/ Spin
  BY <1>4 DEF TurnSegment, WantsToWrite, TurnAndClean, Turn, Spin
<1>5. CASE Cleaning
  BY <1>5 DEF Cleaning, CleanStep, ScanSegment, MoveData, MoveInode, MoveChunk, CleanTurn,
     Release, CleanEnds, Put, Turn
<1>6. CASE BeginShutdown \/ TruncateCheckpoint \/ WriteNames \/ WriteCheckpoint \/ Crash
  BY <1>6 DEF BeginShutdown, TruncateCheckpoint, WriteNames, WriteCheckpoint, Crash
<1>7. CASE Stopped \/ UNCHANGED vars
  BY <1>7 DEF Stopped, vars
<1>8. QED
  BY <1>1, <1>2, <1>3, <1>4, <1>5, <1>6, <1>7 DEF Next, WorkStep, Shutdown

(* The checkpoint changes when a drive is made and when one is shut down.  *)
LEMMA CkptSteps ==
  ASSUME [Next]_vars
  PROVE  ckpt' = ckpt \/ WriteCheckpoint \/ ckpt'.kind # "full"
<1> USE DEF segVars, driveVars
<1>1. CASE Format \/ TruncateCheckpoint
  BY <1>1, EmptyIs DEF Format, TruncateCheckpoint
<1>2. CASE Mount \/ RefuseMount \/ Crash
  BY <1>2 DEF Mount, RefuseMount, Crash
<1>3. CASE Command
  BY <1>3 DEF Command, Import, Remove, Overwrite, OutOfInodes
<1>4. CASE WorkStep
  BY <1>4 DEF WorkStep, ReadLast, WriteData, WriteInode, WriteImapChunk, TurnSegment, Cleaning,
     Overrun, Spin
<1>5. CASE BeginShutdown \/ WriteNames \/ FlushLast
  BY <1>5 DEF BeginShutdown, WriteNames, FlushLast
<1>6. CASE Stopped \/ UNCHANGED vars
  BY <1>6 DEF Stopped, vars
<1>7. QED
  BY <1>1, <1>2, <1>3, <1>4, <1>5, <1>6 DEF Next, Shutdown

(* Without cleaning, what a checkpoint needs stays in the files as long as *)
(* the checkpoint does.                                                    *)
LEMMA FilesKept ==
  ASSUME NEW uncleaned \in BOOLEAN, TypeInv, StartInv(uncleaned), KeptInv(uncleaned),
         [Next]_vars, ckpt' = ckpt, ckpt.kind = "full",
         mounts <= 1 \/ uncleaned, NEW a \in Addr, Behind(a, ckpt)
  PROVE  InFile(a, disk') = InFile(a, disk)
<1>0. mounts \in Nat
  BY DEF TypeInv, ControlTyped
<1>1. CASE disk' = disk
  BY <1>1
<1>2. CASE Format
  BY <1>2, EmptyIs DEF Format
<1>3. CASE FlushLast
  BY <1>3 DEF FlushLast, StartInv
<1>4. CASE status = "up" /\ disk' = [disk EXCEPT ![mem.seg] = mem.cells]
  <2>1. uncleaned
    BY <1>0, <1>4 DEF StartInv
  <2>2. /\ ckpt.leaveOff[2] >= NumSsbs
        /\ mem.seg \in ckpt.dirty =>
             /\ mem.seg = ckpt.leaveOff[1]
             /\ \A s \in Slots : s < ckpt.leaveOff[2] => mem.cells[s] = disk[mem.seg][s]
    BY <1>4, <2>1 DEF KeptInv
  <2>3. /\ disk \in [Segs -> Image] /\ mem.seg \in Segs
        /\ ckpt.leaveOff[2] \in Int /\ NumSsbs \in Int
    <3>1. disk \in [Segs -> Image] /\ mem.seg \in Segs
      BY MemoryFields DEF TypeInv, SegmentTyped
    <3>2. ckpt.leaveOff \in Addr
      BY DEF TypeInv, FilesTyped, CheckpointRecord
    <3>3. ckpt.leaveOff[2] \in Int /\ NumSsbs \in Int
      BY <3>2, LayoutIs DEF Addr
    <3>4. QED
      BY <3>1, <3>3
  <2>4. /\ a[2] \in Slots /\ a[1] \in ckpt.dirty /\ a[1] \in Segs
        /\ a[1] = ckpt.leaveOff[1] => a[2] < ckpt.leaveOff[2] \/ ckpt.leaveOff[2] < NumSsbs
    BY DEF Behind, Addr
  <2>5. CASE a[1] = mem.seg
    <3>1. a[2] < ckpt.leaveOff[2]
      BY <2>2, <2>3, <2>4, <2>5
    <3>2. mem.cells[a[2]] = disk[mem.seg][a[2]]
      BY <2>2, <2>4, <2>5, <3>1
    <3>3. disk'[mem.seg] = mem.cells
      BY <1>4, <2>3
    <3>4. QED
      BY <2>5, <3>2, <3>3 DEF InFile
  <2>6. CASE a[1] # mem.seg
    <3>1. disk'[a[1]] = disk[a[1]]
      BY <1>4, <2>3, <2>4, <2>6
    <3>2. QED
      BY <3>1 DEF InFile
  <2>7. QED
    BY <2>5, <2>6
<1>5. QED
  BY <1>1, <1>2, <1>3, <1>4, DiskSteps

(* Every step keeps the checkpoint and the files it needs together.        *)
LEMMA CkptNext ==
  ASSUME NEW uncleaned \in BOOLEAN, TypeInv, StartInv(uncleaned), FlushedInv(uncleaned),
         KeptInv(uncleaned), CkptInv(uncleaned), [Next]_vars
  PROVE  CkptInv(uncleaned)'
<1> SUFFICES ASSUME ckpt'.kind = "full", mounts' <= 1 \/ uncleaned
             PROVE  SavedSound(ckpt', disk')
  BY DEF CkptInv
<1>0. mounts \in Nat
  BY DEF TypeInv, ControlTyped
<1>1. CASE WriteCheckpoint
  <2>1. /\ status = "flushed" /\ ckpt' = Checkpoint("full", leaveOff, dirty, cr)
        /\ disk' = disk /\ mounts' = mounts
    BY <1>1 DEF WriteCheckpoint, bounds
  <2>2. QED
    BY <1>0, <2>1 DEF FlushedInv
<1>2. CASE ckpt' = ckpt
  <2>1. mounts' = mounts \/ mounts' = mounts + 1
    BY StepProcess DEF Process
  <2>2. mounts <= 1 \/ uncleaned
    BY <1>0, <2>1
  <2>3. SavedSound(ckpt, disk) /\ ckpt.cr \in [Chunks -> Addr]
    BY <1>2, <2>2 DEF CkptInv, TypeInv, FilesTyped, CheckpointRecord
  <2>4. ASSUME NEW c \in Chunks, ckpt.cr[c] # Nil
        PROVE  Saved(ckpt.cr[c], ckpt, disk', "IMAP_CHUNK", c)
    <3>1. PICK a \in Addr : a = ckpt.cr[c]
      BY <2>3
    <3>2. Saved(a, ckpt, disk, "IMAP_CHUNK", c)
      BY <2>3, <2>4, <3>1 DEF SavedSound
    <3>3. InFile(a, disk') = InFile(a, disk)
      BY <1>2, <2>2, <3>2, FilesKept DEF Saved
    <3>4. QED
      BY <3>1, <3>2, <3>3 DEF Saved
  <2>5. QED
    BY <1>2, <2>4 DEF SavedSound
<1>3. QED
  BY <1>1, <1>2, CkptSteps

-----------------------------------------------------------------------------
(* The chunks of the imap are up to date but for the one that the command  *)
(* at hand is about to write.  The copy of that one, taken before the turn *)
(* that may come, is up to date too as long as nothing is cleaned.         *)

Recorded(im, r, c, m, d) ==
  GetChunk(im, c) = IF r[c] = Nil THEN NoChunk ELSE CellOf(r[c], m, d).block.chunk

AtHand(w, c) == w.pc = "chunk" /\ c = ChunkOf(w.entry)

CurrentInv(uncleaned) ==
  status \in Open /\ uncleaned =>
    /\ \A c \in Chunks : AtHand(work, c) \/ Recorded(imap, cr, c, mem, disk)
    /\ work.pc = "chunk" => work.chunk = GetChunk(imap, ChunkOf(work.entry))

(* An entry of the imap is in one chunk.                                   *)
LEMMA OtherChunk ==
  ASSUME NEW im, NEW i \in Inodes, NEW h, \A j \in Inodes \ {i} : h[j] = im[j],
         NEW c \in Chunks, c # ChunkOf(i)
  PROVE  GetChunk(h, c) = GetChunk(im, c)
<1>1. ASSUME NEW k \in 0..(ChunkLen - 1)
      PROVE  h[c * ChunkLen + k] = im[c * ChunkLen + k]
  <2>1. c * ChunkLen + k \in Inodes /\ ChunkOf(c * ChunkLen + k) = c
    BY InodeOfChunk
  <2>2. c * ChunkLen + k # i
    BY <2>1
  <2>3. QED
    BY <2>1, <2>2
<1>2. QED
  BY <1>1 DEF GetChunk

(* What is recorded stays so where neither map changes.                    *)
LEMMA StaysRecorded ==
  ASSUME TypeInv, CrHolds, Keeps, NEW c \in Chunks, Recorded(imap, cr, c, mem, disk),
         cr'[c] = cr[c], GetChunk(imap', c) = GetChunk(imap, c)
  PROVE  Recorded(imap', cr', c, mem', disk')
<1>1. cr \in [Chunks -> Addr]
  BY DEF TypeInv, SegmentTyped
<1>2. ASSUME cr[c] # Nil
      PROVE  CellOf(cr[c], mem', disk') = CellOf(cr[c], mem, disk)
  <2>1. cr[c] \in Addr /\ Placed(cr[c], mem, dirty)
    BY <1>1, <1>2 DEF CrHolds, Sound, Holds
  <2>2. QED
    BY <2>1 DEF Keeps
<1>3. QED
  BY <1>2 DEF Recorded

(* A chunk is read back as it was written.                                 *)
LEMMA ChunkSaved ==
  ASSUME TypeInv, NEW c \in Chunks,
         ckpt.cr[c] # Nil => ckpt.cr[c][2] \in Slots
  PROVE  GetChunk(SavedImap, c) =
           IF ckpt.cr[c] = Nil THEN NoChunk ELSE DiskBlock(ckpt.cr[c]).chunk
<1>1. ckpt.cr \in [Chunks -> Addr] /\ SegmentTyped
  BY DEF TypeInv, FilesTyped, CheckpointRecord
<1>2. ASSUME NEW k \in 0..(ChunkLen - 1)
      PROVE  SavedImap[c * ChunkLen + k] =
               IF ckpt.cr[c] = Nil THEN Nil ELSE DiskBlock(ckpt.cr[c]).chunk[k]
  <2>1. /\ c * ChunkLen + k \in Inodes
        /\ ChunkOf(c * ChunkLen + k) = c /\ (c * ChunkLen + k) % ChunkLen = k
    BY InodeOfChunk
  <2> DEFINE i == c * ChunkLen + k
  <2> HIDE DEF i
  <2>2. SavedImap[i] = IF ckpt.cr[ChunkOf(i)] = Nil THEN Nil
                       ELSE DiskBlock(ckpt.cr[ChunkOf(i)]).chunk[i % ChunkLen]
    BY <2>1 DEF SavedImap, i
  <2>3. QED
    BY <2>1, <2>2 DEF i
<1>3. GetChunk(SavedImap, c) =
        [k \in 0..(ChunkLen - 1) |->
           IF ckpt.cr[c] = Nil THEN Nil ELSE DiskBlock(ckpt.cr[c]).chunk[k]]
  BY <1>2 DEF GetChunk
<1>4. CASE ckpt.cr[c] = Nil
  BY <1>3, <1>4 DEF NoChunk
<1>5. CASE ckpt.cr[c] # Nil
  <2>1. ckpt.cr[c] \in Addr
    BY <1>1
  <2>2. DiskBlock(ckpt.cr[c]).chunk \in Chunk
    BY <1>1, <2>1, BlocksAre, BlockFields
  <2>3. QED
    BY <1>3, <1>5, <2>2 DEF Chunk
<1>6. QED
  BY <1>4, <1>5

(* Every step keeps the chunks up to date.                                 *)
LEMMA CurrentNext ==
  ASSUME NEW uncleaned \in BOOLEAN, TypeInv, StartInv(uncleaned), ChunkInv(uncleaned),
         CkptInv(uncleaned), CurrentInv(uncleaned), [Next]_vars
  PROVE  CurrentInv(uncleaned)'
<1> USE DEF Up, Open
<1> SUFFICES ASSUME status' \in Open, uncleaned
             PROVE  CurrentInv(uncleaned)'
  BY DEF CurrentInv
<1>0. /\ imap \in [Inodes -> Addr] /\ cr \in [Chunks -> Addr] /\ SegmentTyped
  BY DEF TypeInv, SegmentTyped
<1>1. ASSUME status \in Open
      PROVE  /\ CrHolds
             /\ \A c \in Chunks : AtHand(work, c) \/ Recorded(imap, cr, c, mem, disk)
             /\ work.pc = "chunk" => work.chunk = GetChunk(imap, ChunkOf(work.entry))
  BY <1>1 DEF ChunkInv, CurrentInv
(* Neither map changes, nor what the command has copied.                   *)
<1>2. ASSUME status \in Open, Keeps, imap' = imap, cr' = cr,
             \/ work.pc # "chunk" /\ work'.pc # "chunk"
             \/ work'.pc = work.pc /\ work'.entry = work.entry /\ work'.chunk = work.chunk
      PROVE  CurrentInv(uncleaned)'
  <2>1. ASSUME NEW c \in Chunks
        PROVE  AtHand(work', c) \/ Recorded(imap', cr', c, mem', disk')
    BY <1>1, <1>2, <2>1, StaysRecorded DEF AtHand
  <2>2. work'.pc = "chunk" => work'.chunk = GetChunk(imap', ChunkOf(work'.entry))
    BY <1>1, <1>2
  <2>3. QED
    BY <2>1, <2>2 DEF CurrentInv
(* The imap changes, and its chunk is copied.                              *)
<1>3. ASSUME NEW i \in Inodes, status = "up", work.pc # "chunk", Keeps, cr' = cr,
             \A j \in Inodes \ {i} : imap'[j] = imap[j],
             work'.entry = i, work'.pc = "chunk", work'.chunk = GetChunk(imap', ChunkOf(i))
      PROVE  CurrentInv(uncleaned)'
  <2>1. ASSUME NEW c \in Chunks, c # ChunkOf(i)
        PROVE  Recorded(imap', cr', c, mem', disk')
    <3>1. GetChunk(imap', c) = GetChunk(imap, c)
      BY <1>3, <2>1, OtherChunk
    <3>2. Recorded(imap, cr, c, mem, disk)
      BY <1>1, <1>3 DEF AtHand
    <3>3. QED
      BY <1>1, <1>3, <3>1, <3>2, StaysRecorded
  <2>2. QED
    BY <1>3, <2>1 DEF CurrentInv, AtHand
<1>4. CASE Format
  <2>1. imap' = NoImap /\ cr' = NoCr /\ work' = Idle
    BY <1>4 DEF Format, StartProcess, StartInv, TypeInv, ControlTyped
  <2>2. ASSUME NEW c \in Chunks
        PROVE  Recorded(imap', cr', c, mem', disk')
    <3>1. NoCr[c] = Nil
      BY DEF NoCr
    <3>2. GetChunk(NoImap, c) = NoChunk
      BY InodeOfChunk DEF GetChunk, NoImap, NoChunk
    <3>3. QED
      BY <2>1, <3>1, <3>2 DEF Recorded
  <2>3. QED
    BY <2>1, <2>2, IdleIs DEF CurrentInv
<1>5. CASE Mount
  <2>1. /\ ckpt.kind = "full" /\ disk' = disk /\ work' = Idle
        /\ mem'.seg = ckpt.leaveOff[1] /\ mem'.cells = disk[ckpt.leaveOff[1]]
        /\ cr' = ckpt.cr /\ imap' = SavedImap
    BY <1>5, MountIs
  <2>2. SavedSound(ckpt, disk)
    BY <2>1 DEF CkptInv
  <2>3. ASSUME NEW c \in Chunks
        PROVE  Recorded(imap', cr', c, mem', disk')
    <3>1. ckpt.cr[c] # Nil => ckpt.cr[c][2] \in Slots
      BY <2>2 DEF SavedSound, Saved, Behind
    <3>2. GetChunk(SavedImap, c) =
            IF ckpt.cr[c] = Nil THEN NoChunk ELSE DiskBlock(ckpt.cr[c]).chunk
      BY <3>1, ChunkSaved
    <3>3. ckpt.cr[c] # Nil =>
            DiskBlock(ckpt.cr[c]) = CellOf(ckpt.cr[c], mem', disk').block
      BY <2>1, <3>1 DEF DiskBlock, CellOf
    <3>4. QED
      BY <2>1, <3>2, <3>3 DEF Recorded
  <2>4. QED
    BY <2>1, <2>3, IdleIs DEF CurrentInv
<1>6. CASE Command
  <2>1. status = "up" /\ work.pc = "idle" /\ UNCHANGED <<disk, mem, dirty, cr>> /\ Keeps
    <3>1. CASE OutOfInodes
      BY <3>1 DEF OutOfInodes, ProcessEnds
    <3>2. CASE ~OutOfInodes
      BY <1>6, <3>2, SameKeeps DEF Command, Import, Remove, Overwrite, Ready, segVars
    <3>3. QED
      BY <3>1, <3>2
  <2>2. CASE \E n \in FileNames, src \in Sources : Import(n, src)
    <3>1. imap' = imap /\ work'.pc = "data"
      BY <2>2, ImportIs DEF Import, segVars
    <3>2. QED
      BY <1>2, <2>1, <3>1
  <2>3. CASE \E n \in FileNames : Remove(n)
    <3>1. PICK n \in FileNames : Remove(n)
      BY <2>3
    <3> DEFINE i == nameMap[n]
    <3>2. /\ i \in Inodes /\ imap' = [imap EXCEPT ![i] = Nil]
          /\ work'.pc = "chunk" /\ work'.entry = i
          /\ work'.chunk = GetChunk(imap', ChunkOf(i))
      BY <3>1, RemoveIs
    <3> HIDE DEF i
    <3>3. \A j \in Inodes \ {i} : imap'[j] = imap[j]
      BY <1>0, <3>2
    <3>4. QED
      BY <1>3, <2>1, <3>2, <3>3
  <2>4. CASE \E n \in FileNames, o \in Overwrites : Overwrite(n, o[1], o[2], o[3])
    <3>1. PICK n \in FileNames, o \in Overwrites : Overwrite(n, o[1], o[2], o[3])
      BY <2>4
    <3>2. o[1] \in Nat /\ o[2] \in Nat /\ o[3] \in Nat
      BY CommandAssumption
    <3>3. imap' = imap /\ work'.pc = "data"
      BY <3>1, <3>2, OverwriteIs DEF Overwrite, segVars
    <3>4. QED
      BY <1>2, <2>1, <3>3
  <2>5. CASE OutOfInodes
    BY <2>5 DEF OutOfInodes, ProcessEnds
  <2>6. QED
    BY <1>6, <2>2, <2>3, <2>4, <2>5 DEF Command
<1>7. CASE ReadLast
  <2>1. work.pc = "data" /\ work'.pc = "data" /\ status = "up"
    BY <1>7, ReadLastIs DEF WorkFields
  <2>2. UNCHANGED <<imap, cr>> /\ Keeps
    BY <1>7, SameKeeps DEF ReadLast, segVars
  <2>3. QED
    BY <1>2, <2>1, <2>2
<1>8. CASE WriteData
  <2>1. /\ status = "up" /\ work.pc = "data" /\ work'.pc # "chunk"
        /\ \E c \in Cells : Put(c)
    BY <1>8, WriteDataIs
  <2>2. Keeps /\ UNCHANGED <<imap, cr>>
    BY <1>0, <1>8, <2>1, PutKeeps DEF WriteData
  <2>3. QED
    BY <1>2, <2>1, <2>2
<1>9. CASE WriteInode
  <2> DEFINE i == work.entry
  <2>1. /\ status = "up" /\ work.pc = "inode" /\ Busy(work) /\ \E c \in Cells : Put(c)
        /\ imap' = [imap EXCEPT ![i] = Here]
        /\ work'.pc = "chunk" /\ work'.chunk = GetChunk(imap', ChunkOf(i)) /\ work'.entry = i
    BY <1>9, WriteInodeIs DEF WorkFields
  <2>2. i \in Inodes
    BY <2>1 DEF Busy
  <2> HIDE DEF i
  <2>3. Keeps /\ cr' = cr /\ \A j \in Inodes \ {i} : imap'[j] = imap[j]
    BY <1>0, <1>9, <2>1, PutKeeps DEF WriteInode
  <2>4. QED
    BY <1>3, <2>1, <2>2, <2>3
<1>10. CASE WriteImapChunk
  <2> DEFINE i == ChunkOf(work.entry)
             b == ChunkCell(i, work.chunk)
  <2>1. /\ status = "up" /\ work.pc = "chunk" /\ i \in Chunks /\ work.chunk \in Chunk
        /\ b \in Cells /\ Put(b) /\ cr' = [cr EXCEPT ![i] = Here] /\ work' = Idle
    BY <1>10, WriteImapChunkIs
  <2>2. b.block.chunk = work.chunk
    BY <2>1, ChunkCellIs
  <2>3. imap' = imap
    BY <1>10 DEF WriteImapChunk
  <2>4. work.chunk = GetChunk(imap, i)
    BY <1>1, <2>1
  <2>5. \A c \in Chunks : c # i => Recorded(imap, cr, c, mem, disk)
    BY <1>1, <2>1 DEF AtHand
  <2> HIDE DEF b, i
  <2>6. Keeps /\ Here # Nil /\ CellOf(Here, mem', disk') = b
    BY <1>0, <2>1, PutKeeps
  <2>7. ASSUME NEW c \in Chunks
        PROVE  Recorded(imap', cr', c, mem', disk')
    <3>1. CASE c = i
      <4>1. cr'[c] = Here
        BY <1>0, <2>1, <3>1
      <4>2. QED
        BY <2>2, <2>3, <2>4, <2>6, <3>1, <4>1 DEF Recorded
    <3>2. CASE c # i
      <4>1. cr'[c] = cr[c]
        BY <1>0, <2>1, <3>2
      <4>2. QED
        BY <1>1, <2>1, <2>3, <2>5, <2>6, <3>2, <4>1, StaysRecorded
    <3>3. QED
      BY <3>1, <3>2
  <2>8. QED
    BY <2>1, <2>7, IdleIs DEF CurrentInv
<1>11. CASE TurnSegment
  <2>1. status = "up" /\ Turn /\ UNCHANGED <<imap, cr>>
    BY <1>11, TurnSegmentIs DEF TurnSegment, TurnAndClean, Turn
  <2>2. Keeps
    BY <1>0, <2>1, TurnKeeps
  <2>3. work'.pc = work.pc /\ work'.entry = work.entry /\ work'.chunk = work.chunk
    BY <1>11, TurnSegmentIs DEF WorkFields
  <2>4. QED
    BY <1>2, <2>1, <2>2, <2>3
<1>12. CASE Cleaning
  BY <1>12 DEF StartInv, Cleaning, CleanStep, ScanSegment, MoveData, MoveInode, MoveChunk,
     CleanTurn, Release, CleanEnds, Moving
<1>13. CASE Stopped \/ UNCHANGED vars
  <2>1. UNCHANGED <<disk, mem, dirty, imap, cr, work, status>>
    BY <1>13 DEF Stopped, vars, segVars, driveVars
  <2>2. Keeps
    BY <2>1, SameKeeps
  <2>3. QED
    BY <1>2, <2>1, <2>2
<1>14. CASE RefuseMount \/ Overrun \/ Spin \/ FlushLast \/ WriteCheckpoint \/ Crash
  BY <1>14 DEF RefuseMount, Overrun, Spin, FlushLast, WriteCheckpoint, Crash, ProcessEnds
<1>15. CASE BeginShutdown \/ TruncateCheckpoint \/ WriteNames
  <2>1. status \in Open /\ UNCHANGED <<disk, mem, dirty, imap, cr, work>>
    BY <1>15 DEF BeginShutdown, TruncateCheckpoint, WriteNames, segVars
  <2>2. Keeps
    BY <2>1, SameKeeps
  <2>3. QED
    BY <1>2, <2>1, <2>2
<1>16. QED
  BY <1>4, <1>5, <1>6, <1>7, <1>8, <1>9, <1>10, <1>11, <1>12, <1>13, <1>14, <1>15
  DEF Next, WorkStep, Shutdown

-----------------------------------------------------------------------------
(* The imap and the names.  A command on a file enters in the imap what it *)
(* looks up by the name that the inode has.  That is not always the name   *)
(* it was given: the cleaner may take an inode from a segment file that    *)
(* the segment in memory has outdated, and a mount may read the name map   *)
(* amiss.                                                                  *)

Undisturbed(sessions, uncleaned, named) ==
  \/ sessions <= 1 /\ (uncleaned \/ named)
  \/ uncleaned /\ named

ImapInv(uncleaned, named) ==
  status \in Open /\ Undisturbed(mounts, uncleaned, named) =>
    ImapHolds /\ (work # Idle => work.entry = work.ino)

(* What a mount makes of the imap is sound.                                *)
SavedAt(k, d, i) ==
  IF k.cr[ChunkOf(i)] = Nil THEN Nil
  ELSE InFile(k.cr[ChunkOf(i)], d).block.chunk[i % ChunkLen]

SavedWhole(k, d) ==
  \A i \in Inodes : SavedAt(k, d, i) # Nil => Saved(SavedAt(k, d, i), k, d, "INODE", i)

WholeInv(uncleaned, named) ==
  uncleaned /\ named =>
    /\ status = "flushed" => SavedWhole(Checkpoint("full", leaveOff, dirty, cr), disk)
    /\ ckpt.kind = "full" => SavedWhole(ckpt, disk)

(* A mount reads the imap from the chunks in the files.                    *)
LEMMA SavedImapAt ==
  ASSUME TypeInv, SavedSound(ckpt, disk), NEW i \in Inodes
  PROVE  /\ SavedImap[i] = SavedAt(ckpt, disk, i)
         /\ SavedAt(ckpt, disk, i) \in Addr
<1>1. ChunkOf(i) \in Chunks
  BY ChunkOfInode
<1>2. ckpt.cr[ChunkOf(i)] # Nil => ckpt.cr[ChunkOf(i)][2] \in Slots
  BY <1>1 DEF SavedSound, Saved, Behind
<1>3. ckpt.cr[ChunkOf(i)] # Nil =>
        DiskBlock(ckpt.cr[ChunkOf(i)]) = InFile(ckpt.cr[ChunkOf(i)], disk).block
  BY <1>2 DEF DiskBlock, InFile
<1>4. SavedImap[i] = SavedAt(ckpt, disk, i)
  BY <1>3 DEF SavedImap, SavedAt
<1>5. SavedImap \in [Inodes -> Addr]
  BY SavedImapIs
<1>6. QED
  BY <1>4, <1>5

(* The last flush leaves the imap in the files.                            *)
LEMMA FlushSavesAt ==
  ASSUME NEW uncleaned \in BOOLEAN, TypeInv, PlaceInv, ChunkInv(uncleaned),
         CurrentInv(uncleaned), FlushLast, uncleaned, NEW k,
         k.leaveOff = leaveOff, k.dirty = dirty, k.cr = cr, NEW i \in Inodes
  PROVE  SavedAt(k, disk', i) = imap[i]
<1>1. status = "named" /\ work.pc # "chunk" /\ CrHolds
  BY IdleIs DEF FlushLast, TypeInv, ControlTyped, ChunkInv, Open
<1>2. cr \in [Chunks -> Addr]
  BY DEF TypeInv, SegmentTyped
<1> DEFINE c == ChunkOf(i)
           j == i % ChunkLen
<1>3. c \in Chunks /\ j \in 0..(ChunkLen - 1) /\ i = c * ChunkLen + j
  BY ChunkOfInode
<1>4. SavedAt(k, disk', i) = IF cr[c] = Nil THEN Nil ELSE InFile(cr[c], disk').block.chunk[j]
  BY DEF SavedAt
<1> HIDE DEF c, j
<1>5. Recorded(imap, cr, c, mem, disk)
  BY <1>1, <1>3 DEF CurrentInv, AtHand, Open
<1>6. GetChunk(imap, c)[j] = imap[i]
  BY <1>3 DEF GetChunk
<1>7. CASE cr[c] = Nil
  <2>1. NoChunk[j] = Nil
    BY <1>3 DEF NoChunk
  <2>2. QED
    BY <1>4, <1>5, <1>6, <1>7, <2>1 DEF Recorded
<1>8. CASE cr[c] # Nil
  <2>1. PICK a \in Addr : a = cr[c]
    BY <1>2, <1>3
  <2>2. Placed(a, mem, dirty)
    BY <1>1, <1>2, <1>3, <1>8, <2>1 DEF CrHolds, Sound, Holds
  <2>3. InFile(a, disk') = CellOf(a, mem, disk)
    BY <2>2, FlushSaves
  <2>4. QED
    BY <1>4, <1>5, <1>6, <1>8, <2>1, <2>3 DEF Recorded
<1>9. QED
  BY <1>7, <1>8

(* And the inodes it points to.                                            *)
LEMMA FlushSavesInode ==
  ASSUME TypeInv, PlaceInv, ImapHolds, FlushLast, NEW k,
         k.leaveOff = leaveOff, k.dirty = dirty, NEW i \in Inodes, imap[i] # Nil
  PROVE  /\ Saved(imap[i], k, disk', "INODE", i)
         /\ InFile(imap[i], disk') = CellOf(imap[i], mem, disk)
<1>1. PICK a \in Addr : a = imap[i]
  BY DEF TypeInv, SegmentTyped
<1>2. DOMAIN imap = Inodes
  BY DEF TypeInv, SegmentTyped
<1>3. Holds(a, mem, disk, dirty, "INODE", i)
  BY <1>1, <1>2 DEF ImapHolds, Sound
<1>4. Behind(a, k) /\ InFile(a, disk') = CellOf(a, mem, disk)
  BY <1>3, FlushSaves DEF Holds
<1>5. QED
  BY <1>1, <1>3, <1>4 DEF Holds, Saved

(* So the saved imap is whole.                                             *)
LEMMA FlushSavesImap ==
  ASSUME NEW uncleaned \in BOOLEAN, NEW named \in BOOLEAN, TypeInv, PlaceInv,
         ChunkInv(uncleaned),
         CurrentInv(uncleaned), ImapInv(uncleaned, named), FlushLast,
         uncleaned, named, NEW k,
         k.leaveOff = leaveOff, k.dirty = dirty, k.cr = cr
  PROVE  SavedWhole(k, disk')
<1>1. ImapHolds
  BY DEF FlushLast, ImapInv, Undisturbed, Open
<1>2. \A i \in Inodes : SavedAt(k, disk', i) = imap[i]
  BY FlushSavesAt
<1>3. \A i \in Inodes : imap[i] # Nil => Saved(imap[i], k, disk', "INODE", i)
  BY <1>1, FlushSavesInode
<1>4. QED
  BY <1>2, <1>3 DEF SavedWhole

(* A checkpoint that stays finds the imap where it was.                    *)
LEMMA SavedAtKept ==
  ASSUME NEW k, NEW e, SavedSound(k, disk), k.cr \in [Chunks -> Addr],
         \A a \in Addr : Behind(a, k) => InFile(a, e) = InFile(a, disk), NEW i \in Inodes
  PROVE  SavedAt(k, e, i) = SavedAt(k, disk, i)
<1>1. PICK c \in Chunks : c = ChunkOf(i)
  BY ChunkOfInode
<1>2. k.cr[c] # Nil => InFile(k.cr[c], e) = InFile(k.cr[c], disk)
  BY DEF SavedSound, Saved
<1>3. QED
  BY <1>1, <1>2 DEF SavedAt

(* Every step keeps the saved imap sound.                                  *)
LEMMA WholeNext ==
  ASSUME NEW uncleaned \in BOOLEAN, NEW named \in BOOLEAN, TypeInv,
         StartInv(uncleaned), PlaceInv,
         ChunkInv(uncleaned), CkptInv(uncleaned), KeptInv(uncleaned), CurrentInv(uncleaned),
         ImapInv(uncleaned, named), WholeInv(uncleaned, named), [Next]_vars
  PROVE  WholeInv(uncleaned, named)'
<1> SUFFICES ASSUME uncleaned, named
             PROVE  WholeInv(uncleaned, named)'
  BY DEF WholeInv
<1>1. ASSUME status' = "flushed"
      PROVE  SavedWhole(Checkpoint("full", leaveOff', dirty', cr'), disk')
  <2>1. CASE FlushLast
    <3> DEFINE k == Checkpoint("full", leaveOff, dirty, cr)
    <3>1. k.leaveOff = leaveOff /\ k.dirty = dirty /\ k.cr = cr
      BY DEF Checkpoint
    <3> HIDE DEF k
    <3>2. SavedWhole(k, disk')
      BY <2>1, <3>1, FlushSavesImap
    <3>3. UNCHANGED <<dirty, leaveOff, cr>>
      BY <2>1 DEF FlushLast
    <3>4. QED
      BY <3>2, <3>3 DEF k
  <2>2. CASE UNCHANGED vars
    BY <1>1, <2>2 DEF vars, segVars, driveVars, WholeInv
  <2>3. QED
    BY <1>1, <2>1, <2>2, FlushSteps
<1>2. ASSUME ckpt'.kind = "full"
      PROVE  SavedWhole(ckpt', disk')
  <2>1. CASE WriteCheckpoint
    <3>1. /\ status = "flushed" /\ ckpt' = Checkpoint("full", leaveOff, dirty, cr)
          /\ disk' = disk
      BY <2>1 DEF WriteCheckpoint
    <3>2. QED
      BY <3>1 DEF WholeInv
  <2>2. CASE ckpt' = ckpt
    <3>1. /\ SavedWhole(ckpt, disk) /\ SavedSound(ckpt, disk)
          /\ ckpt.cr \in [Chunks -> Addr]
      BY <1>2, <2>2 DEF WholeInv, CkptInv, TypeInv, FilesTyped, CheckpointRecord
    <3>2. ASSUME NEW a \in Addr, Behind(a, ckpt)
          PROVE  InFile(a, disk') = InFile(a, disk)
      BY <1>2, <2>2, <3>2, FilesKept
    <3>3. ASSUME NEW i \in Inodes
          PROVE  SavedAt(ckpt, disk', i) = SavedAt(ckpt, disk, i)
      BY <3>1, <3>2, SavedAtKept
    <3>4. ASSUME NEW i \in Inodes, SavedAt(ckpt, disk, i) # Nil
          PROVE  Saved(SavedAt(ckpt, disk, i), ckpt, disk', "INODE", i)
      <4>1. PICK a \in Addr : a = SavedAt(ckpt, disk, i)
        BY <3>1, SavedImapAt
      <4>2. Saved(a, ckpt, disk, "INODE", i)
        BY <3>1, <3>4, <4>1 DEF SavedWhole
      <4>3. InFile(a, disk') = InFile(a, disk)
        BY <3>2, <4>2 DEF Saved
      <4>4. QED
        BY <4>1, <4>2, <4>3 DEF Saved
    <3>5. QED
      BY <2>2, <3>3, <3>4 DEF SavedWhole
  <2>3. QED
    BY <1>2, <2>1, <2>2, CkptSteps
<1>3. QED
  BY <1>1, <1>2 DEF WholeInv

(* The names, of the first process: no mount has read a name map back.     *)
Making(w) == w.pc \in {"data", "inode"}

(* A name leads to an inode that knows it, or to the one being made.       *)
NameHolds(nm, n, im, w, m, d) ==
  IF Making(w) /\ w.ino = nm[n] THEN w.node.name = n
  ELSE im[nm[n]] # Nil /\ CellOf(im[nm[n]], m, d).block.name = n

NamesInv(uncleaned) ==
  status = "up" /\ mounts <= 1 /\ uncleaned =>
    \A n \in DOMAIN nameMap : NameHolds(nameMap, n, imap, work, mem, disk)

(* Between commands a name's inode bears the name, so no two names share   *)
(* an inode.                                                               *)
LEMMA NamesRead ==
  ASSUME NEW uncleaned \in BOOLEAN, NEW named \in BOOLEAN, TypeInv,
         ImapInv(uncleaned, named), NamesInv(uncleaned),
         status = "up", mounts <= 1, uncleaned,
         work.pc = "idle", NEW n \in DOMAIN nameMap
  PROVE  /\ imap[nameMap[n]] # Nil
         /\ BlockAt(imap[nameMap[n]]).name = n
         /\ \A m \in DOMAIN nameMap : nameMap[m] = nameMap[n] => m = n
<1>1. ASSUME NEW m \in DOMAIN nameMap
      PROVE  imap[nameMap[m]] # Nil /\ CellOf(imap[nameMap[m]], mem, disk).block.name = m
  <2>1. NameHolds(nameMap, m, imap, work, mem, disk)
    BY DEF NamesInv
  <2>2. ~Making(work)
    BY DEF Making
  <2>3. QED
    BY <2>1, <2>2 DEF NameHolds
<1>2. imap[nameMap[n]] # Nil /\ CellOf(imap[nameMap[n]], mem, disk).block.name = n
  BY <1>1
<1>3. Placed(imap[nameMap[n]], mem, dirty)
  <2>1. nameMap[n] \in Inodes /\ DOMAIN imap = Inodes
    BY NameIsKnown DEF TypeInv, SegmentTyped
  <2>2. QED
    BY <1>2, <2>1 DEF ImapInv, Undisturbed, Open, ImapHolds, Sound, Holds
<1>4. BlockAt(imap[nameMap[n]]) = CellOf(imap[nameMap[n]], mem, disk).block
  BY <1>3, ReadPlaced
<1>5. ASSUME NEW m \in DOMAIN nameMap, nameMap[m] = nameMap[n]
      PROVE  m = n
  BY <1>1, <1>2, <1>5
<1>6. QED
  BY <1>2, <1>4, <1>5

(* What an overwrite finds: the inode of the name it was given.            *)
LEMMA OverwriteFinds ==
  ASSUME NEW uncleaned \in BOOLEAN, NEW named \in BOOLEAN, TypeInv,
         ImapInv(uncleaned, named), NamesInv(uncleaned),
         status = "up", mounts <= 1, uncleaned,
         NEW n \in FileNames, NEW howMany \in Nat, NEW start \in Nat, NEW c \in Nat,
         Overwrite(n, howMany, start, c)
  PROVE  /\ n \in DOMAIN nameMap /\ work'.ino = nameMap[n] /\ work'.entry = work'.ino
         /\ work' # Idle /\ work'.pc = "data" /\ work'.node.name = n
         /\ DOMAIN nameMap' = DOMAIN nameMap /\ \A m \in DOMAIN nameMap : nameMap'[m] = nameMap[m]
<1> DEFINE node == BlockAt(imap[nameMap[n]])
<1>1. /\ n \in DOMAIN nameMap /\ node \in Block
      /\ work' # Idle /\ work'.pc = "data" /\ work'.ino = nameMap[n]
      /\ work'.entry = IF node.name \in DOMAIN nameMap THEN nameMap[node.name] ELSE 0
      /\ nameMap' = [m \in DOMAIN nameMap \cup {node.name} |->
                       IF m \in DOMAIN nameMap THEN nameMap[m] ELSE 0]
      /\ \E end \in 0..MaxSize :
           /\ work'.node = Resized(node, end)
           /\ \A k \in 0..(MaxData - 1) :
                BlockSize * k < end /\ FileSize(node) <= BlockSize * k =>
                  \E j \in 1..Len(work'.todo) : work'.todo[j][1] = k
  BY OverwriteIs
<1>2. work.pc = "idle"
  BY DEF Overwrite, Ready
<1>3. node.name = n
  BY <1>1, <1>2, NamesRead
<1> HIDE DEF node
<1>4. work'.node.name = n
  <2>1. PICK end \in 0..MaxSize : work'.node = Resized(node, end)
    BY <1>1
  <2>2. end \in Nat /\ end <= MaxSize
    BY <2>1, MaxSizeIs
  <2>3. QED
    BY <1>1, <1>3, <2>1, <2>2, ResizedIs
<1>5. nameMap' = [m \in DOMAIN nameMap |-> nameMap[m]]
  <2>1. DOMAIN nameMap \cup {node.name} = DOMAIN nameMap
    BY <1>1, <1>3
  <2>2. QED
    BY <1>1, <2>1
<1>6. QED
  BY <1>1, <1>3, <1>4, <1>5

(* The same, of any session, as long as the names are sound.               *)
LEMMA NamedOverwrite ==
  ASSUME TypeInv, NamesSound, status = "up", NEW n \in FileNames, NEW howMany \in Nat,
         NEW start \in Nat, NEW c \in Nat, Overwrite(n, howMany, start, c)
  PROVE  work'.ino = nameMap[n] /\ work'.entry = work'.ino
<1> DEFINE node == BlockAt(imap[nameMap[n]])
<1>1. /\ n \in DOMAIN nameMap /\ work'.ino = nameMap[n]
      /\ work'.entry = IF node.name \in DOMAIN nameMap THEN nameMap[node.name] ELSE 0
  BY OverwriteIs
<1>2. work.pc = "idle"
  BY DEF Overwrite, Ready
<1>3. node.name = n
  BY <1>1, <1>2 DEF NamesSound, Up
<1>4. QED
  BY <1>1, <1>3

(* Every step keeps the imap sound and the command on its file.            *)
LEMMA ImapNext ==
  ASSUME NEW uncleaned \in BOOLEAN, NEW named \in BOOLEAN, TypeInv,
         StartInv(uncleaned), CkptInv(uncleaned),
         WholeInv(uncleaned, named), ImapInv(uncleaned, named), NamesInv(uncleaned),
         named => NamesSound, [Next]_vars
  PROVE  ImapInv(uncleaned, named)'
<1> USE DEF Up, Open, Undisturbed
<1> SUFFICES ASSUME status' \in Open, Undisturbed(mounts', uncleaned, named)
             PROVE  ImapHolds' /\ (work' # Idle => work'.entry = work'.ino)
  BY DEF ImapInv
<1>0. imap \in [Inodes -> Addr] /\ SegmentTyped /\ CleanerTyped /\ mounts \in Nat
  BY DEF TypeInv, SegmentTyped, ControlTyped
<1>1. ASSUME status \in Open, mounts' = mounts
      PROVE  ImapHolds /\ (work # Idle => work.entry = work.ino)
  BY <1>1 DEF ImapInv
(* The imap stays as it is.                                                *)
<1>2. ASSUME status \in Open, mounts' = mounts, Keeps, imap' = imap,
             cl' = cl \/ cl'.pc # "move"
      PROVE  ImapHolds'
  <2>1. Sound(imap, "INODE", cl'.inos, mem', disk', dirty', cl')
    BY <1>0, <1>1, <1>2, SoundKept DEF ImapHolds
  <2>2. QED
    BY <1>2, <2>1 DEF ImapHolds
<1>3. CASE Format
  <2>1. imap' = NoImap /\ work' = Idle
    BY <1>3 DEF Format, StartProcess, StartInv, TypeInv, ControlTyped
  <2>2. QED
    BY <2>1 DEF ImapHolds, Sound, NoImap
<1>4. CASE Mount
  <2>1. /\ mounts' = mounts + 1 /\ ckpt.kind = "full" /\ imap' = SavedImap
        /\ work' = Idle /\ cl'.pc = "off"
    BY <1>4, MountIs
  <2>2. uncleaned /\ named
    BY <1>0, <2>1 DEF StartInv
  <2>3. SavedSound(ckpt, disk) /\ SavedWhole(ckpt, disk)
    BY <2>1, <2>2 DEF CkptInv, WholeInv
  <2>4. ASSUME NEW i \in Inodes, SavedImap[i] # Nil
        PROVE  Holds(SavedImap[i], mem', disk', dirty', "INODE", i)
    <3>1. PICK a \in Addr : a = SavedImap[i] /\ a = SavedAt(ckpt, disk, i)
      BY <2>3, SavedImapAt
    <3>2. Saved(a, ckpt, disk, "INODE", i)
      BY <2>3, <2>4, <3>1 DEF SavedWhole
    <3>3. Placed(a, mem', dirty') /\ CellOf(a, mem', disk') = InFile(a, disk)
      BY <1>4, <3>2, MountReads DEF Saved
    <3>4. QED
      BY <3>1, <3>2, <3>3 DEF Holds, Saved
  <2>5. DOMAIN SavedImap = Inodes
    BY DEF SavedImap
  <2>6. QED
    BY <2>1, <2>4, <2>5 DEF ImapHolds, Sound
<1>5. CASE Command
  <2>1. /\ status = "up" /\ work.pc = "idle" /\ UNCHANGED <<disk, mem, dirty, cl, mounts>>
        /\ Keeps
    <3>1. CASE OutOfInodes
      BY <3>1 DEF OutOfInodes, ProcessEnds
    <3>2. CASE ~OutOfInodes
      BY <1>5, <3>2, SameKeeps DEF Command, Import, Remove, Overwrite, Ready, CountCommand,
         segVars
    <3>3. QED
      BY <3>1, <3>2
  <2>2. CASE \E n \in FileNames, src \in Sources : Import(n, src)
    <3>1. imap' = imap /\ work'.entry = work'.ino
      BY <2>2, ImportIs DEF Import, segVars
    <3>2. QED
      BY <1>2, <2>1, <3>1
  <2>3. CASE \E n \in FileNames : Remove(n)
    <3>1. PICK n \in FileNames : Remove(n)
      BY <2>3
    <3> DEFINE i == nameMap[n]
    <3>2. /\ i \in Inodes /\ imap' = [imap EXCEPT ![i] = Nil] /\ work'.entry = work'.ino
      BY <3>1, RemoveIs
    <3> HIDE DEF i
    <3>3. Dropped(imap', imap, i) /\ ImapHolds
      BY <1>1, <2>1, <3>2 DEF Dropped
    <3>4. Sound(imap', "INODE", cl.inos, mem, disk, dirty, cl)
      BY <1>0, <3>2, <3>3, SoundUnset DEF ImapHolds
    <3>5. QED
      BY <2>1, <3>2, <3>4 DEF ImapHolds
  <2>4. CASE \E n \in FileNames, o \in Overwrites : Overwrite(n, o[1], o[2], o[3])
    <3>1. PICK n \in FileNames, o \in Overwrites : Overwrite(n, o[1], o[2], o[3])
      BY <2>4
    <3>2. o[1] \in Nat /\ o[2] \in Nat /\ o[3] \in Nat
      BY CommandAssumption
    <3>3. imap' = imap
      BY <3>1 DEF Overwrite, segVars
    <3>4. work'.entry = work'.ino
      <4>1. CASE named
        BY <2>1, <3>1, <3>2, <4>1, NamedOverwrite
      <4>2. CASE ~named
        <5>1. uncleaned /\ mounts <= 1
          BY <2>1, <4>2
        <5>2. QED
          BY <2>1, <3>1, <3>2, <5>1, OverwriteFinds
      <4>3. QED
        BY <4>1, <4>2
    <3>5. QED
      BY <1>2, <2>1, <3>3, <3>4
  <2>5. CASE OutOfInodes
    BY <2>5 DEF OutOfInodes, ProcessEnds
  <2>6. QED
    BY <1>5, <2>2, <2>3, <2>4, <2>5 DEF Command
<1>6. CASE ReadLast
  <2>1. status = "up" /\ work # Idle /\ work'.entry = work.entry /\ work'.ino = work.ino
    BY <1>6, ReadLastIs, IdleIs DEF WorkFields
  <2>2. UNCHANGED <<imap, mounts, cl>> /\ Keeps
    BY <1>6, SameKeeps DEF ReadLast, segVars, bounds
  <2>3. QED
    BY <1>1, <1>2, <2>1, <2>2
<1>7. CASE WriteData
  <2>1. /\ status = "up" /\ work # Idle /\ work'.entry = work.entry /\ work'.ino = work.ino
        /\ \E c \in Cells : Put(c)
    BY <1>7, WriteDataIs, IdleIs DEF WorkFields
  <2>2. Keeps /\ UNCHANGED <<imap, mounts, cl>>
    BY <1>0, <1>7, <2>1, PutKeeps DEF WriteData, bounds
  <2>3. QED
    BY <1>1, <1>2, <2>1, <2>2
<1>8. CASE WriteInode
  <2> DEFINE i == work.entry
             c == Cell("INODE", work.ino, 0, work.node)
  <2>1. /\ status = "up" /\ cl.pc = "off" /\ Busy(work) /\ work # Idle
        /\ c \in Cells /\ Put(c)
        /\ imap' = [imap EXCEPT ![i] = Here]
        /\ work'.entry = i /\ work'.ino = work.ino
    BY <1>8, WriteInodeIs, IdleIs DEF WorkFields
  <2>2. i \in Inodes /\ c.type = "INODE" /\ c.id = work.ino
    BY <2>1 DEF Busy, Cell
  <2> HIDE DEF c
  <2>3. cl' = cl /\ mounts' = mounts
    BY <1>8 DEF WriteInode, bounds
  <2>4. ImapHolds /\ i = work.ino
    BY <1>1, <2>1, <2>3
  <2> HIDE DEF i
  <2>5. Written(c, "INODE", i) /\ StaysBut(i, cl.inos, cl'.inos) /\ Entered(imap', imap, i)
    BY <2>1, <2>2, <2>3, <2>4 DEF Written, StaysBut, Entered
  <2>6. Sound(imap', "INODE", cl'.inos, mem', disk', dirty', cl')
    BY <1>0, <2>2, <2>4, <2>5, SoundSet DEF ImapHolds
  <2>7. QED
    BY <2>1, <2>4, <2>6 DEF ImapHolds
<1>9. CASE WriteImapChunk
  <2>1. status = "up" /\ work' = Idle /\ \E c \in Cells : Put(c)
    BY <1>9, WriteImapChunkIs
  <2>2. Keeps /\ UNCHANGED <<imap, mounts, cl>>
    BY <1>0, <1>9, <2>1, PutKeeps DEF WriteImapChunk, bounds
  <2>3. QED
    BY <1>2, <2>1, <2>2
<1>10. CASE TurnSegment
  <2>1. status = "up" /\ Turn /\ UNCHANGED <<imap, mounts>> /\ cl'.pc # "move" /\ work # Idle
    BY <1>10, TurnSegmentIs DEF TurnSegment, TurnAndClean, Turn, bounds
  <2>2. Keeps
    BY <1>0, <2>1, TurnKeeps
  <2>3. work'.entry = work.entry /\ work'.ino = work.ino
    BY <1>10, TurnSegmentIs DEF WorkFields
  <2>4. QED
    BY <1>1, <1>2, <2>1, <2>2, <2>3
<1>11. CASE Cleaning
  <2>1. status = "up" /\ CleanStep /\ mounts' = mounts /\ work' = work
    BY <1>11 DEF Cleaning, bounds, driveVars
  <2>2. QED
    BY <1>0, <1>1, <2>1, CleanSound
<1>12. CASE Stopped \/ UNCHANGED vars
  <2>1. UNCHANGED <<disk, mem, dirty, imap, cl, work, status, mounts>>
    BY <1>12 DEF Stopped, vars, segVars, driveVars, bounds
  <2>2. Keeps
    BY <2>1, SameKeeps
  <2>3. QED
    BY <1>1, <1>2, <2>1, <2>2
<1>13. CASE RefuseMount \/ Overrun \/ Spin \/ FlushLast \/ WriteCheckpoint \/ Crash
  BY <1>13 DEF RefuseMount, Overrun, Spin, FlushLast, WriteCheckpoint, Crash, ProcessEnds
<1>14. CASE BeginShutdown \/ TruncateCheckpoint \/ WriteNames
  <2>1. status \in Open /\ UNCHANGED <<disk, mem, dirty, imap, cl, work, mounts>>
    BY <1>14 DEF BeginShutdown, TruncateCheckpoint, WriteNames, segVars, bounds
  <2>2. Keeps
    BY <2>1, SameKeeps
  <2>3. QED
    BY <1>1, <1>2, <2>1, <2>2
<1>15. QED
  BY <1>3, <1>4, <1>5, <1>6, <1>7, <1>8, <1>9, <1>10, <1>11, <1>12, <1>13, <1>14
  DEF Next, WorkStep, Shutdown

(* Every step keeps names and inodes together.                             *)
LEMMA NamesNext ==
  ASSUME NEW uncleaned \in BOOLEAN, NEW named \in BOOLEAN, TypeInv, StartInv(uncleaned),
         ImapInv(uncleaned, named),
         NamesInv(uncleaned), [Next]_vars
  PROVE  NamesInv(uncleaned)'
<1> USE DEF Up
<1> SUFFICES ASSUME status' = "up", mounts' <= 1, uncleaned
             PROVE  \A n \in DOMAIN nameMap' :
                      NameHolds(nameMap', n, imap', work', mem', disk')
  BY DEF NamesInv
<1>0. /\ imap \in [Inodes -> Addr] /\ SegmentTyped /\ mounts \in Nat
      /\ \A n \in DOMAIN nameMap : nameMap[n] \in Inodes
  BY DEF TypeInv, SegmentTyped, ControlTyped, FilesTyped, NameMaps
<1>1. ASSUME status = "up", mounts' = mounts
      PROVE  /\ ImapHolds
             /\ \A n \in DOMAIN nameMap : NameHolds(nameMap, n, imap, work, mem, disk)
  BY <1>1 DEF ImapInv, NamesInv, Undisturbed, Open
(* What a name leads to and the command does not make stays.               *)
<1>2. ASSUME status = "up", mounts' = mounts, Keeps, NEW n \in DOMAIN nameMap,
             imap[nameMap[n]] # Nil, CellOf(imap[nameMap[n]], mem, disk).block.name = n,
             imap'[nameMap[n]] = imap[nameMap[n]]
      PROVE  /\ imap'[nameMap[n]] # Nil
             /\ CellOf(imap'[nameMap[n]], mem', disk').block.name = n
  <2>1. imap[nameMap[n]] \in Addr /\ Placed(imap[nameMap[n]], mem, dirty)
    BY <1>0, <1>1, <1>2 DEF ImapHolds, Sound, Holds
  <2>2. CellOf(imap[nameMap[n]], mem', disk') = CellOf(imap[nameMap[n]], mem, disk)
    BY <1>2, <2>1 DEF Keeps
  <2>3. QED
    BY <1>2, <2>2
(* The imap and the names stay, and what the command makes.                *)
<1>3. ASSUME status = "up", mounts' = mounts, Keeps, UNCHANGED <<imap, nameMap>>,
             \/ ~Making(work) /\ ~Making(work')
             \/ Making(work) /\ Making(work') /\ work'.ino = work.ino
                /\ work'.node.name = work.node.name
      PROVE  \A n \in DOMAIN nameMap' : NameHolds(nameMap', n, imap', work', mem', disk')
  <2>1. ASSUME NEW n \in DOMAIN nameMap
        PROVE  NameHolds(nameMap', n, imap', work', mem', disk')
    <3>1. NameHolds(nameMap, n, imap, work, mem, disk)
      BY <1>1, <1>3
    <3>2. CASE Making(work) /\ work.ino = nameMap[n]
      BY <1>3, <3>1, <3>2 DEF NameHolds
    <3>3. CASE ~(Making(work) /\ work.ino = nameMap[n])
      <4>1. imap[nameMap[n]] # Nil /\ CellOf(imap[nameMap[n]], mem, disk).block.name = n
        BY <3>1, <3>3 DEF NameHolds
      <4>2. ~(Making(work') /\ work'.ino = nameMap'[n])
        BY <1>3, <3>3
      <4>3. QED
        BY <1>2, <1>3, <4>1, <4>2 DEF NameHolds
    <3>4. QED
      BY <3>2, <3>3
  <2>2. QED
    BY <1>3, <2>1
<1>4. CASE Format
  <2>1. nameMap' = << >>
    BY <1>4 DEF Format, StartProcess, StartInv
  <2>2. QED
    BY <2>1
<1>5. CASE Mount
  <2>1. mounts' = mounts + 1 /\ ckpt.kind = "full"
    BY <1>5, MountIs
  <2>2. QED
    BY <1>0, <2>1 DEF StartInv
<1>6. CASE Command
  <2>1. /\ status = "up" /\ work.pc = "idle" /\ UNCHANGED <<disk, mem, dirty, mounts>>
        /\ Keeps /\ ~Making(work)
    <3>1. CASE OutOfInodes
      BY <3>1 DEF OutOfInodes, ProcessEnds
    <3>2. CASE ~OutOfInodes
      BY <1>6, <3>2, SameKeeps DEF Command, Import, Remove, Overwrite, Ready, CountCommand,
         segVars, Making
    <3>3. QED
      BY <3>1, <3>2
  <2>2. ASSUME NEW n \in DOMAIN nameMap
        PROVE  imap[nameMap[n]] # Nil /\ CellOf(imap[nameMap[n]], mem, disk).block.name = n
    BY <1>1, <2>1, <2>2 DEF NameHolds
  <2>3. CASE \E n \in FileNames, src \in Sources : Import(n, src)
    <3>1. PICK n \in FileNames, src \in Sources : Import(n, src)
      BY <2>3
    <3> DEFINE i == Least(FreeInodes)
    <3>2. /\ imap[i] = Nil /\ work'.pc = "data" /\ work'.ino = i
          /\ work'.node = NewNode(n, src) /\ n \in Names /\ src \in Seq(Nat)
          /\ nameMap' = [m \in DOMAIN nameMap \cup {n} |-> IF m = n THEN i ELSE nameMap[m]]
      BY <3>1, ImportIs
    <3>3. imap' = imap
      BY <3>1 DEF Import, segVars
    <3> HIDE DEF i
    <3>4. Making(work') /\ work'.node.name = n
      BY <3>2, NewNodeIs DEF Making
    <3>5. ASSUME NEW m \in DOMAIN nameMap'
          PROVE  NameHolds(nameMap', m, imap', work', mem', disk')
      <4>1. CASE m = n
        BY <3>2, <3>4, <4>1 DEF NameHolds
      <4>2. CASE m # n
        <5>1. m \in DOMAIN nameMap /\ nameMap'[m] = nameMap[m]
          BY <3>2, <4>2
        <5>2. imap[nameMap[m]] # Nil /\ CellOf(imap[nameMap[m]], mem, disk).block.name = m
          BY <2>2, <5>1
        <5>3. nameMap[m] # i
          BY <3>2, <5>2
        <5>4. QED
          BY <2>1, <3>2, <3>3, <5>1, <5>2, <5>3 DEF NameHolds
      <4>3. QED
        BY <4>1, <4>2
    <3>6. QED
      BY <3>5
  <2>4. CASE \E n \in FileNames : Remove(n)
    <3>1. PICK n \in FileNames : Remove(n)
      BY <2>4
    <3> DEFINE i == nameMap[n]
    <3>2. /\ n \in DOMAIN nameMap /\ i \in Inodes
          /\ nameMap' = [m \in DOMAIN nameMap \ {n} |-> nameMap[m]]
          /\ imap' = [imap EXCEPT ![i] = Nil] /\ work'.pc = "chunk"
      BY <3>1, RemoveIs
    <3>3. CellOf(imap[i], mem, disk).block.name = n
      BY <2>2, <3>2
    <3> HIDE DEF i
    <3>4. ASSUME NEW m \in DOMAIN nameMap'
          PROVE  NameHolds(nameMap', m, imap', work', mem', disk')
      <4>1. m \in DOMAIN nameMap /\ m # n /\ nameMap'[m] = nameMap[m]
        BY <3>2
      <4>2. imap[nameMap[m]] # Nil /\ CellOf(imap[nameMap[m]], mem, disk).block.name = m
        BY <2>2, <4>1
      <4>3. nameMap[m] # i
        BY <3>3, <4>1, <4>2
      <4>4. imap'[nameMap[m]] = imap[nameMap[m]]
        BY <1>0, <3>2, <4>1, <4>3
      <4>5. QED
        BY <2>1, <3>2, <4>1, <4>2, <4>4 DEF NameHolds, Making
    <3>5. QED
      BY <3>4
  <2>5. CASE \E n \in FileNames, o \in Overwrites : Overwrite(n, o[1], o[2], o[3])
    <3>1. PICK n \in FileNames, o \in Overwrites : Overwrite(n, o[1], o[2], o[3])
      BY <2>5
    <3>2. o[1] \in Nat /\ o[2] \in Nat /\ o[3] \in Nat
      BY CommandAssumption
    <3>3. /\ n \in DOMAIN nameMap /\ work'.ino = nameMap[n] /\ work'.pc = "data"
          /\ work'.node.name = n /\ DOMAIN nameMap' = DOMAIN nameMap
          /\ \A m \in DOMAIN nameMap : nameMap'[m] = nameMap[m]
      BY <2>1, <3>1, <3>2, OverwriteFinds
    <3>4. imap' = imap
      BY <3>1 DEF Overwrite, segVars
    <3>5. ASSUME NEW m \in DOMAIN nameMap
          PROVE  NameHolds(nameMap', m, imap', work', mem', disk')
      <4>1. nameMap'[m] = nameMap[m]
        BY <3>3
      <4>2. /\ imap[nameMap[m]] # Nil /\ CellOf(imap[nameMap[m]], mem, disk).block.name = m
            /\ CellOf(imap[nameMap[n]], mem, disk).block.name = n
        BY <2>2, <3>3
      <4>3. nameMap[m] = nameMap[n] => m = n
        BY <4>2
      <4>4. QED
        BY <2>1, <3>3, <3>4, <4>1, <4>2, <4>3 DEF NameHolds, Making
    <3>6. QED
      BY <3>3, <3>5
  <2>6. CASE OutOfInodes
    BY <2>6 DEF OutOfInodes, ProcessEnds
  <2>7. QED
    BY <1>6, <2>3, <2>4, <2>5, <2>6 DEF Command
<1>7. CASE ReadLast
  <2>1. /\ status = "up" /\ Making(work) /\ Making(work') /\ work'.ino = work.ino
        /\ work'.node = work.node
    BY <1>7, ReadLastIs DEF WorkFields, Making
  <2>2. UNCHANGED <<imap, mounts, nameMap>> /\ Keeps
    BY <1>7, SameKeeps DEF ReadLast, segVars, bounds
  <2>3. QED
    BY <1>3, <2>1, <2>2
<1>8. CASE WriteData
  <2> DEFINE k == Head(work.todo)[1]
  <2>1. /\ status = "up" /\ work.pc = "data" /\ Busy(work) /\ k \in 0..(MaxData - 1)
        /\ work'.ino = work.ino /\ work'.pc \in {"data", "inode"}
        /\ work'.node = [work.node EXCEPT !.ptrs[k] = Here]
        /\ \E c \in Cells : Put(c)
    BY <1>8, WriteDataIs DEF WorkFields
  <2> HIDE DEF k
  <2>2. work'.node.name = work.node.name
    BY <2>1, BlockFields DEF Busy
  <2>3. Keeps /\ UNCHANGED <<imap, mounts, nameMap>>
    BY <1>0, <1>8, <2>1, PutKeeps DEF WriteData, bounds
  <2>4. QED
    BY <1>3, <2>1, <2>2, <2>3 DEF Making
<1>9. CASE WriteInode
  <2> DEFINE i == work.entry
             c == Cell("INODE", work.ino, 0, work.node)
  <2>1. /\ status = "up" /\ work.pc = "inode" /\ Busy(work) /\ work # Idle
        /\ c \in Cells /\ Put(c)
        /\ imap' = [imap EXCEPT ![i] = Here] /\ work'.pc = "chunk"
    BY <1>9, WriteInodeIs, IdleIs
  <2>2. i \in Inodes /\ c.block = work.node
    BY <2>1 DEF Busy, Cell
  <2> HIDE DEF c
  <2>3. UNCHANGED <<mounts, nameMap>>
    BY <1>9 DEF WriteInode, bounds
  <2>4. i = work.ino
    BY <2>1, <2>3 DEF ImapInv, Undisturbed, Open
  <2> HIDE DEF i
  <2>5. Keeps /\ Here # Nil /\ CellOf(Here, mem', disk') = c
    BY <1>0, <2>1, PutKeeps
  <2>6. ASSUME NEW n \in DOMAIN nameMap
        PROVE  NameHolds(nameMap', n, imap', work', mem', disk')
    <3>1. NameHolds(nameMap, n, imap, work, mem, disk)
      BY <1>1, <2>1, <2>3
    <3>2. CASE nameMap[n] = i
      <4>1. work.node.name = n
        BY <2>1, <2>4, <3>1, <3>2 DEF NameHolds, Making
      <4>2. imap'[nameMap[n]] = Here
        BY <1>0, <2>1, <2>2, <3>2
      <4>3. QED
        BY <2>1, <2>2, <2>3, <2>5, <4>1, <4>2 DEF NameHolds, Making
    <3>3. CASE nameMap[n] # i
      <4>1. imap[nameMap[n]] # Nil /\ CellOf(imap[nameMap[n]], mem, disk).block.name = n
        BY <2>4, <3>1, <3>3 DEF NameHolds
      <4>2. imap'[nameMap[n]] = imap[nameMap[n]]
        BY <1>0, <2>1, <3>3
      <4>3. QED
        BY <1>2, <2>1, <2>3, <2>5, <4>1, <4>2 DEF NameHolds, Making
    <3>4. QED
      BY <3>2, <3>3
  <2>7. QED
    BY <2>3, <2>6
<1>10. CASE WriteImapChunk
  <2>1. status = "up" /\ work.pc = "chunk" /\ work' = Idle /\ \E c \in Cells : Put(c)
    BY <1>10, WriteImapChunkIs
  <2>2. Keeps /\ UNCHANGED <<imap, mounts, nameMap>>
    BY <1>0, <1>10, <2>1, PutKeeps DEF WriteImapChunk, bounds
  <2>3. QED
    BY <1>3, <2>1, <2>2, IdleIs DEF Making
<1>11. CASE TurnSegment
  <2>1. status = "up" /\ Turn /\ UNCHANGED <<imap, mounts, nameMap>>
    BY <1>11, TurnSegmentIs DEF TurnSegment, TurnAndClean, Turn, bounds
  <2>2. Keeps
    BY <1>0, <2>1, TurnKeeps
  <2>3. work'.pc = work.pc /\ work'.ino = work.ino /\ work'.node = work.node
    BY <1>11, TurnSegmentIs DEF WorkFields
  <2>4. QED
    BY <1>3, <2>1, <2>2, <2>3 DEF Making
<1>12. CASE Cleaning
  BY <1>12 DEF StartInv, Cleaning, CleanStep, ScanSegment, MoveData, MoveInode, MoveChunk,
     CleanTurn, Release, CleanEnds, Moving
<1>13. CASE Stopped \/ UNCHANGED vars
  <2>1. UNCHANGED <<disk, mem, dirty, imap, nameMap, work, status, mounts>>
    BY <1>13 DEF Stopped, vars, segVars, driveVars, bounds
  <2>2. Keeps
    BY <2>1, SameKeeps
  <2>3. QED
    BY <1>3, <2>1, <2>2
<1>14. CASE RefuseMount \/ Overrun \/ Spin \/ Shutdown \/ Crash
  BY <1>14 DEF RefuseMount, Overrun, Spin, Shutdown, BeginShutdown, TruncateCheckpoint,
     WriteNames, FlushLast, WriteCheckpoint, Crash, ProcessEnds
<1>15. QED
  BY <1>4, <1>5, <1>6, <1>7, <1>8, <1>9, <1>10, <1>11, <1>12, <1>13, <1>14 DEF Next, WorkStep

-----------------------------------------------------------------------------
(* Together they are inductive.                                            *)
DriveInv(uncleaned, named) ==
  /\ TypeInv /\ StartInv(uncleaned) /\ PlaceInv
  /\ ChunkInv(uncleaned) /\ FlushedInv(uncleaned) /\ CkptInv(uncleaned)
  /\ KeptInv(uncleaned) /\ CurrentInv(uncleaned)
  /\ ImapInv(uncleaned, named) /\ WholeInv(uncleaned, named) /\ NamesInv(uncleaned)

(* Before the first process there is nothing on the drive.                 *)
LEMMA DriveInit ==
  ASSUME NEW uncleaned \in BOOLEAN, NEW named \in BOOLEAN, Init
  PROVE  DriveInv(uncleaned, named)
<1>1. TypeInv
  BY InitTyped
<1>2. /\ status = "down" /\ ckpt.kind = "none" /\ mounts = 0 /\ cl.pc = "off"
      /\ mem = MemoryAt(FirstAddr, Blank) /\ dirty = {} /\ leaveOff = FirstAddr
      /\ imap = NoImap /\ cr = NoCr /\ nameMap = << >>
  BY OffIs, EmptyIs DEF Init
<1>3. StartInv(uncleaned) /\ PlaceInv
  BY <1>2 DEF StartInv, PlaceInv
<1>4. ChunkInv(uncleaned) /\ FlushedInv(uncleaned) /\ CkptInv(uncleaned)
  BY <1>2 DEF ChunkInv, FlushedInv, CkptInv, Open
<1>5. KeptInv(uncleaned) /\ CurrentInv(uncleaned)
  BY <1>2 DEF KeptInv, CurrentInv, Open, Up
<1>6. ImapInv(uncleaned, named) /\ WholeInv(uncleaned, named) /\ NamesInv(uncleaned)
  BY <1>2 DEF ImapInv, WholeInv, NamesInv, Open
<1>7. QED
  BY <1>1, <1>3, <1>4, <1>5, <1>6 DEF DriveInv

(* Every step keeps them.                                                  *)
LEMMA DriveStep ==
  ASSUME NEW uncleaned \in BOOLEAN, NEW named \in BOOLEAN, DriveInv(uncleaned, named),
         [Next]_vars, uncleaned => NotCleaning', named => NamesSound
  PROVE  DriveInv(uncleaned, named)'
<1> USE DEF DriveInv
<1>1. TypeInv'
  BY NextTyped
<1>2. StartInv(uncleaned)'
  BY StartNext
<1>3. PlaceInv'
  BY PlaceNext
<1>4. ChunkInv(uncleaned)'
  BY ChunkNext
<1>5. FlushedInv(uncleaned)'
  BY FlushedNext
<1>6. CkptInv(uncleaned)'
  BY CkptNext
<1>7. KeptInv(uncleaned)'
  BY KeptNext
<1>8. CurrentInv(uncleaned)'
  BY CurrentNext
<1>9. ImapInv(uncleaned, named)'
  BY ImapNext
<1>10. WholeInv(uncleaned, named)'
  BY WholeNext
<1>11. NamesInv(uncleaned)'
  BY NamesNext
<1>12. QED
  BY <1>1, <1>2, <1>3, <1>4, <1>5, <1>6, <1>7, <1>8, <1>9, <1>10, <1>11

(* The invariant of every behaviour.                                       *)
LEMMA DriveInvariant == Spec => []DriveInv(FALSE, FALSE)
<1>1. Init => DriveInv(FALSE, FALSE)
  BY DriveInit
<1>2. DriveInv(FALSE, FALSE) /\ [Next]_vars => DriveInv(FALSE, FALSE)'
  BY DriveStep
<1>3. QED
  BY <1>1, <1>2, PTL DEF Spec

(* The invariant of a drive that has not been cleaned.                     *)
LEMMA UncleanedInvariant == Spec /\ []NotCleaning => []DriveInv(TRUE, FALSE)
<1>1. Init => DriveInv(TRUE, FALSE)
  BY DriveInit
<1>2. DriveInv(TRUE, FALSE) /\ NotCleaning' /\ [Next]_vars => DriveInv(TRUE, FALSE)'
  BY DriveStep
<1>3. QED
  BY <1>1, <1>2, PTL DEF Spec

(* The invariant of a drive whose names lead to their files.               *)
LEMMA NamedInvariant == Spec /\ []NamesSound => []DriveInv(FALSE, TRUE)
<1>1. Init => DriveInv(FALSE, TRUE)
  BY DriveInit
<1>2. DriveInv(FALSE, TRUE) /\ NamesSound /\ [Next]_vars => DriveInv(FALSE, TRUE)'
  BY DriveStep
<1>3. QED
  BY <1>1, <1>2, PTL DEF Spec

(* The invariant of a drive of both kinds.                                 *)
LEMMA OrderlyInvariant ==
  Spec /\ []NotCleaning /\ []NamesSound => []DriveInv(TRUE, TRUE)
<1>1. Init => DriveInv(TRUE, TRUE)
  BY DriveInit
<1>2. DriveInv(TRUE, TRUE) /\ NotCleaning' /\ NamesSound /\ [Next]_vars =>
        DriveInv(TRUE, TRUE)'
  BY DriveStep
<1>3. QED
  BY <1>1, <1>2, PTL DEF Spec

(* A drive that is never short of segments is one that is never cleaned.   *)
LEMMA NeverShort ==
  ASSUME CleanBelow = 0
  PROVE  Spec => []NotCleaning
<1>1. Init => NotCleaning
  BY OffIs DEF Init, NotCleaning
<1>2. TypeInv /\ NotCleaning /\ [Next]_vars => NotCleaning'
  BY StepOff DEF NotCleaning
<1>3. QED
  BY <1>1, <1>2, TypeInvariant, PTL DEF Spec

(* A sound map leads where the runs' properties say.                       *)
LEMMA ChunksMean ==
  ASSUME TypeInv, CrHolds
  PROVE  ChunksSound
<1> SUFFICES ASSUME NEW c \in Chunks, cr[c] # Nil
             PROVE  /\ cr[c][2] \in Slots
                    /\ CellAt(cr[c]).type = "IMAP_CHUNK" /\ CellAt(cr[c]).id = c
                    /\ cr[c][1] \in dirty
  BY DEF ChunksSound
<1>1. DOMAIN cr = Chunks
  BY DEF TypeInv, SegmentTyped
<1>2. QED
  BY <1>1 DEF CrHolds, Sound, Holds, Placed, CellOf, CellAt

(* The same for the imap.                                                  *)
LEMMA ImapMeans ==
  ASSUME TypeInv, ImapHolds
  PROVE  ImapSound
<1> SUFFICES ASSUME NEW i \in Inodes, imap[i] # Nil
             PROVE  /\ imap[i][2] \in Slots
                    /\ CellAt(imap[i]).type = "INODE" /\ CellAt(imap[i]).id = i
                    /\ imap[i][1] \in dirty
  BY DEF ImapSound
<1>1. DOMAIN imap = Inodes
  BY DEF TypeInv, SegmentTyped
<1>2. QED
  BY <1>1 DEF ImapHolds, Sound, Holds, Placed, CellOf, CellAt

-----------------------------------------------------------------------------
(* The checkpoint region is never wrong about a chunk of the imap, through *)
(* turns, cleaning, shutdowns and crashes, until the drive is mounted for  *)
(* the second time after it was made.  (No segment of the checkpoint is    *)
(* kept from the cleaner: after a crash a mount may read a chunk that was  *)
(* moved.)                                                                 *)
THEOREM ChunksAreSound == Spec => [](mounts <= 2 => ChunksSound)
<1>1. DriveInv(FALSE, FALSE) => (mounts <= 2 => ChunksSound)
  BY ChunksMean DEF DriveInv, ChunkInv, Open, ChunksSound, Up
<1>2. QED
  BY <1>1, DriveInvariant, PTL

(* On a drive that is never cleaned it is never wrong at all, however      *)
(* often the drive is shut down, crashes and is mounted.                   *)
THEOREM UncleanedChunksAreSound == Spec /\ []NotCleaning => []ChunksSound
<1>1. DriveInv(TRUE, FALSE) => ChunksSound
  BY ChunksMean DEF DriveInv, ChunkInv, Open, ChunksSound, Up
<1>2. QED
  BY <1>1, UncleanedInvariant, PTL

(* On a drive that is never cleaned, the checkpoint that a shutdown        *)
(* between commands would write gives back the imap as it is, through any  *)
(* number of crashes and mounts: write_imap_chunk writes what the command  *)
(* has changed.  (Cleaning may move the chunk that write_imap_chunk has    *)
(* copied before it took its turn.)                                        *)
THEOREM CheckpointIsCurrent == Spec /\ []NotCleaning => []CheckpointCurrent
<1>1. DriveInv(TRUE, FALSE) => CheckpointCurrent
  <2> SUFFICES ASSUME DriveInv(TRUE, FALSE), Up, work.pc = "idle", NEW c \in Chunks
               PROVE  GetChunk(imap, c) = IF cr[c] = Nil THEN NoChunk ELSE BlockAt(cr[c]).chunk
    BY DEF CheckpointCurrent
  <2>1. Recorded(imap, cr, c, mem, disk)
    BY DEF DriveInv, CurrentInv, AtHand, Open, Up
  <2>2. CrHolds /\ DOMAIN cr = Chunks
    BY DEF DriveInv, ChunkInv, Open, Up, TypeInv, SegmentTyped
  <2>3. cr[c] # Nil => BlockAt(cr[c]) = CellOf(cr[c], mem, disk).block
    BY <2>2, ReadPlaced DEF CrHolds, Sound, Holds
  <2>4. QED
    BY <2>1, <2>3 DEF Recorded
<1>2. QED
  BY <1>1, UncleanedInvariant, PTL

(* The imap is never wrong about an inode in the first session of a drive  *)
(* that is never cleaned, whatever is imported over, removed and           *)
(* overwritten.                                                            *)
THEOREM ImapIsSound == Spec /\ []NotCleaning => [](mounts <= 1 => ImapSound)
<1>1. DriveInv(TRUE, FALSE) => (mounts <= 1 => ImapSound)
  BY ImapMeans DEF DriveInv, ImapInv, Undisturbed, Open, ImapSound, Up
<1>2. QED
  BY <1>1, UncleanedInvariant, PTL

(* The cleaner leaves the imap sound too: in the first session, with any   *)
(* commands and any number of passes, as long as the names lead to their   *)
(* files.  (overwrite enters the inode under the name that it finds in     *)
(* it, and the cleaner may take an inode from a segment file that the      *)
(* segment in memory has outdated, under an old name.)                     *)
THEOREM CleanedImapIsSound == Spec /\ []NamesSound => [](mounts <= 1 => ImapSound)
<1>1. DriveInv(FALSE, TRUE) => (mounts <= 1 => ImapSound)
  BY ImapMeans DEF DriveInv, ImapInv, Undisturbed, Open, ImapSound, Up
<1>2. QED
  BY <1>1, NamedInvariant, PTL

(* So it is through any number of shutdowns, crashes and mounts on a drive *)
(* that is never cleaned, as long as the names lead to their files.  (A    *)
(* mount may know a file by another name than its inode does.)             *)
THEOREM NamedImapIsSound == Spec /\ []NotCleaning /\ []NamesSound => []ImapSound
<1>1. DriveInv(TRUE, TRUE) => ImapSound
  BY ImapMeans DEF DriveInv, ImapInv, Undisturbed, Open, ImapSound, Up
<1>2. QED
  BY <1>1, OrderlyInvariant, PTL

(* Until the drive is cleaned or mounted again, the name of a file is the  *)
(* way to its own file, whatever was imported over, removed and            *)
(* overwritten.  (After a mount the name map may hold what NAME_MAP gave   *)
(* it amiss.)                                                              *)
THEOREM NamesAreSound == Spec /\ []NotCleaning => [](mounts <= 1 => NamesSound)
<1>1. DriveInv(TRUE, FALSE) => (mounts <= 1 => NamesSound)
  BY NamesRead DEF DriveInv, NamesSound, Up
<1>2. QED
  BY <1>1, UncleanedInvariant, PTL

=============================================================================
