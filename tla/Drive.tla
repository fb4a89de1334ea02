-------------------------------- MODULE Drive --------------------------------
(***************************************************************************)
(* Prog5: the drive (Drive.cpp), its commands, its mount and its shutdown, *)
(* above the segments of module Segment.  One thread does it all: a        *)
(* command is begun, writes its blocks one by one, with the turns and the  *)
(* cleaning they cause, and ends; the process may die between two steps.   *)
(***************************************************************************)
EXTENDS Segment, NameMap

CONSTANTS
  FileNames,    \* the names commands are given
  Sources,      \* the contents of the files that are imported
  Overwrites,   \* <<how many, start, c>> that overwrite is given
  MaxCommands, MaxMounts, MaxCrashes  \* bounds

(* Names and contents are strings and bytes as they come; any word of      *)
(* NAME_MAP may be read as a name, a number too.                           *)
ASSUME CommandAssumption ==
  /\ FileNames \subseteq Names
  /\ "" \in Names /\ Numerals \in Seq(Names) /\ Len(Numerals) = NumFiles
  /\ Sources \subseteq Seq(Nat)
  /\ Overwrites \subseteq Nat \X Nat \X Nat
  /\ {MaxCommands, MaxMounts, MaxCrashes} \subseteq Nat

VARIABLES
  nameMap,      \* name_map
  nameFile,     \* the file NAME_MAP
  ckpt,         \* the file CHECKPOINT_REGION
  status,       \* what the process is doing
  work,         \* the command being carried out
  commands, mounts, crashes   \* how many there have been

driveVars == <<nameMap, nameFile, ckpt, status, work>>
bounds    == <<commands, mounts, crashes>>
vars      == <<segVars, driveVars, bounds>>

Up == status = "up"

-----------------------------------------------------------------------------
(* Files *)

MaxSize == MaxData * BlockSize
FileSize(node) == node.complete * BlockSize + node.incomplete
SmallerOf(m, n) == IF m <= n THEN m ELSE n

(* live asks for the segment in memory too, otherwise only the segment     *)
(* files count.                                                            *)
BlockSeen(a, live) == IF live THEN BlockAt(a) ELSE DiskBlock(a)

(* Mutant of LastBlock: the block of the last byte. *)
LastBlockShort(start, many) == (start + many - 1) \div BlockSize

LastBlock(start, many) == (start + many) \div BlockSize

(* display: whole blocks from that of start on, and a part of the last one,*)
(* of which nothing is left when it lies behind the last pointer.          *)
Shown(node, start, howMany, live) ==
  LET many  == SmallerOf(howMany, FileSize(node) - start)
      first == start \div BlockSize
      size  == (LastBlock(start, many) - first) * BlockSize + (many % BlockSize)
  IN IF start > FileSize(node) THEN << >>
     ELSE [k \in 1..size |->
             BlockSeen(node.ptrs[first + ((k - 1) \div BlockSize)], live)
               .bytes[((k - 1) % BlockSize) + 1]]

(* cat *)
Bytes(node, live) == Shown(node, 0, NumFiles * BlockSize, live)

(* What cat shows of the files of a name map and an imap. *)
Contents(nm, im, live) ==
  [n \in DOMAIN nm \cap FileNames |-> Bytes(BlockSeen(im[nm[n]], live), live)]

(* write_file reads blocks until a read comes short, or MaxData of them,   *)
(* filling the last up with zeros; the sizes are those its loop leaves.    *)
BlocksRead(src) == SmallerOf(MaxData, Len(src) \div BlockSize + 1)

SourceBlock(src, b) ==
  [k \in 1..BlockSize |->
     IF b * BlockSize + k <= Len(src) THEN src[b * BlockSize + k] ELSE 0]

NewNode(name, src) ==
  LET n == BlocksRead(src)
      short == IF Len(src) >= MaxSize THEN 0 ELSE Len(src) % BlockSize
  IN [ZeroBlock EXCEPT !.name = name, !.incomplete = short,
        !.complete = IF short = 0 THEN n ELSE n - 1]

(* next_available_inode *)
FreeInodes == {i \in Inodes : imap[i] = Nil}

-----------------------------------------------------------------------------
(* Commands.  work.todo lists the data blocks still to be written as their *)
(* index in the file and their bytes, or Unread for overwrite's last one,  *)
(* which is read when its turn comes; work.turned is set between a turn    *)
(* and the write that caused it; work.chunk is the copy of the chunk that  *)
(* get_chunk gave before write_imap_chunk was entered; work.before, which  *)
(* nothing in the code keeps, what cat showed when the command began.      *)

Unread == << >>

Idle == [pc |-> "idle"]

Working(pc, request, ino, entry, node, todo, chunk) ==
  [pc |-> pc, request |-> request, ino |-> ino, entry |-> entry,
   node |-> node, todo |-> todo, memSeg |-> mem.seg, chunk |-> chunk,
   turned |-> FALSE, before |-> Contents(nameMap, imap, TRUE)]

Ready == Up /\ work.pc = "idle" /\ commands < MaxCommands

CountCommand ==
  /\ commands' = commands + 1
  /\ UNCHANGED <<mounts, crashes>>

NoChunk == [k \in 0..(ChunkLen - 1) |-> Nil]

Import(n, src) ==
  /\ Ready /\ FreeInodes # {}
  /\ LET ino == Least(FreeInodes) IN
       /\ nameMap' = [m \in DOMAIN nameMap \cup {n} |->
                        IF m = n THEN ino ELSE nameMap[m]]
       /\ work' = Working("data", <<"import", n, src>>, ino, ino,
                    NewNode(n, src),
                    [b \in 1..BlocksRead(src) |-> <<b - 1, SourceBlock(src, b - 1)>>],
                    NoChunk)
  /\ CountCommand
  /\ UNCHANGED <<segVars, nameFile, ckpt, status>>

(* Mutant of Remove: the name stays in the name map.                       *)
RemoveKeepsName(n) ==
  /\ Ready /\ n \in DOMAIN nameMap
  /\ LET ino == nameMap[n] IN
       /\ imap' = [imap EXCEPT ![ino] = Nil]
       /\ work' = Working("chunk", <<"remove", n>>, ino, ino, ZeroBlock, << >>,
                    GetChunk(imap', ChunkOf(ino)))
  /\ CountCommand
  /\ UNCHANGED <<disk, mem, dirty, leaveOff, cr, cl, nameMap, nameFile, ckpt,
                 status>>

Remove(n) ==
  /\ Ready /\ n \in DOMAIN nameMap
  /\ LET ino == nameMap[n] IN
       /\ nameMap' = [m \in DOMAIN nameMap \ {n} |-> nameMap[m]]
       /\ imap' = [imap EXCEPT ![ino] = Nil]
       /\ work' = Working("chunk", <<"remove", n>>, ino, ino, ZeroBlock, << >>,
                    GetChunk(imap', ChunkOf(ino)))
  /\ CountCommand
  /\ UNCHANGED <<disk, mem, dirty, leaveOff, cr, cl, nameFile, ckpt, status>>

(* The bytes of a block from offset lo up to hi overwritten with c. *)
Filled(bytes, lo, hi, c) ==
  [k \in 1..BlockSize |-> IF lo < k /\ k <= hi THEN c ELSE bytes[k]]

Overwrite(n, howMany, start, c) ==
  /\ Ready /\ n \in DOMAIN nameMap
  /\ LET ino   == nameMap[n]
         node  == BlockAt(imap[ino])
         many  == SmallerOf(howMany, MaxSize - start)
         first == start \div BlockSize
         rel   == start % BlockSize
         head  == SmallerOf(many, BlockSize - rel)
         rest  == many - head
         end   == start + many
         whole == rest \div BlockSize
         last  == first + whole + 1
     IN /\ start < MaxSize /\ start < FileSize(node) /\ many > 0
        /\ work' = Working("data", <<"overwrite", n, howMany, start, c>>, ino,
             IF node.name \in DOMAIN nameMap THEN nameMap[node.name] ELSE 0,
             IF end > FileSize(node)
               THEN [node EXCEPT !.complete = end \div BlockSize,
                                 !.incomplete = end % BlockSize]
               ELSE node,
             << <<first, Filled(BlockAt(node.ptrs[first]).bytes, rel, rel + head, c)>> >>
               \o [b \in 1..whole |-> <<first + b, [k \in 1..BlockSize |-> c]>>]
               \o (IF rest % BlockSize = 0 THEN << >> ELSE << <<last, Unread>> >>),
             NoChunk)
        /\ nameMap' = [m \in DOMAIN nameMap \cup {node.name} |->
                         IF m \in DOMAIN nameMap THEN nameMap[m] ELSE 0]
  /\ CountCommand
  /\ UNCHANGED <<segVars, nameFile, ckpt, status>>

-----------------------------------------------------------------------------
(* The writes of a command.  One that finds the segment full turns to      *)
(* another, which may clean the drive, and then writes without looking     *)
(* again whether cleaning has left room.                                   *)

Writing(pc) == Up /\ cl.pc = "off" /\ work.pc = pc

NextUnread == work.pc = "data" /\ Head(work.todo)[2] = Unread

(* memory_segment_num dates from the beginning of overwrite. *)
ReadLast ==
  /\ Writing("data") /\ NextUnread
  /\ LET k    == Head(work.todo)[1]
         a    == work.node.ptrs[k]
         old  == IF a[1] = work.memSeg THEN MemBlock(a) ELSE DiskBlock(a)
         req  == work.request
         upto == (req[3] + req[4]) % BlockSize
     IN work' = [work EXCEPT
          !.todo[1] = <<k, Filled(old.bytes, 0, upto, req[5])>>]
  /\ UNCHANGED <<segVars, nameMap, nameFile, ckpt, status, bounds>>

WriteData ==
  /\ Writing("data") /\ ~NextUnread
  /\ LET k == Head(work.todo)[1] IN
       /\ Put(Cell("DATA", work.ino, k, [ZeroBlock EXCEPT !.bytes = Head(work.todo)[2]]))
       /\ work' = [work EXCEPT
            !.node.ptrs[k] = Here, !.todo = Tail(@), !.turned = FALSE,
            !.pc = IF Len(work.todo) = 1 THEN "inode" ELSE "data"]
  /\ UNCHANGED <<imap, cr, cl, nameMap, nameFile, ckpt, status, bounds>>

(* Mutant of WriteInode: the chunk is copied before the imap is updated.   *)
WriteInodeCopiesFirst ==
  /\ Writing("inode")
  /\ Put(Cell("INODE", work.ino, 0, work.node))
  /\ imap' = [imap EXCEPT ![work.entry] = Here]
  /\ work' = [work EXCEPT !.pc = "chunk", !.turned = FALSE,
                          !.chunk = GetChunk(imap, ChunkOf(work.entry))]
  /\ UNCHANGED <<cr, cl, nameMap, nameFile, ckpt, status, bounds>>

WriteInode ==
  /\ Writing("inode")
  /\ Put(Cell("INODE", work.ino, 0, work.node))
  /\ imap' = [imap EXCEPT ![work.entry] = Here]
  /\ work' = [work EXCEPT !.pc = "chunk", !.turned = FALSE,
                          !.chunk = GetChunk(imap', ChunkOf(work.entry))]
  /\ UNCHANGED <<cr, cl, nameMap, nameFile, ckpt, status, bounds>>

WriteImapChunk ==
  /\ Writing("chunk")
  /\ Put(ChunkCell(ChunkOf(work.entry), work.chunk))
  /\ cr' = [cr EXCEPT ![ChunkOf(work.entry)] = Here]
  /\ work' = Idle
  /\ UNCHANGED <<imap, cl, nameMap, nameFile, ckpt, status, bounds>>

WantsToWrite == Up /\ cl.pc = "off" /\ work.pc # "idle" /\ ~NextUnread

TurnSegment ==
  /\ WantsToWrite /\ ~work.turned
  /\ TurnAndClean
  /\ work' = [work EXCEPT !.turned = TRUE]
  /\ UNCHANGED <<nameMap, nameFile, ckpt, status, bounds>>

Cleaning ==
  /\ Up /\ CleanStep
  /\ UNCHANGED <<driveVars, bounds>>

(* Cleaning has filled the segment to its end: the write goes beyond it.   *)
Overrun ==
  /\ WantsToWrite /\ work.turned /\ Full
  /\ status' = "corrupt"
  /\ UNCHANGED <<segVars, nameMap, nameFile, ckpt, work, bounds>>

(* find_backing_segment with every segment dirty: its loop goes round and  *)
(* round.                                                                  *)
Spin ==
  /\ Up /\ Full /\ Clean = {}
  /\ \/ WantsToWrite /\ ~work.turned
     \/ Moving /\ ~AllMoved
  /\ disk' = [disk EXCEPT ![mem.seg] = mem.cells]
  /\ mem' = [mem EXCEPT !.idx = NumSsbs, !.cells = Blank]
  /\ status' = "spinning"
  /\ UNCHANGED <<dirty, leaveOff, imap, cr, cl, nameMap, nameFile, ckpt, work,
                 bounds>>

-----------------------------------------------------------------------------
(* Mount, shutdown and the death of the process.  The files NAME_MAP and   *)
(* CHECKPOINT_REGION are there when ckpt.kind is not "none": "short" is    *)
(* what the first mount writes, with no room for the dirtiness, "empty" is *)
(* the truncated file.                                                     *)

NoImap == [i \in Inodes |-> Nil]
NoCr   == [c \in Chunks |-> Nil]

Checkpoint(kind, lo, segs, chunks) ==
  [kind |-> kind, leaveOff |-> lo, dirty |-> segs, cr |-> chunks]

NoCheckpoint(kind) == Checkpoint(kind, Nil, {}, NoCr)

(* What the next process begins with. *)
MemoryAt(lo, cells) == [seg |-> lo[1], idx |-> lo[2], cells |-> cells]
FirstAddr == <<0, NumSsbs>>

ProcessEnds ==
  /\ mem' = MemoryAt(FirstAddr, Blank)
  /\ dirty' = {} /\ leaveOff' = FirstAddr
  /\ imap' = NoImap /\ cr' = NoCr /\ cl' = CleanerOff
  /\ nameMap' = << >> /\ work' = Idle
  /\ status' = "down"

Init ==
  /\ disk = [s \in Segs |-> Blank]
  /\ mem = MemoryAt(FirstAddr, Blank)
  /\ dirty = {} /\ leaveOff = FirstAddr
  /\ imap = NoImap /\ cr = NoCr /\ cl = CleanerOff
  /\ nameMap = << >> /\ work = Idle
  /\ nameFile = << >> /\ ckpt = NoCheckpoint("none") /\ status = "down"
  /\ commands = 0 /\ mounts = 0 /\ crashes = 0

StartProcess ==
  /\ status = "down" /\ mounts < MaxMounts /\ mounts' = mounts + 1
  /\ UNCHANGED <<work, cl, commands, crashes>>

(* With no CHECKPOINT_REGION: every segment file is written anew. *)
Format ==
  /\ StartProcess /\ ckpt.kind = "none"
  /\ disk' = [s \in Segs |-> Blank]
  /\ ckpt' = NoCheckpoint("short")
  /\ status' = "up"
  /\ UNCHANGED <<mem, dirty, leaveOff, imap, cr, nameMap, nameFile>>

LeaveOffValid == ckpt.leaveOff[2] >= NumSsbs

Mountable ==
  ckpt.kind = "full" /\ LeaveOffValid /\ NamesLoad(nameFile)

SavedImap ==
  [i \in Inodes |-> IF ckpt.cr[ChunkOf(i)] = Nil THEN Nil
                    ELSE DiskBlock(ckpt.cr[ChunkOf(i)]).chunk[i % ChunkLen]]

Mount ==
  /\ StartProcess /\ Mountable
  /\ nameMap' = LoadedNames(nameFile)
  /\ mem' = MemoryAt(ckpt.leaveOff, disk[ckpt.leaveOff[1]])
  /\ leaveOff' = [ckpt.leaveOff EXCEPT ![2] = @ - 1]
  /\ dirty' = ckpt.dirty /\ cr' = ckpt.cr /\ imap' = SavedImap
  /\ status' = "up"
  /\ UNCHANGED <<disk, nameFile, ckpt>>

RefuseMount ==
  /\ StartProcess /\ ckpt.kind # "none" /\ ~Mountable
  /\ status' = "refused"
  /\ UNCHANGED <<segVars, nameMap, nameFile, ckpt>>

(* ~Drive: NAME_MAP is truncated, then CHECKPOINT_REGION; the names are     *)
(* written line by line, beside a checkpoint that nobody can mount; the    *)
(* checkpoint waits in its stream until that is closed, after the flush.   *)
BeginShutdown ==
  /\ Up /\ work.pc = "idle"
  /\ nameFile' = << >>
  /\ status' = "closing"
  /\ UNCHANGED <<segVars, nameMap, ckpt, work, bounds>>

TruncateCheckpoint ==
  /\ status = "closing"
  /\ ckpt' = NoCheckpoint("empty")
  /\ status' = "truncated"
  /\ UNCHANGED <<segVars, nameMap, nameFile, work, bounds>>

(* Mutant of Succ: the offset is not carried into the segment.             *)
SuccNoCarry(a) == <<a[1], a[2] + 1>>

Succ(a) == IF a[2] + 1 < SegSize THEN <<a[1], a[2] + 1>>
           ELSE <<(a[1] + 1) % NumSegments, 0>>

(* Mutant of WriteNames: the leave-off point stays on the last block.      *)
WriteNamesOnly ==
  /\ status = "truncated"
  /\ nameFile' = SavedNames(nameMap)
  /\ status' = "named"
  /\ UNCHANGED <<disk, mem, dirty, leaveOff, imap, cr, cl, nameMap, ckpt, work,
                 bounds>>

WriteNames ==
  /\ status = "truncated"
  /\ nameFile' = SavedNames(nameMap)
  /\ leaveOff' = Succ(leaveOff)
  /\ status' = "named"
  /\ UNCHANGED <<disk, mem, dirty, imap, cr, cl, nameMap, ckpt, work, bounds>>

(* Mutant of FlushLast: the segment in memory is not flushed.              *)
FlushLastForgets ==
  /\ status = "named"
  /\ status' = "flushed"
  /\ UNCHANGED <<segVars, nameMap, nameFile, ckpt, work, bounds>>

FlushLast ==
  /\ status = "named"
  /\ disk' = [disk EXCEPT ![mem.seg] = mem.cells]
  /\ mem' = [mem EXCEPT !.cells = Blank]
  /\ status' = "flushed"
  /\ UNCHANGED <<dirty, leaveOff, imap, cr, cl, nameMap, nameFile, ckpt, work,
                 bounds>>

WriteCheckpoint ==
  /\ status = "flushed"
  /\ ckpt' = Checkpoint("full", leaveOff, dirty, cr)
  /\ ProcessEnds
  /\ UNCHANGED <<disk, nameFile, bounds>>

Running == status \notin {"down", "refused"}

Crash ==
  /\ Running /\ crashes < MaxCrashes /\ crashes' = crashes + 1
  /\ ProcessEnds
  /\ UNCHANGED <<disk, nameFile, ckpt, commands, mounts>>

(* next_available_inode throws and nothing catches it. *)
OutOfInodes ==
  /\ Ready /\ FreeInodes = {}
  /\ CountCommand
  /\ ProcessEnds
  /\ UNCHANGED <<disk, nameFile, ckpt>>

(* Nothing more within the bounds, or nothing more at all. *)
Stopped ==
  /\ \/ status \in {"refused", "spinning", "corrupt"}
     \/ status = "down" /\ mounts = MaxMounts
  /\ UNCHANGED vars

-----------------------------------------------------------------------------

Command ==
  \/ \E n \in FileNames, src \in Sources : Import(n, src)
  \/ \E n \in FileNames : Remove(n)
  \/ \E n \in FileNames, o \in Overwrites : Overwrite(n, o[1], o[2], o[3])
  \/ OutOfInodes

WorkStep ==
  \/ ReadLast \/ WriteData \/ WriteInode \/ WriteImapChunk
  \/ TurnSegment \/ Cleaning \/ Overrun \/ Spin

Shutdown ==
  BeginShutdown \/ TruncateCheckpoint \/ WriteNames \/ FlushLast \/ WriteCheckpoint

Next ==
  \/ Format \/ Mount \/ RefuseMount
  \/ Command
  \/ WorkStep
  \/ Shutdown
  \/ Crash
  \/ Stopped

Spec == Init /\ [][Next]_vars

(* The one thread of the process goes on with the command it is carrying   *)
(* out.                                                                    *)
FairSpec == Spec /\ WF_vars(WorkStep)

-----------------------------------------------------------------------------
(* Properties *)

PtrBlock ==
  [bytes : [1..BlockSize -> Nat], ptrs : [0..(MaxData - 1) -> Addr],
   chunk : [0..(ChunkLen - 1) -> Addr], name : Names \cup {""},
   complete : Nat, incomplete : Nat]
CellType ==
  [type : {"SSB", "DATA", "INODE", "IMAP_CHUNK"}, id : Nat, index : Nat,
   block : PtrBlock]

(* Every variable stays in its range: no index of the segment in memory is *)
(* beyond its end and no pointer beyond the drive.                         *)
TypeOK ==
  /\ \A g \in Segs, s \in Slots : disk[g][s] \in CellType
  /\ mem.seg \in Segs /\ mem.idx \in NumSsbs..SegSize
  /\ \A s \in Slots : mem.cells[s] \in CellType
  /\ dirty \subseteq Segs /\ leaveOff \in Addr
  /\ imap \in [Inodes -> Addr] /\ cr \in [Chunks -> Addr]
  /\ cl.pc \in {"off", "scan", "move"} /\ cl.seg \in 0..NumSegments
  /\ DOMAIN nameMap \subseteq Names /\ \A n \in DOMAIN nameMap : nameMap[n] \in Inodes
  /\ status \in {"down", "up", "refused", "spinning", "corrupt",
                 "closing", "truncated", "named", "flushed"}
  /\ work.pc \in {"idle", "data", "inode", "chunk"}

CellAt(a) == IF a[1] = mem.seg THEN mem.cells[a[2]] ELSE disk[a[1]][a[2]]

(* The imap is never wrong about an inode: where it points there is the    *)
(* inode of that number, in a segment no turn will take, whatever turns    *)
(* and cleaning have moved.                                                *)
ImapSound ==
  Up => \A i \in Inodes : imap[i] # Nil =>
    /\ imap[i][2] \in Slots
    /\ CellAt(imap[i]).type = "INODE" /\ CellAt(imap[i]).id = i
    /\ imap[i][1] \in dirty

(* The same of the checkpoint region about the chunks of the imap.         *)
ChunksSound ==
  Up => \A c \in Chunks : cr[c] # Nil =>
    /\ cr[c][2] \in Slots
    /\ CellAt(cr[c]).type = "IMAP_CHUNK" /\ CellAt(cr[c]).id = c
    /\ cr[c][1] \in dirty

(* Between commands the name of a file leads to an inode in use that bears *)
(* it, and no two files share one: a name is the way to its own file,      *)
(* whatever else a mount has read from NAME_MAP.                           *)
NamesSound ==
  Up /\ work.pc = "idle" => \A n \in DOMAIN nameMap \cap FileNames :
    /\ imap[nameMap[n]] # Nil
    /\ BlockAt(imap[nameMap[n]]).name = n
    /\ \A m \in DOMAIN nameMap \cap FileNames : nameMap[m] = nameMap[n] => m = n

(* Between commands the checkpoint that a shutdown would write has the     *)
(* imap as it is: the chunks last written are up to date.                  *)
CheckpointCurrent ==
  Up /\ work.pc = "idle" => \A c \in Chunks :
    GetChunk(imap, c) = IF cr[c] = Nil THEN NoChunk ELSE BlockAt(cr[c]).chunk

(* From the start of any block on, display shows what cat shows of the     *)
(* range asked for, however that falls on the blocks.                      *)
DisplayAligned ==
  Up /\ work.pc = "idle" => \A n \in DOMAIN nameMap \cap FileNames :
    LET node == BlockAt(imap[nameMap[n]])
        all  == Bytes(node, TRUE)
    IN \A b \in 0..(MaxData - 1), many \in 1..MaxSize :
         b * BlockSize <= Len(all) =>
           Shown(node, b * BlockSize, many, TRUE) =
             SubSeq(all, b * BlockSize + 1, SmallerOf(b * BlockSize + many, Len(all)))

(* Every data block of a named file is where its inode says.               *)
FilesWhole ==
  Up /\ work.pc = "idle" => \A n \in DOMAIN nameMap :
    LET node == BlockAt(imap[nameMap[n]]) IN
    \A k \in 0..(MaxData - 1) : k * BlockSize < FileSize(node) =>
      /\ node.ptrs[k][2] \in Slots
      /\ CellAt(node.ptrs[k]).type = "DATA"
      /\ CellAt(node.ptrs[k]).id = nameMap[n]
      /\ CellAt(node.ptrs[k]).index = k

(* find_backing_segment throws "Drive full" when there is no clean segment *)
(* left: a command always ends, in its result or in an exception.  (What   *)
(* a write beyond the segment leads to is not asked.)                      *)
CommandsEnd ==
  Running /\ work.pc # "idle" ~> work.pc = "idle" \/ status = "corrupt"

(* A command ends, with all its turns and cleaning, unless it meets a full *)
(* drive or writes beyond the segment.                                     *)
CommandsEndOrStick ==
  Running /\ work.pc # "idle" ~> work.pc = "idle" \/ status \in {"spinning", "corrupt"}

(* Drive's constructor throws when the leave-off point lies in the summary *)
(* blocks: no shutdown leaves one there.                                   *)
LeaveOffOutsideSsbs == ckpt.kind = "full" => LeaveOffValid

(* Drive's constructor throws when NAME_MAP is not read to its end: every  *)
(* NAME_MAP that a shutdown leaves can be.                                 *)
NameMapLoads == ckpt.kind = "full" => NamesLoad(nameFile)

(* overwrite is asked for howMany bytes from start on: when it ends, every *)
(* other byte of every file is as it was.                                  *)
OthersKept ==
  [][work.pc # "idle" /\ work'.pc = "idle" /\ work.request[1] = "overwrite" =>
       \A n \in DOMAIN work.before :
         \A k \in DOMAIN work.before[n] :
           \/ n = work.request[2]
              /\ work.request[4] < k /\ k <= work.request[4] + work.request[3]
           \/ Contents(nameMap, imap, TRUE)'[n][k] = work.before[n][k]]_vars

(* FileStore's variables as the drive keeps them. *)
SavedView ==
  IF ckpt.kind = "none" THEN {<< >>}
  ELSE IF Mountable THEN {Contents(nm, im, FALSE) :
                            nm \in {LoadedNames(nameFile)}, im \in {SavedImap}}
  ELSE {}

StoreView ==
  IF ~Running THEN IF SavedView = {} THEN << >> ELSE CHOOSE v \in SavedView : TRUE
  ELSE IF work.pc # "idle" THEN work.before
  ELSE IF status = "flushed" THEN Contents(nameMap, imap, FALSE)
  ELSE Contents(nameMap, imap, TRUE)

Phase ==
  CASE status = "down" -> "closed"
    [] status = "refused" -> "refused"
    [] status \in {"up", "spinning", "corrupt"} -> "open"
    [] OTHER -> "saving"

Store == INSTANCE FileStore WITH
  Names <- FileNames, phase <- Phase, store <- StoreView, saved <- SavedView,
  request <- IF work.pc = "idle" THEN << >> ELSE work.request

(* The drive keeps a store of files: what cat would show after a command,  *)
(* a shutdown and a mount, or a crash is what the commands make of it; and *)
(* no write touches what the last checkpoint needs.                        *)
StoreSpec == Store!Spec

=============================================================================
