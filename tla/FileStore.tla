------------------------------ MODULE FileStore ------------------------------
(***************************************************************************)
(* What Prog5 promises its user: a store of files, changed by one command  *)
(* at a time, that keeps what it held at the last shutdown.                *)
(***************************************************************************)
EXTENDS Integers, Sequences

CONSTANTS
  Names,        \* names of files
  BlockSize,    \* Block::SIZE
  MaxSize       \* INode::MAX_FILE_SIZE

VARIABLES
  phase,        \* "closed", "open", "saving", "refused"
  store,        \* what cat shows: a function from the names of files to bytes
  saved,        \* {} or {the store a mount would show}
  request       \* the command in hand, or None

vars == <<phase, store, saved, request>>

None  == << >>
Empty == << >>

LesserOf(m, n) == IF m <= n THEN m ELSE n
GreaterOf(m, n) == IF m >= n THEN m ELSE n

(* At most MaxSize bytes of a file are kept; a shorter one that fills its  *)
(* blocks exactly gets a block of zeros more.                              *)
Imported(src) ==
  SubSeq(src, 1, LesserOf(Len(src), MaxSize))
    \o IF Len(src) < MaxSize /\ Len(src) % BlockSize = 0
       THEN [k \in 1..BlockSize |-> 0] ELSE << >>

(* howMany bytes from start on become c; the file grows when they reach    *)
(* beyond its end, but to MaxSize at most.                                 *)
Overwritten(bytes, howMany, start, c) ==
  LET end == LesserOf(start + howMany, MaxSize)
  IN [k \in 1..GreaterOf(Len(bytes), end) |->
        IF start < k /\ k <= end THEN c ELSE bytes[k]]

With(n, bytes) == [m \in DOMAIN store \cup {n} |-> IF m = n THEN bytes ELSE store[m]]

Result(r) ==
  CASE r[1] = "import"    -> With(r[2], Imported(r[3]))
    [] r[1] = "remove"    -> [m \in DOMAIN store \ {r[2]} |-> store[m]]
    [] r[1] = "overwrite" -> With(r[2], Overwritten(store[r[2]], r[3], r[4], r[5]))

(* What an overwrite that ends inside another block than its first leaves  *)
(* open: the bytes behind its range in that block.                         *)
LeftOpen(r) ==
  LET end == LesserOf(r[3] + r[4], MaxSize)
      b   == end \div BlockSize
  IN IF r[1] = "overwrite" /\ b # r[4] \div BlockSize /\ end % BlockSize # 0
     THEN (end + 1)..((b + 1) * BlockSize) ELSE {}

(* after is what the command makes of the store, up to what it leaves open.*)
Follows(after, r) ==
  LET result == Result(r) IN
  /\ DOMAIN after = DOMAIN result
  /\ \A n \in DOMAIN result :
       /\ DOMAIN after[n] = DOMAIN result[n]
       /\ \A k \in DOMAIN result[n] :
            \/ after[n][k] = result[n][k]
            \/ n = r[2] /\ k \in LeftOpen(r)

Accepted(r) ==
  /\ r[2] \in Names
  /\ r[1] # "import" => r[2] \in DOMAIN store
  /\ r[1] = "overwrite" => r[3] > 0 /\ r[4] < Len(store[r[2]])

Init ==
  /\ phase = "closed" /\ request = None
  /\ store = Empty /\ saved = {Empty}

(* The first mount leaves nothing a second could read before a shutdown.   *)
Open ==
  /\ phase = "closed" /\ saved = {store}
  /\ phase' = "open" /\ saved' \in {saved, {}}
  /\ UNCHANGED <<store, request>>

Refuse ==
  /\ phase = "closed" /\ saved = {}
  /\ phase' = "refused"
  /\ UNCHANGED <<store, saved, request>>

Begin ==
  /\ phase = "open" /\ request = None
  /\ request' # None /\ Accepted(request')
  /\ UNCHANGED <<phase, store, saved>>

Finish ==
  /\ phase = "open" /\ request # None
  /\ request' = None /\ Follows(store', request)
  /\ UNCHANGED <<phase, saved>>

(* A save gives up the names of what was saved before the rest: were the   *)
(* process to die just then, a store without files would be mounted.       *)
BeginSave ==
  /\ phase = "open" /\ request = None
  /\ phase' = "saving" /\ saved' = {Empty : s \in saved}
  /\ UNCHANGED <<store, request>>

GiveUpSaved ==
  /\ phase = "saving" /\ saved' = {}
  /\ UNCHANGED <<phase, store, request>>

Close(left) ==
  /\ phase' = "closed" /\ request' = None
  /\ saved' = left
  /\ store' = IF left = {} THEN Empty ELSE CHOOSE s \in left : TRUE

EndSave == phase = "saving" /\ \E left \in {{store}, {}} : Close(left)

(* The process dies: what was done since the last shutdown is gone, and    *)
(* what that shutdown left is as it was, unless a save has begun.          *)
Die == phase \in {"open", "saving"} /\ Close(saved)

Next == Open \/ Refuse \/ Begin \/ Finish \/ BeginSave \/ GiveUpSaved \/ EndSave \/ Die

Spec == Init /\ [][Next]_vars

=============================================================================
