------------------------------ MODULE WalSwap ------------------------------
(***************************************************************************)
(* Who owns the write-ahead log: the directory entry, the inode behind it  *)
(* and the flock on the inode, while processes open the log, write, die    *)
(* and compact it (persist.rs: open, rewrite_wal, Drop).  Compaction       *)
(* writes the open state into a new file, moves the log aside and the new  *)
(* file in its place: two renames, and an open by name in between finds no *)
(* log at all.                                                             *)
(*                                                                         *)
(* An inode's content is the set of facts a replay of it yields; a write   *)
(* is journalled, fsynced and acknowledged in one step (module Wal has the *)
(* steps).  Compaction keeps every open fact, so it copies the set.        *)
(***************************************************************************)
EXTENDS Naturals, FiniteSets

CONSTANTS
  Procs,      \* processes: the server, the CLI, a restarted server
  NoProc,     \* no process
  Facts,      \* what can be written
  MaxInode    \* bound: files created in a model-checking run

ASSUME SwapAssumption == NoProc \notin Procs /\ MaxInode \in Nat

None == 0
Inodes == 1 .. MaxInode

VARIABLES
  dir,      \* the inode behind each name: the log, its new version, the old one
  content,  \* facts in an inode
  used,     \* inodes created so far
  flock,    \* the process that holds the lock of an inode
  pc,       \* how far each process is
  fd,       \* the inode its writer appends to
  tmp,      \* the inode of its compacted log
  graph,    \* the facts in its memory
  acked,    \* facts acknowledged by any process (history)
  exposed   \* a log that is not the one behind the name was within reach of
            \* an opener (history)

vars == <<dir, content, used, flock, pc, fd, tmp, graph, acked, exposed>>

Init ==
  /\ dir = [wal |-> None, tmp |-> None, old |-> None]
  /\ content = [i \in Inodes |-> {}] /\ used = 0
  /\ flock = [i \in Inodes |-> NoProc]
  /\ pc = [p \in Procs |-> "down"]
  /\ fd = [p \in Procs |-> None] /\ tmp = [p \in Procs |-> None]
  /\ graph = [p \in Procs |-> {}]
  /\ acked = {} /\ exposed = FALSE

Goto(p, l) == pc' = [pc EXCEPT ![p] = l]

\* p has a PersistentGraph it may write to.
Live(p) == pc[p] \notin {"down", "lock", "replay"}

\* open(2) with O_CREAT: the inode behind the name, or a new one.
Creates(p, name, file) ==
  IF dir[name] # None
  THEN file' = [file EXCEPT ![p] = dir[name]] /\ UNCHANGED <<dir, used>>
  ELSE /\ used < MaxInode
       /\ used' = used + 1
       /\ dir' = [dir EXCEPT ![name] = used']
       /\ file' = [file EXCEPT ![p] = used']

\* PersistentGraph::open, first the file ...
OpenFile(p) ==
  /\ pc[p] = "down"
  /\ Creates(p, "wal", fd)
  /\ exposed' = (exposed \/ (dir.wal = None /\ used > 0))
  /\ Goto(p, "lock")
  /\ UNCHANGED <<content, flock, tmp, graph, acked>>

\* Mutant of Lock: a lock that is held is no obstacle.
LockUnchecked(p) ==
  /\ pc[p] = "lock"
  /\ flock' = [flock EXCEPT ![fd[p]] = p]
  /\ Goto(p, "replay")
  /\ UNCHANGED <<dir, content, used, fd, tmp, graph, acked, exposed>>

\* ... then its lock, or an error ...
Lock(p) ==
  /\ pc[p] = "lock"
  /\ \/ /\ flock[fd[p]] = NoProc
        /\ flock' = [flock EXCEPT ![fd[p]] = p]
        /\ exposed' = (exposed \/ dir.wal # fd[p])
        /\ Goto(p, "replay")
     \/ /\ flock[fd[p]] # NoProc
        /\ Goto(p, "down")
        /\ UNCHANGED <<flock, exposed>>
  /\ UNCHANGED <<dir, content, used, fd, tmp, graph, acked>>

\* The locks of p go with its descriptors.
Unlocked(p) == [i \in Inodes |-> IF flock[i] = p THEN NoProc ELSE flock[i]]

\* ... then a replay of what is now behind the name, opened once more.
Replay(p) ==
  /\ pc[p] = "replay"
  /\ \/ /\ dir.wal # None
        /\ graph' = [graph EXCEPT ![p] = content[dir.wal]]
        /\ Goto(p, "open")
        /\ UNCHANGED flock
     \/ /\ dir.wal = None
        /\ flock' = Unlocked(p)
        /\ Goto(p, "down")
        /\ UNCHANGED graph
  /\ UNCHANGED <<dir, content, used, fd, tmp, acked, exposed>>

\* A batch is journalled to the writer's inode, fsynced and acknowledged.
Write(p, f) ==
  /\ pc[p] = "open" /\ f \notin acked
  /\ content' = [content EXCEPT ![fd[p]] = @ \cup {f}]
  /\ graph' = [graph EXCEPT ![p] = @ \cup {f}]
  /\ acked' = acked \cup {f}
  /\ UNCHANGED <<dir, used, flock, pc, fd, tmp, exposed>>

\* rewrite_wal returns an error: the new file is closed, the writer keeps the
\* descriptor it had, and no caller writes to it again: the server is wedged,
\* the CLI exits.
GiveUp(p) ==
  /\ flock' = [flock EXCEPT ![tmp[p]] = IF @ = p THEN NoProc ELSE @]
  /\ Goto(p, "wedged")
  /\ UNCHANGED dir

\* rewrite_wal creates (or truncates, when a crash left one) the new file,
CreateTmp(p) ==
  /\ pc[p] = "open"
  /\ Creates(p, "tmp", tmp)
  /\ content' = [content EXCEPT ![tmp'[p]] = {}]
  /\ Goto(p, "locktmp")
  /\ UNCHANGED <<flock, fd, graph, acked, exposed>>

\* locks it, or gives up,
LockTmp(p) ==
  /\ pc[p] = "locktmp"
  /\ \/ /\ flock[tmp[p]] = NoProc
        /\ flock' = [flock EXCEPT ![tmp[p]] = p]
        /\ Goto(p, "filltmp")
     \/ /\ flock[tmp[p]] # NoProc
        /\ Goto(p, "wedged")
        /\ UNCHANGED flock
  /\ UNCHANGED <<dir, content, used, fd, tmp, graph, acked, exposed>>

\* writes the open state and fsyncs it; an error leaves a part of it, and the
\* old log is still the writer's,
FillTmp(p) ==
  /\ pc[p] = "filltmp"
  /\ \/ /\ content' = [content EXCEPT ![tmp[p]] = graph[p]]
        /\ Goto(p, "aside")
        /\ UNCHANGED <<dir, flock>>
     \/ /\ \E part \in SUBSET graph[p] : content' = [content EXCEPT ![tmp[p]] = part]
        /\ GiveUp(p)
  /\ UNCHANGED <<used, fd, tmp, graph, acked, exposed>>

\* moves the log aside,
RenameAside(p) ==
  /\ pc[p] = "aside"
  /\ \/ /\ dir.wal # None
        /\ dir' = [dir EXCEPT !.old = dir.wal, !.wal = None]
        /\ Goto(p, "swapin")
        /\ UNCHANGED flock
     \/ dir.wal = None /\ GiveUp(p)
  /\ UNCHANGED <<content, used, fd, tmp, graph, acked, exposed>>

\* Mutant of RenameIn: the new log is linked to the name, not moved there.
RenameInLinks(p) ==
  /\ pc[p] = "swapin"
  /\ \/ /\ dir.tmp # None
        /\ dir' = [dir EXCEPT !.wal = dir.tmp]
        /\ Goto(p, "adopt")
        /\ UNCHANGED flock
     \/ dir.tmp = None /\ GiveUp(p)
  /\ UNCHANGED <<content, used, fd, tmp, graph, acked, exposed>>

\* moves the new one to its name, over whatever is there,
RenameIn(p) ==
  /\ pc[p] = "swapin"
  /\ \/ /\ dir.tmp # None
        /\ dir' = [dir EXCEPT !.wal = dir.tmp, !.tmp = None]
        /\ Goto(p, "adopt")
        /\ UNCHANGED flock
     \/ dir.tmp = None /\ GiveUp(p)
  /\ UNCHANGED <<content, used, fd, tmp, graph, acked, exposed>>

\* Mutant of Adopt: the writer keeps the old descriptor.
AdoptKeepsOld(p) ==
  /\ pc[p] = "adopt"
  /\ dir' = [dir EXCEPT !.old = None]
  /\ Goto(p, "open")
  /\ UNCHANGED <<content, used, flock, fd, tmp, graph, acked, exposed>>

\* removes the old one (or keeps it, as the archive), and writes to the new
\* one; the old descriptor is closed and its lock is gone.  When the removal
\* fails it returns before that, the swap done and the old descriptor kept.
Adopt(p) ==
  /\ pc[p] = "adopt"
  /\ \/ /\ dir' = [dir EXCEPT !.old = None]
        /\ fd' = [fd EXCEPT ![p] = tmp[p]]
        /\ flock' = [flock EXCEPT ![fd[p]] = IF @ = p THEN NoProc ELSE @]
        /\ Goto(p, "open")
        /\ UNCHANGED exposed
     \/ GiveUp(p) /\ exposed' = TRUE /\ UNCHANGED fd
  /\ UNCHANGED <<content, used, tmp, graph, acked>>

\* The process exits or dies; the kernel drops its locks.
Die(p) ==
  /\ pc[p] # "down"
  /\ flock' = Unlocked(p)
  /\ graph' = [graph EXCEPT ![p] = {}]
  /\ Goto(p, "down")
  /\ UNCHANGED <<dir, content, used, fd, tmp, acked, exposed>>

Compact(p) ==
  CreateTmp(p) \/ LockTmp(p) \/ FillTmp(p) \/ RenameAside(p) \/ RenameIn(p) \/ Adopt(p)

Next ==
  \E p \in Procs :
    \/ OpenFile(p) \/ Lock(p) \/ Replay(p)
    \/ \E f \in Facts : Write(p, f)
    \/ Compact(p) \/ Die(p)

Spec == Init /\ [][Next]_vars

-----------------------------------------------------------------------------
TypeOK ==
  /\ dir \in [{"wal", "tmp", "old"} -> {None} \cup Inodes]
  /\ content \in [Inodes -> SUBSET Facts] /\ used \in 0 .. MaxInode
  /\ flock \in [Inodes -> Procs \cup {NoProc}]
  /\ pc \in [Procs -> {"down", "lock", "replay", "open", "locktmp", "filltmp",
                       "aside", "swapin", "adopt", "wedged"}]
  /\ fd \in [Procs -> {None} \cup Inodes] /\ tmp \in [Procs -> {None} \cup Inodes]
  /\ graph \in [Procs -> SUBSET Facts] /\ acked \subseteq Facts /\ exposed \in BOOLEAN
  /\ \A a, b \in DOMAIN dir : dir[a] # None /\ dir[a] = dir[b] => a = b

\* "Single-writer: an exclusive lock is held for the life of the handle. A
\* second opener fails fast" (persist.rs:23), and compaction leaves "no instant
\* at which another process could grab the WAL name" (persist.rs:435).  There is
\* one, between the two renames (exposed).
SingleWriter == \A p, q \in Procs : Live(p) /\ Live(q) => p = q

\* "The old log is intact until the final rename" (persist.rs:437): whoever has
\* the database open has every acknowledged fact, whoever wrote it and whatever
\* died since.  Intact it is, but not behind its name: a process that dies
\* between the two renames leaves none there, and the next open makes a log of
\* nothing (exposed).
AckedInGraph == \A p \in Procs : Live(p) => acked \subseteq graph[p]

\* Both hold as long as nobody opens the name in the middle of a swap, or
\* locks a file that a swap has already moved away: whatever dies or fails at
\* whatever step of opening, writing and compacting (persist.rs:564).
SafeUnlessExposed == ~exposed => SingleWriter /\ AckedInGraph

\* The writer appends to the file that the next open will replay, after a
\* compaction as before it (persist.rs:628), and at every step of it up to the
\* first rename.
OwnsTheName ==
  \A p \in Procs :
    ~exposed /\ pc[p] \in {"open", "locktmp", "filltmp", "aside"} => dir.wal = fd[p]

\* "The lock is continuous" (persist.rs:622): whatever other processes do, a
\* writer holds the lock of the inode it appends to, and, once it is filled,
\* of the one it will adopt.
HoldsItsLock ==
  \A p \in Procs :
    /\ Live(p) => flock[fd[p]] = p
    /\ pc[p] \in {"filltmp", "aside", "swapin", "adopt"} => flock[tmp[p]] = p

\* Both, at every step of every process.
WriterOwnsLog == OwnsTheName /\ HoldsItsLock
=============================================================================
