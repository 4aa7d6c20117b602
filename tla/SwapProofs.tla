----------------------------- MODULE SwapProofs ----------------------------
(***************************************************************************)
(* Theorems about the ownership of the log (WalSwap), for every number of  *)
(* processes, facts and files.                                             *)
(***************************************************************************)
EXTENDS WalSwap, TLAPS

Names == {"wal", "tmp", "old"}
Steps == {"down", "lock", "replay", "open", "locktmp", "filltmp", "aside", "swapin", "adopt", "wedged"}

\* A process that has passed the lock of the log.
Owner(p) == pc[p] \notin {"down", "lock"}

\* Inodes are handed out in order, and only those are referred to.
Created ==
  /\ \A a \in Names : dir[a] <= used
  /\ \A p \in Procs :
       /\ pc[p] # "down" => fd[p] \in 1 .. used
       /\ pc[p] \in {"locktmp", "filltmp", "aside", "swapin", "adopt"} => tmp[p] \in 1 .. used
  /\ used = 0 => acked = {}

\* An owner has the lock of its log, and of the new one, which is another.
Locked ==
  \A p \in Procs :
    /\ Owner(p) => flock[fd[p]] = p
    /\ pc[p] \in {"filltmp", "aside", "swapin", "adopt"}
         => flock[tmp[p]] = p /\ tmp[p] # fd[p]

\* Where the files of an owner are, at each step of a compaction.
Placed ==
  ~exposed => \A p \in Procs :
    /\ pc[p] \in {"replay", "open", "locktmp", "filltmp", "aside", "wedged"} => dir.wal = fd[p]
    /\ pc[p] \in {"locktmp", "filltmp", "aside", "swapin"} => dir.tmp = tmp[p]
    /\ pc[p] = "swapin" => dir.wal = None
    /\ pc[p] = "swapin" => dir.old = fd[p]
    /\ pc[p] = "adopt" => dir.wal = tmp[p]

\* So there is one of them.
OneOwner == ~exposed => \A p, q \in Procs : Owner(p) /\ Owner(q) => p = q

\* The log, the memory of its owner and, from the fsync on, the new log have
\* every acknowledged fact.
Kept ==
  ~exposed =>
    /\ dir.wal # None => acked \subseteq content[dir.wal]
    /\ AckedInGraph
    /\ \A p \in Procs : pc[p] \in {"aside", "swapin"} => acked \subseteq content[tmp[p]]

IInv == TypeOK /\ Created /\ Locked /\ Placed /\ Kept

-----------------------------------------------------------------------------
(* What the calls do to the directory. *)

\* open(2) by the log's name: the file behind it, or the next new one.
LEMMA Opened ==
  ASSUME TypeOK, Created, NEW p \in Procs, OpenFile(p)
  PROVE  /\ dir' \in [Names -> {None} \cup Inodes] /\ used' \in 0 .. MaxInode
         /\ dir'.wal \in 1 .. used' /\ dir'.tmp = dir.tmp /\ dir'.old = dir.old
         /\ \/ dir'.wal = dir.wal /\ used' = used
            \/ dir.wal = None /\ dir'.wal = used + 1 /\ used' = used + 1
         /\ fd' = [fd EXCEPT ![p] = dir'.wal] /\ pc[p] = "down" /\ pc' = [pc EXCEPT ![p] = "lock"]
         /\ exposed' = (exposed \/ (dir.wal = None /\ used > 0))
         /\ UNCHANGED <<content, flock, tmp, graph, acked>>
<1> USE SwapAssumption DEF TypeOK, Created, Names, Inodes, None
<1>1. CASE dir.wal # None
  <2>1. dir' = dir /\ used' = used /\ fd' = [fd EXCEPT ![p] = dir.wal]
    BY <1>1 DEF OpenFile, Creates
  <2>2. dir.wal \in 1 .. used
    BY <1>1
  <2> QED
    BY <1>1, <2>1, <2>2 DEF OpenFile, Goto
<1>2. CASE dir.wal = None
  <2>1. used < MaxInode /\ used' = used + 1 /\ dir' = [dir EXCEPT !["wal"] = used + 1]
        /\ fd' = [fd EXCEPT ![p] = used + 1]
    BY <1>2 DEF OpenFile, Creates
  <2>2. /\ dir' \in [Names -> {None} \cup Inodes]
        /\ dir'.wal = used + 1 /\ dir'.tmp = dir.tmp /\ dir'.old = dir.old
    BY <2>1
  <2> QED
    BY <1>2, <2>1, <2>2 DEF OpenFile, Goto
<1> QED
  BY <1>1, <1>2

\* The same by the name of the compacted log, which is then empty.
LEMMA TmpCreated ==
  ASSUME TypeOK, Created, NEW p \in Procs, CreateTmp(p)
  PROVE  /\ dir' \in [Names -> {None} \cup Inodes] /\ used' \in 0 .. MaxInode
         /\ dir'.tmp \in 1 .. used' /\ dir'.wal = dir.wal /\ dir'.old = dir.old
         /\ \/ dir'.tmp = dir.tmp /\ used' = used
            \/ dir.tmp = None /\ dir'.tmp = used + 1 /\ used' = used + 1
         /\ tmp' = [tmp EXCEPT ![p] = dir'.tmp] /\ pc[p] = "open" /\ pc' = [pc EXCEPT ![p] = "locktmp"]
         /\ content' = [content EXCEPT ![dir'.tmp] = {}]
         /\ UNCHANGED <<flock, fd, graph, acked, exposed>>
<1> USE SwapAssumption DEF TypeOK, Created, Names, Inodes, None
<1>1. CASE dir.tmp # None
  <2>1. dir' = dir /\ used' = used /\ tmp' = [tmp EXCEPT ![p] = dir.tmp]
    BY <1>1 DEF CreateTmp, Creates
  <2>2. dir.tmp \in 1 .. used
    BY <1>1
  <2>3. tmp'[p] = dir'.tmp
    BY <2>1, <2>2
  <2> QED
    BY <1>1, <2>1, <2>2, <2>3 DEF CreateTmp, Goto
<1>2. CASE dir.tmp = None
  <2>1. used < MaxInode /\ used' = used + 1 /\ dir' = [dir EXCEPT !["tmp"] = used + 1]
        /\ tmp' = [tmp EXCEPT ![p] = used + 1]
    BY <1>2 DEF CreateTmp, Creates
  <2>2. /\ dir' \in [Names -> {None} \cup Inodes]
        /\ dir'.tmp = used + 1 /\ dir'.wal = dir.wal /\ dir'.old = dir.old
    BY <2>1
  <2>3. tmp'[p] = dir'.tmp
    BY <2>1, <2>2
  <2> QED
    BY <1>2, <2>1, <2>2, <2>3 DEF CreateTmp, Goto
<1> QED
  BY <1>1, <1>2

\* The steps of the swap: the log moves aside, the new one in, the old one goes.
LEMMA Swapped ==
  ASSUME TypeOK, Created, NEW p \in Procs, RenameAside(p) \/ RenameIn(p) \/ Adopt(p)
  PROVE  /\ dir' \in [Names -> {None} \cup Inodes]
         /\ \A a \in Names : dir'[a] = None \/ \E b \in Names : dir'[a] = dir[b]
         /\ RenameAside(p) => \/ /\ dir.wal # None /\ pc' = [pc EXCEPT ![p] = "swapin"]
                                 /\ dir'.wal = None /\ dir'.old = dir.wal /\ dir'.tmp = dir.tmp
                                 /\ flock' = flock
                              \/ dir.wal = None /\ GiveUp(p)
         /\ RenameIn(p) => \/ /\ dir.tmp # None /\ pc' = [pc EXCEPT ![p] = "adopt"]
                              /\ dir'.wal = dir.tmp /\ dir'.tmp = None /\ dir'.old = dir.old
                              /\ flock' = flock
                           \/ dir.tmp = None /\ GiveUp(p)
         /\ Adopt(p) => \/ /\ pc' = [pc EXCEPT ![p] = "open"]
                           /\ dir'.wal = dir.wal /\ dir'.tmp = dir.tmp /\ dir'.old = None
                           /\ fd' = [fd EXCEPT ![p] = tmp[p]]
                           /\ flock' = [flock EXCEPT ![fd[p]] = IF @ = p THEN NoProc ELSE @]
                           /\ exposed' = exposed
                        \/ GiveUp(p) /\ exposed' = TRUE /\ fd' = fd
<1> USE DEF TypeOK, Names
<1>1. CASE RenameAside(p)
  BY <1>1 DEF RenameAside, RenameIn, Adopt, GiveUp, Goto
<1>2. CASE RenameIn(p)
  BY <1>2 DEF RenameAside, RenameIn, Adopt, GiveUp, Goto
<1>3. CASE Adopt(p)
  BY <1>3 DEF RenameAside, RenameIn, Adopt, GiveUp, Goto
<1> QED
  BY <1>1, <1>2, <1>3

-----------------------------------------------------------------------------
(* The invariant is inductive. *)

\* A name is given to one file, a new file to no other name.
DirOK ==
  /\ dir \in [Names -> {None} \cup Inodes] /\ used \in 0 .. MaxInode
  /\ \A a, b \in Names : dir[a] # None /\ dir[a] = dir[b] => a = b

\* The types of the other variables.
RestOK ==
  /\ content \in [Inodes -> SUBSET Facts]
  /\ flock \in [Inodes -> Procs \cup {NoProc}]
  /\ pc \in [Procs -> Steps]
  /\ fd \in [Procs -> {None} \cup Inodes] /\ tmp \in [Procs -> {None} \cup Inodes]
  /\ graph \in [Procs -> SUBSET Facts] /\ acked \subseteq Facts /\ exposed \in BOOLEAN

LEMMA DirStep ==
  ASSUME TypeOK, Created, [Next]_vars
  PROVE  DirOK'
<1> USE DEF TypeOK, Created, Names, Inodes, None, DirOK
<1>1. ASSUME NEW p \in Procs, OpenFile(p) PROVE DirOK'
  BY <1>1, Opened
<1>2. ASSUME NEW p \in Procs, Lock(p) PROVE DirOK'
  BY <1>2 DEF Lock, Goto
<1>3. ASSUME NEW p \in Procs, Replay(p) PROVE DirOK'
  BY <1>3 DEF Replay, Unlocked, Goto
<1>4. ASSUME NEW p \in Procs, NEW f \in Facts, Write(p, f) PROVE DirOK'
  BY <1>4 DEF Write
<1>5. ASSUME NEW p \in Procs, CreateTmp(p) PROVE DirOK'
  BY <1>5, TmpCreated
<1>6. ASSUME NEW p \in Procs, LockTmp(p) PROVE DirOK'
  BY <1>6 DEF LockTmp, Goto
<1>7. ASSUME NEW p \in Procs, FillTmp(p) PROVE DirOK'
  BY <1>7 DEF FillTmp, GiveUp, Goto
<1>8. ASSUME NEW p \in Procs, RenameAside(p) PROVE DirOK'
  <2>1. /\ dir' \in [Names -> {None} \cup Inodes] /\ used' = used
        /\ dir' = dir \/ (dir'.wal = None /\ dir'.old = dir.wal /\ dir'.tmp = dir.tmp)
    BY <1>8, Swapped DEF RenameAside, GiveUp
  <2> QED
    BY <2>1
<1>9. ASSUME NEW p \in Procs, RenameIn(p) PROVE DirOK'
  <2>1. /\ dir' \in [Names -> {None} \cup Inodes] /\ used' = used
        /\ dir' = dir \/ (dir'.wal = dir.tmp /\ dir'.tmp = None /\ dir'.old = dir.old)
    BY <1>9, Swapped DEF RenameIn, GiveUp
  <2> QED
    BY <2>1
<1>10. ASSUME NEW p \in Procs, Adopt(p) PROVE DirOK'
  BY <1>10, Swapped DEF Adopt, GiveUp, Goto
<1>11. ASSUME NEW p \in Procs, Die(p) PROVE DirOK'
  BY <1>11 DEF Die, Unlocked, Goto
<1>12. CASE UNCHANGED vars
  BY <1>12 DEF vars
<1> QED
  BY <1>1, <1>2, <1>3, <1>4, <1>5, <1>6, <1>7, <1>8, <1>9, <1>10, <1>11, <1>12 DEF Next, Compact

LEMMA RestStep ==
  ASSUME TypeOK, Created, [Next]_vars
  PROVE  RestOK'
<1> USE SwapAssumption DEF TypeOK, Created, Inodes, None, RestOK, Steps
<1>1. ASSUME NEW p \in Procs, OpenFile(p) PROVE RestOK'
  <2>1. exposed' \in BOOLEAN
    BY <1>1, Zenon DEF OpenFile
  <2>2. /\ fd' = [fd EXCEPT ![p] = dir'.wal] /\ pc' = [pc EXCEPT ![p] = "lock"]
        /\ dir'.wal \in Inodes
        /\ UNCHANGED <<content, flock, tmp, graph, acked>>
    BY <1>1, Opened
  <2> QED
    BY <2>1, <2>2
<1>2. ASSUME NEW p \in Procs, Lock(p) PROVE RestOK'
  <2>1. exposed' \in BOOLEAN
    BY <1>2, Zenon DEF Lock
  <2>2. pc' \in [Procs -> Steps]
    BY <1>2 DEF Lock, Goto
  <2>3. flock' \in [Inodes -> Procs \cup {NoProc}]
    BY <1>2 DEF Lock
  <2>4. UNCHANGED <<content, fd, tmp, graph, acked>>
    BY <1>2 DEF Lock, GiveUp
  <2> QED
    BY <2>1, <2>2, <2>3, <2>4
<1>3. ASSUME NEW p \in Procs, Replay(p) PROVE RestOK'
  BY <1>3 DEF Replay, Unlocked, Goto
<1>4. ASSUME NEW p \in Procs, NEW f \in Facts, Write(p, f) PROVE RestOK'
  BY <1>4 DEF Write
<1>5. ASSUME NEW p \in Procs, CreateTmp(p) PROVE RestOK'
  <2>1. /\ tmp' = [tmp EXCEPT ![p] = dir'.tmp] /\ pc' = [pc EXCEPT ![p] = "locktmp"]
        /\ dir'.tmp \in Inodes /\ content' = [content EXCEPT ![dir'.tmp] = {}]
        /\ UNCHANGED <<flock, fd, graph, acked, exposed>>
    BY <1>5, TmpCreated
  <2> QED
    BY <2>1
<1>6. ASSUME NEW p \in Procs, LockTmp(p) PROVE RestOK'
  BY <1>6, SMTT(30) DEF LockTmp, Goto
<1>7. ASSUME NEW p \in Procs, FillTmp(p) PROVE RestOK'
  <2>1. PICK part \in SUBSET graph[p] : content' = [content EXCEPT ![tmp[p]] = part]
    BY <1>7 DEF FillTmp
  <2>2. part \subseteq Facts
    OBVIOUS
  <2>3. content' \in [Inodes -> SUBSET Facts]
    BY <2>1, <2>2
  <2>4. pc' \in [Procs -> Steps]
    BY <1>7 DEF FillTmp, GiveUp, Goto
  <2>5. flock' \in [Inodes -> Procs \cup {NoProc}]
    BY <1>7 DEF FillTmp, GiveUp
  <2>6. UNCHANGED <<fd, tmp, graph, acked, exposed>>
    BY <1>7 DEF FillTmp
  <2> QED
    BY <2>3, <2>4, <2>5, <2>6
<1>8. ASSUME NEW p \in Procs, RenameAside(p) PROVE RestOK'
  <2>1. pc' \in [Procs -> Steps]
    BY <1>8 DEF RenameAside, GiveUp, Goto
  <2>2. flock' \in [Inodes -> Procs \cup {NoProc}]
    BY <1>8 DEF RenameAside, GiveUp, Goto
  <2>3. UNCHANGED <<content, fd, tmp, graph, acked, exposed>>
    BY <1>8 DEF RenameAside, GiveUp
  <2> QED
    BY <2>1, <2>2, <2>3
<1>9. ASSUME NEW p \in Procs, RenameIn(p) PROVE RestOK'
  <2>1. pc' \in [Procs -> Steps]
    BY <1>9 DEF RenameIn, GiveUp, Goto
  <2>2. flock' \in [Inodes -> Procs \cup {NoProc}]
    BY <1>9 DEF RenameIn, GiveUp, Goto
  <2>3. UNCHANGED <<content, fd, tmp, graph, acked, exposed>>
    BY <1>9 DEF RenameIn, GiveUp
  <2> QED
    BY <2>1, <2>2, <2>3
<1>10. ASSUME NEW p \in Procs, Adopt(p) PROVE RestOK'
  <2>1. pc' \in [Procs -> Steps]
    BY <1>10 DEF Adopt, GiveUp, Goto
  <2>2. flock' \in [Inodes -> Procs \cup {NoProc}]
    BY <1>10 DEF Adopt, GiveUp, Goto
  <2>3. fd' \in [Procs -> {None} \cup Inodes]
    BY <1>10 DEF Adopt
  <2>4. exposed' \in BOOLEAN
    BY <1>10 DEF Adopt
  <2>5. UNCHANGED <<content, tmp, graph, acked>>
    BY <1>10 DEF Adopt, GiveUp
  <2> QED
    BY <2>1, <2>2, <2>3, <2>4, <2>5
<1>11. ASSUME NEW p \in Procs, Die(p) PROVE RestOK'
  BY <1>11 DEF Die, Unlocked, Goto
<1>12. CASE UNCHANGED vars
  BY <1>12 DEF vars
<1> QED
  BY <1>1, <1>2, <1>3, <1>4, <1>5, <1>6, <1>7, <1>8, <1>9, <1>10, <1>11, <1>12 DEF Next, Compact

LEMMA CreatedStep ==
  ASSUME TypeOK, Created, [Next]_vars
  PROVE  Created'
<1> USE SwapAssumption DEF TypeOK, Created, Names, Inodes, None
<1>1. ASSUME NEW p \in Procs, OpenFile(p) PROVE Created'
  BY <1>1, Opened
<1>2. ASSUME NEW p \in Procs, Lock(p) PROVE Created'
  BY <1>2 DEF Lock, Goto
<1>3. ASSUME NEW p \in Procs, Replay(p) PROVE Created'
  BY <1>3 DEF Replay, Unlocked, Goto
<1>4. ASSUME NEW p \in Procs, NEW f \in Facts, Write(p, f) PROVE Created'
  BY <1>4 DEF Write
<1>5. ASSUME NEW p \in Procs, CreateTmp(p) PROVE Created'
  BY <1>5, TmpCreated
<1>6. ASSUME NEW p \in Procs, LockTmp(p) PROVE Created'
  BY <1>6 DEF LockTmp, Goto
<1>7. ASSUME NEW p \in Procs, FillTmp(p) PROVE Created'
  BY <1>7 DEF FillTmp, GiveUp, Goto
<1>8. ASSUME NEW p \in Procs, RenameAside(p) PROVE Created'
  <2>1. \A a \in Names : dir'[a] = None \/ \E b \in Names : dir'[a] = dir[b]
    BY <1>8, Swapped
  <2>2. /\ pc[p] = "aside" /\ pc' \in [Procs -> Steps] /\ pc'[p] \in {"swapin", "wedged"}
        /\ \A q \in Procs \ {p} : pc'[q] = pc[q]
    BY <1>8 DEF RenameAside, GiveUp, Goto, Steps
  <2>3. UNCHANGED <<used, fd, tmp, acked>>
    BY <1>8 DEF RenameAside
  <2> QED
    BY <2>1, <2>2, <2>3
<1>9. ASSUME NEW p \in Procs, RenameIn(p) PROVE Created'
  <2>1. \A a \in Names : dir'[a] = None \/ \E b \in Names : dir'[a] = dir[b]
    BY <1>9, Swapped
  <2>2. /\ pc[p] = "swapin" /\ pc' \in [Procs -> Steps] /\ pc'[p] \in {"adopt", "wedged"}
        /\ \A q \in Procs \ {p} : pc'[q] = pc[q]
    BY <1>9 DEF RenameIn, GiveUp, Goto, Steps
  <2>3. UNCHANGED <<used, fd, tmp, acked>>
    BY <1>9 DEF RenameIn
  <2> QED
    BY <2>1, <2>2, <2>3
<1>10. ASSUME NEW p \in Procs, Adopt(p) PROVE Created'
  <2>1. \A a \in Names : dir'[a] = None \/ \E b \in Names : dir'[a] = dir[b]
    BY <1>10, Swapped
  <2>2. /\ pc[p] = "adopt" /\ pc' \in [Procs -> Steps] /\ pc'[p] \in {"open", "wedged"}
        /\ \A q \in Procs \ {p} : pc'[q] = pc[q]
    BY <1>10 DEF Adopt, GiveUp, Goto, Steps
  <2>3. UNCHANGED <<used, tmp, acked>> /\ (fd'[p] = fd[p] \/ fd'[p] = tmp[p])
        /\ \A q \in Procs \ {p} : fd'[q] = fd[q]
    BY <1>10 DEF Adopt
  <2> QED
    BY <2>1, <2>2, <2>3
<1>11. ASSUME NEW p \in Procs, Die(p) PROVE Created'
  BY <1>11 DEF Die, Unlocked, Goto
<1>12. CASE UNCHANGED vars
  BY <1>12 DEF vars
<1> QED
  BY <1>1, <1>2, <1>3, <1>4, <1>5, <1>6, <1>7, <1>8, <1>9, <1>10, <1>11, <1>12 DEF Next, Compact

\* The lock is continuous, over a compaction too.
LEMMA LockedStep ==
  ASSUME TypeOK, Created, Locked, [Next]_vars
  PROVE  Locked'
<1> USE SwapAssumption DEF TypeOK, Created, Names, Inodes, None, Locked, Owner
<1>1. ASSUME NEW p \in Procs, OpenFile(p) PROVE Locked'
  <2>1. /\ UNCHANGED <<flock, tmp>> /\ pc[p] = "down" /\ pc' = [pc EXCEPT ![p] = "lock"]
        /\ \A q \in Procs \ {p} : fd'[q] = fd[q]
    BY <1>1, Opened
  <2> QED
    BY <2>1
<1>2. ASSUME NEW p \in Procs, Lock(p) PROVE Locked'
  <2>1. /\ UNCHANGED <<fd, tmp>> /\ pc[p] = "lock"
        /\ \/ pc' = [pc EXCEPT ![p] = "down"] /\ flock' = flock
           \/ /\ pc' = [pc EXCEPT ![p] = "replay"] /\ flock[fd[p]] = NoProc
              /\ flock' = [flock EXCEPT ![fd[p]] = p]
    BY <1>2 DEF Lock, Goto
  <2> QED
    BY <2>1
<1>3. ASSUME NEW p \in Procs, Replay(p) PROVE Locked'
  BY <1>3 DEF Replay, Unlocked, Goto
<1>4. ASSUME NEW p \in Procs, NEW f \in Facts, Write(p, f) PROVE Locked'
  BY <1>4 DEF Write
<1>5. ASSUME NEW p \in Procs, CreateTmp(p) PROVE Locked'
  <2>1. /\ pc[p] = "open" /\ pc' = [pc EXCEPT ![p] = "locktmp"]
        /\ \A q \in Procs \ {p} : tmp'[q] = tmp[q]
        /\ flock' = flock /\ fd' = fd
    BY <1>5, TmpCreated
  <2> QED
    BY <2>1
<1>6. ASSUME NEW p \in Procs, LockTmp(p) PROVE Locked'
  BY <1>6 DEF LockTmp, Goto
<1>7. ASSUME NEW p \in Procs, FillTmp(p) PROVE Locked'
  <2>1. /\ pc[p] = "filltmp" /\ fd' = fd /\ tmp' = tmp
        /\ \A q \in Procs \ {p} : pc'[q] = pc[q]
        /\ \/ pc'[p] = "aside" /\ flock' = flock
           \/ pc'[p] = "wedged" /\ flock' = [flock EXCEPT ![tmp[p]] = IF @ = p THEN NoProc ELSE @]
    BY <1>7 DEF FillTmp, GiveUp, Goto
  <2> QED
    BY <2>1, SMTT(30)
<1>8. ASSUME NEW p \in Procs, RenameAside(p) PROVE Locked'
  <2>1. /\ UNCHANGED <<fd, tmp>> /\ pc[p] = "aside"
        /\ \/ pc' = [pc EXCEPT ![p] = "swapin"] /\ flock' = flock
           \/ /\ pc' = [pc EXCEPT ![p] = "wedged"]
              /\ flock' = [flock EXCEPT ![tmp[p]] = IF @ = p THEN NoProc ELSE @]
    BY <1>8 DEF RenameAside, GiveUp, Goto
  <2> QED
    BY <2>1, SMTT(30)
<1>9. ASSUME NEW p \in Procs, RenameIn(p) PROVE Locked'
  <2>1. /\ UNCHANGED <<fd, tmp>> /\ pc[p] = "swapin"
        /\ \/ pc' = [pc EXCEPT ![p] = "adopt"] /\ flock' = flock
           \/ /\ pc' = [pc EXCEPT ![p] = "wedged"]
              /\ flock' = [flock EXCEPT ![tmp[p]] = IF @ = p THEN NoProc ELSE @]
    BY <1>9 DEF RenameIn, GiveUp, Goto
  <2> QED
    BY <2>1, SMTT(30)
<1>10. ASSUME NEW p \in Procs, Adopt(p) PROVE Locked'
  <2>1. /\ UNCHANGED tmp /\ pc[p] = "adopt"
        /\ \/ /\ pc' = [pc EXCEPT ![p] = "open"] /\ fd' = [fd EXCEPT ![p] = tmp[p]]
              /\ flock' = [flock EXCEPT ![fd[p]] = IF @ = p THEN NoProc ELSE @]
           \/ /\ pc' = [pc EXCEPT ![p] = "wedged"] /\ fd' = fd
              /\ flock' = [flock EXCEPT ![tmp[p]] = IF @ = p THEN NoProc ELSE @]
    BY <1>10 DEF Adopt, GiveUp, Goto
  <2>2. \A q \in Procs \ {p} : pc'[q] = pc[q] /\ fd'[q] = fd[q] /\ (Owner(q) => fd[q] \notin {fd[p], tmp[p]})
    BY <2>1, SMTT(30)
  <2> QED
    BY <2>1, <2>2, SMTT(30)
<1>11. ASSUME NEW p \in Procs, Die(p) PROVE Locked'
  BY <1>11 DEF Die, Unlocked, Goto
<1>12. CASE UNCHANGED vars
  BY <1>12 DEF vars
<1> QED
  BY <1>1, <1>2, <1>3, <1>4, <1>5, <1>6, <1>7, <1>8, <1>9, <1>10, <1>11, <1>12 DEF Next, Compact

\* Two owners would hold the lock of one file.
LEMMA OwnersMeet ==
  ASSUME TypeOK, Created, Locked, Placed
  PROVE  OneOwner
<1> SUFFICES ASSUME ~exposed, NEW p \in Procs, NEW q \in Procs, Owner(p), Owner(q) PROVE p = q
  BY DEF OneOwner
<1>1. /\ pc[p] \in {"replay", "open", "locktmp", "filltmp", "aside", "wedged", "swapin", "adopt"}
      /\ pc[q] \in {"replay", "open", "locktmp", "filltmp", "aside", "wedged", "swapin", "adopt"}
  BY DEF TypeOK, Owner
<1>2. fd[p] # None /\ fd[q] # None /\ flock[fd[p]] = p /\ flock[fd[q]] = q
  BY DEF Created, Locked, Owner, None
<1>3. \/ dir.wal = fd[p]
      \/ dir.wal = None /\ dir.old = fd[p]
      \/ dir.wal = tmp[p] /\ dir.wal # None /\ flock[tmp[p]] = p
  BY <1>1 DEF Placed, Locked, Created, None
<1>4. \/ dir.wal = fd[q]
      \/ dir.wal = None /\ dir.old = fd[q]
      \/ dir.wal = tmp[q] /\ dir.wal # None /\ flock[tmp[q]] = q
  BY <1>1 DEF Placed, Locked, Created, None
<1> QED
  BY <1>2, <1>3, <1>4

LEMMA PlacedStep ==
  ASSUME TypeOK, Created, Locked, Placed, [Next]_vars
  PROVE  Placed'
<1> USE OwnersMeet, SwapAssumption DEF TypeOK, Created, Names, Inodes, None, Locked, Placed, OneOwner, Owner
<1>1. ASSUME NEW p \in Procs, OpenFile(p) PROVE Placed'
  <2> SUFFICES ASSUME ~exposed' PROVE Placed'
    OBVIOUS
  <2>0. exposed' = (exposed \/ (dir.wal = None /\ used > 0))
    BY <1>1 DEF OpenFile
  <2>1. ~exposed /\ ~(dir.wal = None /\ used > 0)
    BY <2>0, Zenon
  <2>2. /\ dir'.tmp = dir.tmp /\ dir'.old = dir.old /\ tmp' = tmp
        /\ fd' = [fd EXCEPT ![p] = dir'.wal] /\ pc[p] = "down" /\ pc' = [pc EXCEPT ![p] = "lock"]
    BY <1>1, Opened
  <2>3. (dir'.wal = dir.wal) \/ used = 0
    BY <1>1, <2>1, Opened
  <2>4. used = 0 => \A q \in Procs : pc[q] = "down"
    OBVIOUS
  <2> QED
    BY <2>1, <2>2, <2>3, <2>4
<1>2. ASSUME NEW p \in Procs, Lock(p) PROVE Placed'
  <2> SUFFICES ASSUME ~exposed' PROVE Placed'
    OBVIOUS
  <2>1. UNCHANGED <<dir, fd, tmp>> /\ pc[p] = "lock"
    BY <1>2 DEF Lock
  <2>2. CASE pc' = [pc EXCEPT ![p] = "replay"] /\ exposed' = (exposed \/ dir.wal # fd[p])
    <3>1. ~exposed /\ dir.wal = fd[p]
      BY <2>2, Zenon
    <3> QED
      BY <2>1, <2>2, <3>1
  <2>3. CASE pc' = [pc EXCEPT ![p] = "down"] /\ exposed' = exposed
    BY <2>1, <2>3
  <2> QED
    BY <1>2, <2>2, <2>3 DEF Lock, Goto
<1>3. ASSUME NEW p \in Procs, Replay(p) PROVE Placed'
  BY <1>3 DEF Replay, Unlocked, Goto
<1>4. ASSUME NEW p \in Procs, NEW f \in Facts, Write(p, f) PROVE Placed'
  BY <1>4 DEF Write
<1>5. ASSUME NEW p \in Procs, CreateTmp(p) PROVE Placed'
  <2>1. /\ dir'.wal = dir.wal /\ dir'.old = dir.old /\ fd' = fd /\ exposed' = exposed
        /\ tmp' = [tmp EXCEPT ![p] = dir'.tmp] /\ pc[p] = "open" /\ pc' = [pc EXCEPT ![p] = "locktmp"]
    BY <1>5, TmpCreated
  <2>2. ~exposed => \A q \in Procs \ {p} : pc[q] \in {"down", "lock"}
    BY <2>1
  <2> QED
    BY <2>1, <2>2
<1>6. ASSUME NEW p \in Procs, LockTmp(p) PROVE Placed'
  BY <1>6 DEF LockTmp, Goto
<1>7. ASSUME NEW p \in Procs, FillTmp(p) PROVE Placed'
  BY <1>7 DEF FillTmp, GiveUp, Goto
<1>8. ASSUME NEW p \in Procs, RenameAside(p) PROVE Placed'
  <2> SUFFICES ASSUME ~exposed PROVE Placed'
    BY <1>8 DEF RenameAside
  <2>1. \A q \in Procs \ {p} : pc[q] \in {"down", "lock"}
    BY <1>8 DEF RenameAside
  <2>2. pc[p] = "aside" /\ UNCHANGED <<fd, tmp>>
    BY <1>8 DEF RenameAside
  <2>3. dir.wal # None
    BY <2>2
  <2>4. pc' = [pc EXCEPT ![p] = "swapin"] /\ dir'.wal = None /\ dir'.old = dir.wal /\ dir'.tmp = dir.tmp
    BY <1>8, <2>3, Swapped DEF GiveUp
  <2> QED
    BY <2>1, <2>2, <2>4
<1>9. ASSUME NEW p \in Procs, RenameIn(p) PROVE Placed'
  <2> SUFFICES ASSUME ~exposed PROVE Placed'
    BY <1>9 DEF RenameIn
  <2>1. \A q \in Procs \ {p} : pc[q] \in {"down", "lock"}
    BY <1>9 DEF RenameIn
  <2>2. pc[p] = "swapin" /\ UNCHANGED <<fd, tmp>>
    BY <1>9 DEF RenameIn
  <2>3. dir.tmp # None
    BY <2>2
  <2>4. pc' = [pc EXCEPT ![p] = "adopt"] /\ dir'.wal = dir.tmp /\ dir'.tmp = None /\ dir'.old = dir.old
    BY <1>9, <2>3, Swapped DEF GiveUp
  <2> QED
    BY <2>1, <2>2, <2>4
<1>10. ASSUME NEW p \in Procs, Adopt(p) PROVE Placed'
  BY <1>10, Swapped DEF Adopt, GiveUp, Goto
<1>11. ASSUME NEW p \in Procs, Die(p) PROVE Placed'
  BY <1>11 DEF Die, Unlocked, Goto
<1>12. CASE UNCHANGED vars
  BY <1>12 DEF vars
<1> QED
  BY <1>1, <1>2, <1>3, <1>4, <1>5, <1>6, <1>7, <1>8, <1>9, <1>10, <1>11, <1>12 DEF Next, Compact

LEMMA KeptStep ==
  ASSUME TypeOK, Created, Locked, Placed, Kept, [Next]_vars
  PROVE  Kept'
<1> USE OwnersMeet, SwapAssumption DEF TypeOK, Created, Names, Inodes, None, Locked, Placed, OneOwner, Owner, Kept, AckedInGraph, Live
<1>1. ASSUME NEW p \in Procs, OpenFile(p) PROVE Kept'
  <2> SUFFICES ASSUME ~exposed' PROVE Kept'
    OBVIOUS
  <2>0. exposed' = (exposed \/ (dir.wal = None /\ used > 0))
    BY <1>1 DEF OpenFile
  <2>1. ~exposed /\ ~(dir.wal = None /\ used > 0)
    BY <2>0, Zenon
  <2>2. (dir'.wal = dir.wal) \/ acked = {}
    BY <1>1, <2>1, Opened
  <2>3. /\ UNCHANGED <<content, graph, acked, tmp>>
        /\ pc[p] = "down" /\ pc' = [pc EXCEPT ![p] = "lock"]
    BY <1>1, Opened
  <2> QED
    BY <2>1, <2>2, <2>3
<1>2. ASSUME NEW p \in Procs, Lock(p) PROVE Kept'
  <2> SUFFICES ASSUME ~exposed' PROVE Kept'
    OBVIOUS
  <2>1. ~exposed
    BY <1>2, Zenon DEF Lock
  <2>2. UNCHANGED <<dir, content, tmp, graph, acked>> /\ pc[p] = "lock"
    BY <1>2 DEF Lock
  <2>3. \E l \in {"replay", "down"} : pc' = [pc EXCEPT ![p] = l]
    BY <1>2 DEF Lock, Goto
  <2> QED
    BY <2>1, <2>2, <2>3
<1>3. ASSUME NEW p \in Procs, Replay(p) PROVE Kept'
  <2> SUFFICES ASSUME ~exposed PROVE Kept'
    BY <1>3 DEF Replay
  <2>1. UNCHANGED <<dir, content, tmp, acked>>
    BY <1>3 DEF Replay
  <2>2. CASE graph' = [graph EXCEPT ![p] = content[dir.wal]] /\ dir.wal # None /\ pc' = [pc EXCEPT ![p] = "open"]
    <3>1. acked \subseteq graph'[p]
      BY <2>2
    <3> QED
      BY <2>1, <2>2, <3>1
  <2>3. CASE graph' = graph /\ pc' = [pc EXCEPT ![p] = "down"]
    BY <2>1, <2>3
  <2> QED
    BY <1>3, <2>2, <2>3 DEF Replay, Goto
<1>4. ASSUME NEW p \in Procs, NEW f \in Facts, Write(p, f) PROVE Kept'
  <2> SUFFICES ASSUME ~exposed PROVE Kept'
    BY <1>4 DEF Write
  <2>1. \A q \in Procs \ {p} : pc[q] \in {"down", "lock"}
    BY <1>4 DEF Write
  <2>2. /\ pc[p] = "open" /\ UNCHANGED <<dir, pc, tmp>> /\ dir.wal = fd[p]
        /\ acked' = acked \cup {f}
    BY <1>4 DEF Write
  <2>3. acked' \subseteq content'[dir.wal]
    <3>1. content'[dir.wal] = content[dir.wal] \cup {f} /\ dir.wal \in Inodes
      BY <1>4, <2>2 DEF Write
    <3> QED
      BY <2>2, <3>1
  <2>4. acked' \subseteq graph'[p]
    <3>1. graph'[p] = graph[p] \cup {f}
      BY <1>4 DEF Write
    <3> QED
      BY <2>2, <3>1
  <2> QED
    BY <2>1, <2>2, <2>3, <2>4
<1>5. ASSUME NEW p \in Procs, CreateTmp(p) PROVE Kept'
  <2> SUFFICES ASSUME ~exposed PROVE Kept'
    BY <1>5 DEF CreateTmp
  <2>1. \A q \in Procs \ {p} : pc[q] \in {"down", "lock"}
    BY <1>5 DEF CreateTmp
  <2>2. /\ dir'.wal = dir.wal /\ pc[p] = "open" /\ pc' = [pc EXCEPT ![p] = "locktmp"]
        /\ UNCHANGED <<graph, acked>>
    BY <1>5, TmpCreated
  <2>3. dir.wal # dir'.tmp
    <3>1. \A a, b \in Names : dir[a] # None /\ dir[a] = dir[b] => a = b
      OBVIOUS
    <3> QED
      BY <1>5, <3>1, TmpCreated
  <2>4. dir.wal # None => content'[dir.wal] = content[dir.wal]
    BY <1>5, <2>3, TmpCreated
  <2>5. dir'.wal # None => acked' \subseteq content'[dir'.wal]
    BY <2>2, <2>4
  <2>6. AckedInGraph'
    BY <2>1, <2>2
  <2>7. \A q \in Procs : pc'[q] \notin {"aside", "swapin"}
    <3>1. pc \in [Procs -> Steps] /\ pc' = [pc EXCEPT ![p] = "locktmp"]
      BY <2>2 DEF Steps
    <3> HIDE DEF TypeOK, Created, Locked, Placed, Kept, OneOwner
    <3> QED
      BY <2>1, <3>1
  <2> QED
    BY <2>5, <2>6, <2>7
<1>6. ASSUME NEW p \in Procs, LockTmp(p) PROVE Kept'
  BY <1>6 DEF LockTmp, Goto
<1>7. ASSUME NEW p \in Procs, FillTmp(p) PROVE Kept'
  <2> SUFFICES ASSUME ~exposed PROVE Kept'
    BY <1>7 DEF FillTmp
  <2>1. \A q \in Procs \ {p} : pc[q] \in {"down", "lock"}
    BY <1>7 DEF FillTmp
  <2>2. /\ pc[p] = "filltmp" /\ UNCHANGED <<tmp, graph, acked>> /\ dir' = dir
    BY <1>7 DEF FillTmp, GiveUp
  <2>3. dir.wal = fd[p] /\ tmp[p] # fd[p] /\ tmp[p] \in Inodes /\ acked \subseteq graph[p]
    BY <2>2
  <2>4. content'[dir.wal] = content[dir.wal]
    BY <1>7, <2>3 DEF FillTmp
  <2>5. \/ pc' = [pc EXCEPT ![p] = "aside"] /\ content'[tmp[p]] = graph[p]
        \/ pc' = [pc EXCEPT ![p] = "wedged"]
    BY <1>7, <2>3 DEF FillTmp, GiveUp, Goto
  <2>6. dir'.wal # None => acked' \subseteq content'[dir'.wal]
    BY <2>2, <2>4
  <2>7. AckedInGraph'
    BY <2>1, <2>2, <2>3, <2>5
  <2>8. \A q \in Procs : pc'[q] \in {"aside", "swapin"} => acked' \subseteq content'[tmp'[q]]
    <3>1. pc \in [Procs -> Steps] /\ acked \subseteq graph[p]
      BY <2>3 DEF Steps
    <3> HIDE DEF TypeOK, Created, Locked, Placed, Kept, OneOwner
    <3> QED
      BY <2>1, <2>2, <2>5, <3>1
  <2> QED
    BY <2>6, <2>7, <2>8
<1>8. ASSUME NEW p \in Procs, RenameAside(p) PROVE Kept'
  <2> SUFFICES ASSUME ~exposed PROVE Kept'
    BY <1>8 DEF RenameAside
  <2>1. \A q \in Procs \ {p} : pc[q] \in {"down", "lock"}
    BY <1>8 DEF RenameAside
  <2>2. pc[p] = "aside" /\ UNCHANGED <<content, tmp, graph, acked>> /\ dir.wal # None
    BY <1>8 DEF RenameAside
  <2>3. pc' = [pc EXCEPT ![p] = "swapin"] /\ dir'.wal = None
    BY <1>8, <2>2, Swapped DEF GiveUp
  <2> QED
    BY <2>1, <2>2, <2>3
<1>9. ASSUME NEW p \in Procs, RenameIn(p) PROVE Kept'
  <2> SUFFICES ASSUME ~exposed PROVE Kept'
    BY <1>9 DEF RenameIn
  <2>1. \A q \in Procs \ {p} : pc[q] \in {"down", "lock"}
    BY <1>9 DEF RenameIn
  <2>2. pc[p] = "swapin" /\ UNCHANGED <<content, tmp, graph, acked>> /\ dir.tmp # None
    BY <1>9 DEF RenameIn
  <2>3. pc' = [pc EXCEPT ![p] = "adopt"] /\ dir'.wal = tmp[p]
    BY <1>9, <2>2, Swapped DEF GiveUp
  <2> QED
    BY <2>1, <2>2, <2>3
<1>10. ASSUME NEW p \in Procs, Adopt(p) PROVE Kept'
  <2> SUFFICES ASSUME ~exposed' PROVE Kept'
    OBVIOUS
  <2>1. ~exposed /\ pc[p] = "adopt" /\ UNCHANGED <<content, tmp, graph, acked>> /\ dir'.wal = dir.wal
        /\ pc' = [pc EXCEPT ![p] = "open"]
    BY <1>10, Swapped DEF Adopt
  <2> QED
    BY <2>1
<1>11. ASSUME NEW p \in Procs, Die(p) PROVE Kept'
  BY <1>11 DEF Die, Unlocked, Goto
<1>12. CASE UNCHANGED vars
  BY <1>12 DEF vars
<1> QED
  BY <1>1, <1>2, <1>3, <1>4, <1>5, <1>6, <1>7, <1>8, <1>9, <1>10, <1>11, <1>12 DEF Next, Compact

-----------------------------------------------------------------------------
(* The theorems. *)

LEMMA InductiveInvariant == Spec => []IInv
<1>1. Init => IInv
  <2> SUFFICES ASSUME Init PROVE IInv
    OBVIOUS
  <2>1. DirOK
    BY SwapAssumption DEF Init, DirOK, Names, None
  <2>2. RestOK
    BY SwapAssumption DEF Init, RestOK, Steps, Inodes, None
  <2>3. /\ \A p \in Procs : pc[p] = "down"
        /\ dir = [wal |-> 0, tmp |-> 0, old |-> 0] /\ used = 0 /\ acked = {}
    BY DEF Init, None
  <2>4. Created
    BY <2>3 DEF Created, Names
  <2>5. Locked /\ Placed /\ Kept
    BY <2>3 DEF Locked, Owner, Placed, Kept, AckedInGraph, Live
  <2> QED
    BY <2>1, <2>2, <2>4, <2>5 DEF IInv, TypeOK, DirOK, RestOK, Names, Steps
<1>2. IInv /\ [Next]_vars => IInv'
  BY DirStep, RestStep, CreatedStep, LockedStep, PlacedStep, KeptStep DEF IInv, TypeOK, DirOK, RestOK, Names, Steps
<1> QED
  BY <1>1, <1>2, PTL DEF Spec

\* Names, locks, descriptors and contents keep their types, and a file never has
\* two of the names.
THEOREM TypeCorrect == Spec => []TypeOK
<1>1. IInv => TypeOK
  BY DEF IInv
<1> QED
  BY <1>1, InductiveInvariant, PTL

\* One writer, and nothing acknowledged that it does not have: through failed
\* opens, failed compactions and deaths at every step (persist.rs: open,
\* rewrite_wal, Drop), until an opener comes between the two renames.
THEOREM SafeWhileUnexposed == Spec => []SafeUnlessExposed
<1>1. IInv => SafeUnlessExposed
  <2> SUFFICES ASSUME IInv, ~exposed PROVE SingleWriter /\ AckedInGraph
    BY DEF SafeUnlessExposed
  <2>1. OneOwner
    BY OwnersMeet DEF IInv
  <2> QED
    BY <2>1 DEF IInv, OneOwner, Owner, Kept, SingleWriter, Live
<1> QED
  BY <1>1, InductiveInvariant, PTL

\* The writer appends to the file behind the name, and has the lock of the file
\* it appends to, also of the one it is about to append to (rewrite_wal).
THEOREM WriterOwnsItsLog == Spec => []WriterOwnsLog
<1>1. IInv => WriterOwnsLog
  BY DEF IInv, WriterOwnsLog, OwnsTheName, HoldsItsLock, Placed, Locked, Owner, Live
<1> QED
  BY <1>1, InductiveInvariant, PTL
=============================================================================
