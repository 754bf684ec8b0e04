-------------------------------- MODULE Fat --------------------------------
(***************************************************************************)
(* FAT32 as src/kernel/fat32.cpp keeps it on the disk, with the callers of *)
(* the shell (touch, write, cp, mkdir, rm, rm -r, mv) and of the system    *)
(* calls (open, read, write, close), and with power failures.              *)
(*                                                                         *)
(* No two operations overlap: all of them run with interrupts off.  So an  *)
(* operation is a plan of sector writes in the order in which the code     *)
(* issues them, and reads nothing that only a later write decides.  A step *)
(* is one operation.  It may complete; the power may fail after any number *)
(* of its writes, which shows every moment between two writes as well; or  *)
(* one write may fail.  If the code tests its result the operation gives   *)
(* up; if not it goes on, and what came of that is seen when the power     *)
(* next fails.  Failing reads, two failures in one operation and an        *)
(* exhausted heap are left out.                                            *)
(*                                                                         *)
(* Bytes are counted in clusters.  The second copy of the FAT, which the   *)
(* code writes after the first and never reads, is left out.  Directories  *)
(* other than the root hold files only.  A file is not erased or moved     *)
(* while a descriptor has it open: the code does not see to that, and a    *)
(* write through such a descriptor would damage the disk.                  *)
(***************************************************************************)
EXTENDS Integers, Sequences, FiniteSets, SequencesExt

CONSTANTS
  LastCluster, \* number of the last data cluster; the first is 2
  Root,      \* s_root_cluster
  SlotsPer,  \* directory entries in a cluster
  Names,     \* names the callers use ...
  LongNames, \* ... those of them that do not fit into 8.3 characters ...
  Shortened, \* ... and the name that make_83 cuts them down to
  Handles,   \* descriptors of fd_table
  MaxSize,   \* bound: size of a file, in clusters
  MaxEntries \* bound: entries on the disk

ASSUME FatAssumption ==
  /\ LastCluster \in Nat /\ Root \in 2..LastCluster
  /\ SlotsPer \in Nat \ {0, 1} /\ MaxSize \in Nat /\ MaxEntries \in Nat
  /\ LongNames \subseteq Names /\ Shortened \notin LongNames

VARIABLES
  fat,     \* the first FAT: what follows each cluster
  slot,    \* directory entries in each cluster used as a directory
  written, \* clusters with data that a write of their present file put there
  open,    \* fd_table: each descriptor's own copy of a directory entry
  cut,     \* the operation that was cut short, and the entries it was about
  harm     \* what has happened that the code does not guard against

vars == <<fat, slot, written, open, cut, harm>>
----------------------------------------------------------------------------
Clusters == 2..LastCluster

Free == 0
Eof  == 1

Slot(kind, name, cluster, size) ==
  [kind |-> kind, name |-> name, cluster |-> cluster, size |-> size]
\* First byte 0x00 or 0xE5.  A search ends at 0x00, but no entry ever comes after one:
\* write_dir_entry takes the first slot that is either.
Unused == Slot("unused", "", 0, 0)
Dot    == Slot("dot", "", 0, 0)    \* "." and "..", which every search skips
\* What an earlier owner left in the cluster; of how it reads as an entry nothing is said.
Leftover == Slot("leftover", "", 0, 0)

NoSlots == [i \in 1..SlotsPer |-> Unused]
Dots    == [i \in 1..SlotsPer |-> IF i <= 2 THEN Dot ELSE Unused]

Entries == [kind : {"file", "dir"}, name : (Names \ LongNames) \cup {Shortened},
            cluster : Clusters \cup {0}, size : 0..MaxSize]
Places  == Clusters \X (1..SlotsPer)

\* A node of vfs_disk.cpp with its Fat32Entry, and the descriptor's offset.
Copy(at, cluster, size) ==
  [at |-> at, cluster |-> cluster, size |-> size, off |-> 0]
Closed == Copy(<<0, 0>>, 0, 0)

\* The elements of s that are in S, in their order.
Only(s, S) ==
  LET upto[k \in 0..Len(s)] ==
        IF k = 0 THEN <<>>
        ELSE IF s[k] \in S THEN Append(upto[k-1], s[k]) ELSE upto[k-1]
  IN upto[Len(s)]

\* The clusters of the chain that starts at c in the table f, in order.  A chain ends at
\* whatever is not a cluster's number, and a loop, which damage may close, is cut off.
Follow(f, c) ==
  LET n == Cardinality(Clusters)
      hop[k \in 0..n] == IF k = 0 THEN c
                         ELSE IF hop[k-1] \in Clusters THEN f[hop[k-1]] ELSE Eof
  IN [k \in 1..Cardinality({j \in 1..n : hop[j-1] \in Clusters}) |-> hop[k-1]]

Chain(c) == Follow(fat, c)

FreeList == Only([k \in 1..LastCluster - 1 |-> k + 1], {c \in Clusters : fat[c] = Free})

At(p) == slot[p[1]][p[2]]

PlacesOf(d) ==
  LET chain == Chain(d)
  IN [j \in 1..Len(chain) * SlotsPer |->
        <<chain[((j - 1) \div SlotsPer) + 1], ((j - 1) % SlotsPer) + 1>>]

Listing(d) == Only(PlacesOf(d), {p \in Places : At(p).kind \in {"file", "dir"}})

\* The entries called n.  A search compares the whole name with what is stored, so that a
\* name that was cut down never matches.
Found(d, n) == Only(Listing(d), {p \in Places : At(p).name = n})

Stored(n) == IF n \in LongNames THEN Shortened ELSE n

Dirs == {Root} \cup {At(p).cluster : p \in {q \in Range(Listing(Root)) : At(q).kind = "dir"}}
Live == UNION {Range(Listing(d)) : d \in Dirs}
----------------------------------------------------------------------------
\* The writes.
SetFat(c, v)      == [k |-> "fat", c |-> c, v |-> v]
Blank(c, s)       == [k |-> "blank", c |-> c, s |-> s]
Put(p, e, ks)     == [k |-> "entry", p |-> p, e |-> e, ks |-> ks]
Update(p, f, ks)  == [k |-> "update", p |-> p, f |-> f, ks |-> ks]
Erase(p)          == [k |-> "erase", p |-> p]
Data(c)           == [k |-> "data", c |-> c]
Nothing           == [k |-> "none"]
\* ks are the descriptors whose copy the caller then has in memory: none or one.

\* write_dir_entry: into the first unused slot, or into a cluster added to the directory.
\* Empty when there is no space.
PutInto(d, e, free, ks) ==
  LET unused == Only(PlacesOf(d), {p \in Places : At(p).kind = "unused"})
  IN IF unused # <<>> THEN <<Put(Head(unused), e, ks)>>
     ELSE IF free = <<>> THEN <<>>
     ELSE LET c == Head(free)
          IN <<SetFat(c, Eof), Blank(c, NoSlots), SetFat(Last(Chain(d)), c),
              Put(<<c, 1>>, e, ks)>>

EraseAll(p) ==
  LET chain == Chain(At(p).cluster)
  IN [k \in 1..Len(chain) |-> SetFat(chain[k], Free)] \o <<Erase(p)>>

\* Faulty variants, here and below, stand before the definition they break.
LinkedUntaken(f, all, k, ks) ==
  IF k = 1 THEN <<SetFat(all[1], Eof), Update(f.at, [f EXCEPT !.cluster = all[1]], ks)>>
  ELSE <<SetFat(all[k-1], all[k]), SetFat(all[k], Eof)>>
SizedFirst(f, all, k, ks) ==
  <<SetFat(all[k], Eof),
    IF k = 1 THEN Update(f.at, [f EXCEPT !.cluster = all[1], !.size = 1], ks)
    ELSE SetFat(all[k-1], all[k])>>

\* The writes that give a file its kth cluster: its first is entered in the directory, another
\* is linked to the one before.
Link(f, all, k, ks) ==
  <<SetFat(all[k], Eof),
    IF k = 1 THEN Update(f.at, [f EXCEPT !.cluster = all[1]], ks)
    ELSE SetFat(all[k-1], all[k])>>

GrownAgain(f, all, end) == [f EXCEPT !.cluster = all[1], !.size = @ + end, !.off = end]

\* The entry after a write that came to the cluster number end.
Grown(f, all, end) ==
  [f EXCEPT !.cluster = all[1], !.size = IF end > @ THEN end ELSE @, !.off = end]

\* The writes for the kth cluster of the file: clusters that are missing are linked one by one
\* as they are reached, and those before the offset get no data.
Round(f, all, k, ks) ==
  (IF k > Len(Chain(f.cluster)) THEN Link(f, all, k, ks) ELSE <<>>)
    \o (IF k > f.off THEN <<Data(all[k])>> ELSE <<>>)

\* fat32_write of len clusters at f.off; a full disk ends it early.
WritePlan(f, len, ks) ==
  LET all == Chain(f.cluster) \o FreeList
      end == IF f.off + len <= Len(all) THEN f.off + len ELSE Len(all)
  IN FlattenSeq([k \in 1..end |-> Round(f, all, k, ks)])
     \o (IF end > f.off THEN <<Update(f.at, Grown(f, all, end), ks)>> ELSE <<>>)
----------------------------------------------------------------------------
\* A write through a copy that was made when the file was still empty gives it a chain of its
\* own, and the one it has got since is lost.
Hurts(f) == IF f.cluster = 0 /\ At(f.at).cluster # 0 THEN {"split"} ELSE {}

NotOpen(on) == \A h \in Handles : open[h].at \notin on

Whole == [name |-> "none", on |-> {}]

Apply(w, st) ==
  CASE w.k = "fat" /\ w.v # Free -> [st EXCEPT !.fat[w.c] = w.v]
    [] w.k = "fat" /\ w.v = Free ->
         [st EXCEPT !.fat[w.c] = Free, !.slot[w.c] = NoSlots, !.written = @ \ {w.c}]
    [] w.k = "blank" -> [st EXCEPT !.slot[w.c] = w.s]
    [] w.k = "data"  -> [st EXCEPT !.written = @ \cup {w.c}]
    [] w.k = "entry" ->
         [st EXCEPT !.slot[w.p[1]][w.p[2]] = w.e,
                    !.open = [h \in Handles |->
                                IF h \in w.ks THEN Copy(w.p, 0, 0) ELSE @[h]]]
    [] w.k = "update" ->  \* whoever has the slot that the copy remembers
         [st EXCEPT !.slot[w.p[1]][w.p[2]] =
                      IF @.kind # "file" THEN @
                      ELSE [@ EXCEPT !.cluster = w.f.cluster, !.size = w.f.size],
                    !.open = [h \in Handles |-> IF h \in w.ks THEN w.f ELSE @[h]]]
    [] w.k = "erase" -> [st EXCEPT !.slot[w.p[1]][w.p[2]] = Unused]
    [] w.k = "none"  -> st

Disk == [fat |-> fat, slot |-> slot, written |-> written, open |-> open]

\* What there is after each number of writes of the plan.
States(plan, start) ==
  LET st[k \in 0..Len(plan)] == IF k = 0 THEN start ELSE Apply(plan[k], st[k-1])
  IN st

Becomes(st) == /\ fat' = st.fat /\ slot' = st.slot /\ written' = st.written /\ open' = st.open

Completes(st, hurts) ==
  /\ Becomes(st)
  /\ harm' = harm \cup hurts
  /\ UNCHANGED cut

\* fat32_init and vfs_mount_fat32 find what is on the disk.
Crashed(st) == [st EXCEPT !.open = [h \in Handles |-> Closed]]

\* The power fails when the writes have come to st.
PowerFails(name, on, st) ==
  /\ Becomes(Crashed(st))
  /\ IF name \in {"unlink", "rmdir", "rename"}
     THEN harm' = harm \cup {name} /\ cut' = [name |-> name, on |-> on]
     ELSE harm' = harm \cup {"crash"} /\ UNCHANGED cut

ClusterKept(name, w, st) == st

\* mkdir frees its cluster when it cannot enter it; nothing else is undone.
Undone(name, w, st) == IF name = "mkdir" THEN Apply(SetFat(w.e.cluster, Free), st) ELSE st

\* The write w that comes after st fails, the code notices and the operation gives up: writing
\* data, an entry or the mark of a deleted one.  To give up before the last write of unlink,
\* rmdir or rename is as bad as a power failure.
WriteFails(name, on, st, w, hurts) ==
  /\ w.k \in {"data", "entry", "erase"}
  /\ Becomes(Undone(name, w, st))
  /\ harm' = harm \cup hurts \cup (IF w.k = "erase" THEN {name} ELSE {})
  /\ cut' = IF w.k = "erase" THEN [name |-> name, on |-> on] ELSE cut

\* What is on the disk instead when w fails and nobody notices: fat_set (:129, :139, :485, :518,
\* :610), cluster_write of a new directory cluster (:609, :673), update_dir_entry (:471, :528).
Missed(w) ==
  CASE w.k \in {"fat", "update"} -> Nothing
    [] w.k = "blank" -> Blank(w.c, [i \in 1..SlotsPer |-> Leftover])
    [] OTHER -> w

\* The kth write fails so, the operation goes on, and the power fails after the jth.  A sector
\* of the table that was not written stays in s_fat_cache, and goes to the disk with the next
\* write to the table.
Overlooks(name, on, plan, k, j) ==
  /\ plan[k].k \in {"fat", "blank", "update"}
  /\ plan[k].k = "fat" => \A i \in k+1..j : plan[i].k # "fat"
  /\ Becomes(Crashed(States([plan EXCEPT ![k] = Missed(@)], Disk)[j]))
  /\ harm' = harm \cup {"overlooked"} /\ cut' = [name |-> name, on |-> on]

\* A disk that has lost more than a few free clusters is not followed any further.
Ready == harm \subseteq {"crash"}

Perform(name, on, plan, hurts) ==
  LET st == States(plan, Disk)
  IN \E k \in 1..Len(plan) :
       \/ k = Len(plan) /\ Completes(st[k], hurts)
       \/ k < Len(plan) /\ PowerFails(name, on, st[k])
       \/ WriteFails(name, on, st[k-1], plan[k], hurts)
       \/ \E j \in k..Len(plan) : Overlooks(name, on, plan, k, j)

\* touch, cp's destination, open with O_CREAT (in ks the descriptor that it returns).
Create(d, n, ks) ==
  /\ Found(d, n) = <<>>
  /\ Perform("create", {}, PutInto(d, Slot("file", Stored(n), 0, 0), FreeList, ks), {})

Mkdir(n) ==
  LET c   == Head(FreeList)
      put == PutInto(Root, Slot("dir", Stored(n), c, 0), Tail(FreeList), {})
  IN /\ Found(Root, n) = <<>>
     /\ FreeList # <<>>
     /\ Perform("mkdir", IF put = <<>> THEN {} ELSE {Last(put).p},
                <<SetFat(c, Eof), Blank(c, Dots)>>
                  \o (IF put = <<>> THEN <<SetFat(c, Free)>> ELSE put), {})

\* write: a fresh copy, at offset 0.
ShellWrite(p, len) ==
  /\ At(p).kind = "file"
  /\ Perform("write", {p}, WritePlan(Copy(p, At(p).cluster, At(p).size), len, {}), {})

WriteFd(h, len) ==
  /\ open[h] # Closed /\ open[h].off + len <= MaxSize
  /\ Perform("write", {open[h].at}, WritePlan(open[h], len, {h}), Hurts(open[h]))

Unlink(p) ==
  /\ At(p).kind = "file" /\ NotOpen({p})
  /\ Perform("unlink", {p}, EraseAll(p), {})

\* The entries that rm -r erases: it asks for them by index while it deletes them, each by its
\* name, and so misses every second one.
Deleted(kids) ==
  LET left(s)    == Only(kids, Places \ Range(s))
      same(s, n) == Only(left(s), {q \in Places : At(q).name = n})
      upto[i \in 0..Len(kids)] ==
        IF i = 0 THEN <<>>
        ELSE LET s == upto[i-1]
             IN IF i > Len(left(s)) THEN s ELSE Append(s, Head(same(s, At(left(s)[i]).name)))
  IN upto[Len(kids)]

\* fat32_rmdir then removes the directory if nothing is left in it.
RemoveAll(p) ==
  LET kids == Listing(At(p).cluster)
      gone == Deleted(kids)
  IN /\ At(p).kind = "dir" /\ NotOpen(Range(kids))
     /\ Perform("rmdir", {p} \cup Range(gone),
                FlattenSeq([i \in 1..Len(gone) |-> EraseAll(gone[i])])
                  \o (IF Range(kids) = Range(gone) THEN EraseAll(p) ELSE <<>>), {})

\* mv: writes the new entry, then erases the old one.  A file that has the new name stays.
Rename(p, d, n) ==
  LET put == PutInto(d, [At(p) EXCEPT !.name = Stored(n)], FreeList, {})
  IN /\ At(p).kind = "dir" => d = Root
     /\ Found(d, n) # <<>> => At(Head(Found(d, n))).kind = "file"
     /\ put # <<>>
     /\ NotOpen({p})
     /\ Perform("rename", {p, Last(put).p}, put \o <<Erase(p)>>, {})

Open(h, p) ==
  /\ open[h] = Closed /\ At(p).kind = "file"
  /\ open' = [open EXCEPT ![h] = Copy(p, At(p).cluster, At(p).size)]
  /\ UNCHANGED <<fat, slot, written, cut, harm>>

Close(h) ==
  /\ open[h] # Closed
  /\ open' = [open EXCEPT ![h] = Closed]
  /\ UNCHANGED <<fat, slot, written, cut, harm>>

\* read: advances by what the copy's size and the chain give.
ReadFd(h) ==
  LET f   == open[h]
      end == IF f.size <= Len(Chain(f.cluster)) THEN f.size ELSE Len(Chain(f.cluster))
  IN /\ f.off < end
     /\ open' = [open EXCEPT ![h].off = @ + 1]
     /\ UNCHANGED <<fat, slot, written, cut, harm>>
----------------------------------------------------------------------------
Restart ==
  /\ open # [h \in Handles |-> Closed]
  /\ open' = [h \in Handles |-> Closed]
  /\ UNCHANGED <<fat, slot, written, cut, harm>>
----------------------------------------------------------------------------
Init ==
  /\ fat = [c \in Clusters |-> IF c = Root THEN Eof ELSE Free]
  /\ slot = [c \in Clusters |-> NoSlots]
  /\ written = {}
  /\ open = [h \in Handles |-> Closed]
  /\ cut = Whole
  /\ harm = {}

\* Callers find an entry by its name, which gives them the first one called so.
Named == {p \in Live : \E d \in Dirs : /\ Found(d, At(p).name) # <<>>
                                       /\ Head(Found(d, At(p).name)) = p}

Next ==
  LET named == Named
  IN /\ Ready
     /\ \/ \E d \in Dirs, n \in Names :
             /\ Cardinality(Live) < MaxEntries
             /\ \/ Create(d, n, {})
                \/ \E h \in Handles : open[h] = Closed /\ Create(d, n, {h})
                \/ \E p \in named : Rename(p, d, n)
                \/ d = Root /\ Mkdir(n)
        \/ \E p \in named :
             \/ \E len \in 1..MaxSize : ShellWrite(p, len)
             \/ Unlink(p)
             \/ RemoveAll(p)
             \/ \E h \in Handles : Open(h, p)
        \/ \E h \in Handles :
             Close(h) \/ ReadFd(h) \/ \E len \in 1..MaxSize : WriteFd(h, len)
        \/ Restart

Spec == Init /\ [][Next]_vars
----------------------------------------------------------------------------
\* Every variable stays within the values its declaration comment describes.
TypeOK ==
  /\ fat \in [Clusters -> Clusters \cup {Free, Eof}]
  /\ slot \in [Clusters -> [1..SlotsPer -> Entries \cup {Unused, Dot, Leftover}]]
  /\ written \subseteq Clusters
  /\ \A h \in Handles :
       open[h] = Closed \/ /\ open[h].at \in Places /\ open[h].cluster \in Clusters \cup {0}
                           /\ open[h].size \in 0..MaxSize /\ open[h].off \in 0..MaxSize
  /\ cut.on \subseteq Places
  /\ harm \subseteq {"crash", "unlink", "rmdir", "rename", "split", "overlooked"}

Chained(p) == Range(Chain(At(p).cluster))

\* The entries that a cut unlink or rmdir was to erase, and the one that mkdir made, or whose
\* file was written, when a write failed unnoticed; the two of a cut rename.
Unfinished == IF cut.name \in {"unlink", "rmdir", "mkdir", "write"} THEN cut.on ELSE {}
BeingMoved == IF cut.name = "rename" THEN cut.on ELSE {}

Ended(c) == c # 0 => /\ c \in Clusters
                     /\ \A x \in Range(Chain(c)) : fat[x] # Free
                     /\ fat[Last(Chain(c))] = Eof

\* No cluster belongs to two files or directories, every chain ends, and no chain contains a
\* cluster that is free: at every moment, whenever the power fails, and when a write does whose
\* result the code tests (code: the order of the writes in fat32.cpp:460-687).  What an
\* unfinished unlink or rmdir leaves behind concerns only the entries it was about to erase, and
\* an unfinished rename only the two entries of the file it moved (:709-751).  A write whose
\* failure nobody notices harms only the chain of the file or directory it was for: after a
\* power failure that may contain a free cluster (:129, :485, :518); and what is read as entries
\* in a directory's cluster that was not blanked (:609, :673) is not said.  Two open copies of one
\* file's entry, each with a size and a first cluster of its own (vfs_disk.cpp:36), do not break
\* this either.  What later operations make of a disk that is harmed is not followed.
ChainsSound ==
  LET live    == Live
      chained == [p \in live |-> Chained(p)]
  IN /\ Ended(Root)
     /\ \A p \in live \ Unfinished : Ended(At(p).cluster)
     /\ \A p \in live : chained[p] \cap Range(Chain(Root)) = {}
     /\ \A p, q \in live : \/ p = q \/ {p, q} \subseteq BeingMoved
                           \/ chained[p] \cap chained[q] = {}

\* What a file shows has been written to it: its chain is as long as its size says and has no
\* cluster with what a file deleted earlier left there.  The size is written last, so that
\* this holds after a power failure too (code: fat32.cpp:465-529), but not for a file whose
\* write met a failure that nobody noticed.
OwnData ==
  \A p \in Live \ Unfinished :
    At(p).kind = "file" =>
      /\ At(p).size <= Len(Chain(At(p).cluster))
      /\ \A k \in 1..At(p).size : Chain(At(p).cluster)[k] \in written

\* As long as no power failed and no failure went unnoticed, every cluster that is taken belongs
\* to an entry, also after a write whose failure the code noticed, a full disk, or a mkdir that
\* had to be undone (code: fat32.cpp:641-687); and a rename that was cut short, with all writes
\* until then on the disk, leaves the file an entry (:738-747).
NothingLost ==
  /\ harm = {} =>
       {c \in Clusters : fat[c] # Free} =
         Range(Chain(Root)) \cup UNION {Chained(p) : p \in Live}
  /\ "rename" \in harm => cut.on \cap Live # {}
=============================================================================
