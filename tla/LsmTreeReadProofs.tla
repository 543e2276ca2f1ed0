-------------------------- MODULE LsmTreeReadProofs --------------------------
(***************************************************************************)
(* get and scan of LsmTree read the last write of a key as long as the     *)
(* timestamps order the versions, and they do while no level lies below    *)
(* the second.  As long as they do the store is the dictionary of          *)
(* KVStoreAPI, through kills between calls, in a flush and while a merge   *)
(* writes its outputs, and no flushed value is lost by a kill at any step  *)
(* of a merge.                                                             *)
(***************************************************************************)
EXTENDS LsmTreeOrderProofs

---------------------------------------------------------------------------
(* No flushed value is lost, wherever but within reset the process is      *)
(* killed.                                                                 *)

(* Where the last flushed value of a key is: in a file that is not about   *)
(* to be deleted, or in what a merge has still to write.                   *)
Kept(k) ==
    \/ Visible(flushed[k]) = NoEntry
    \/ \E f \in Live : f.data[k] = flushed[k]
    \/ pc = "write" /\ job.rest[k] = flushed[k]

Lasting == \A k \in Key : Kept(k)

(* reset forgets what was flushed first and removes the files then.        *)
ForgottenFirst == pc = "reset" => flushed = NoData

LEMMA VisibleIsValue ==
    ASSUME NEW e, Visible(e) # NoEntry
    PROVE  e # NoEntry /\ e.val # DEL
  BY DEF Visible

LEMMA KeptStill ==
    ASSUME Lasting, UNCHANGED flushed, Live \subseteq Live', pc # "write"
    PROVE  Lasting'
  BY DEF Lasting, Kept, Visible

LEMMA KeptForgotten ==
    ASSUME flushed' = NoData
    PROVE  Lasting'
  BY DEF Lasting, Kept, NoData, Visible, NoEntry

(* What was written last becomes what was flushed last.                    *)
LEMMA KeptFlush ==
    ASSUME Versions, Lasting, pc # "write", flushed' = latest,
           Live \subseteq Live', s = NoData \/ \E f \in Live' : f.data = s
    PROVE  Lasting'
<1>1. ASSUME NEW k \in Key PROVE Kept(k)'
  <2>1. CASE s[k] = NoEntry
    <3>1. latest[k] = flushed[k]
      BY <2>1 DEF Versions, MemOK
    <3> QED
      BY <3>1 DEF Lasting, Kept, Visible
  <2>2. CASE s[k] # NoEntry
    <3>1. s[k] = latest[k] /\ s # NoData
      BY <2>2 DEF Versions, MemOK, NoData
    <3> QED
      BY <3>1 DEF Kept
  <2> QED
    BY <2>1, <2>2
<1> QED
  BY <1>1 DEF Lasting

(* Of the inputs of a merge that have a key, the one with the largest time *)
(* has the newest version, if timestamps order versions.                   *)
LEMMA NewestInput ==
    ASSUME Cached, TimeIsAge, NEW H \in SUBSET files, NEW k \in Key, NEW F \in Holders(H, k),
           \A g \in Holders(H, k) : g.time <= F.time
    PROVE  \A g \in Holders(H, k) : g.data[k].ver <= F.data[k].ver
<1>1. ASSUME NEW g \in Holders(H, k) PROVE g.data[k].ver <= F.data[k].ver
  <2>1. /\ g \in files /\ F \in files /\ k \in Keys(g.data) /\ k \in Keys(F.data)
        /\ g.time \in Nat /\ F.time \in Nat /\ F.data[k].ver \in Nat
    BY FileTypes DEF Holders, Keys
  <2>2. CASE g.time < F.time
    BY <2>1, <2>2 DEF TimeIsAge
  <2>3. CASE g.time = F.time
    BY <2>1, <2>3 DEF Cached, TimesDiffer
  <2> QED
    BY <2>1, <2>2, <2>3
<1> QED
  BY <1>1

(* A merge takes the last flushed value of a key, if it takes the key at   *)
(* all.                                                                    *)
LEMMA KeptStart ==
    ASSUME Cached, MergeOK, Versions, TimeIsAge, Lasting, CompactStart
    PROVE  Lasting'
<1>1. PICK sel, met : Starts(sel, met)
  BY StartFiles
<1> DEFINE H == sel \cup met
<1>2. /\ pc = "compact"
      /\ job'.rest # NoData => pc' = "write"
      /\ Live = files /\ Live' = files \ H /\ H \subseteq files
  BY <1>1, StartFacts
<1>3. flushed' = flushed
  BY DEF CompactStart, ghost
<1>4. ASSUME NEW k \in Key PROVE Kept(k)'
  <2>1. CASE Visible(flushed[k]) = NoEntry \/ \E f \in Live' : f.data[k] = flushed[k]
    BY <1>3, <2>1 DEF Kept, Visible
  <2>2. ASSUME Visible(flushed[k]) # NoEntry, NEW G \in H, G.data[k] = flushed[k]
        PROVE  Kept(k)'
    <3>1. flushed[k] # NoEntry /\ flushed[k].val # DEL /\ G \in files
      BY <1>2, <2>2, VisibleIsValue
    <3>2. G \in Holders(H, k)
      BY <2>2, <3>1 DEF Holders
    <3>3. PICK F \in Holders(H, k) :
             /\ \A g \in Holders(H, k) : g.time <= F.time
             /\ job'.rest[k] = IF job.level + 1 = totalLevel' /\ F.data[k].val = DEL
                               THEN NoEntry ELSE F.data[k]
      BY <1>1, <3>2, StartRest
    <3>4. F \in files /\ k \in Keys(F.data)
      BY <1>2 DEF Holders, Keys
    <3>5. NotNewer(F.data[k], flushed[k])
      BY <1>2, <3>4 DEF Versions, FilesOld
    <3>6. flushed[k].ver <= F.data[k].ver
      <4> HIDE DEF H
      <4> QED
        BY <1>2, <2>2, <3>2, <3>3, NewestInput
    <3>7. F.data[k].ver \in Nat /\ flushed[k].ver \in Nat
      BY <2>2, <3>1, <3>4, FileTypes
    <3>8. F.data[k] = flushed[k]
      BY <3>5, <3>6, <3>7 DEF NotNewer
    <3>9. job'.rest[k] = flushed[k] /\ job'.rest # NoData
      BY <3>1, <3>3, <3>8 DEF NoData
    <3> QED
      BY <1>2, <1>3, <3>9 DEF Kept
  <2> QED
    BY <1>2, <2>1, <2>2 DEF Lasting, Kept
<1> QED
  BY <1>4 DEF Lasting

(* A merge writes its next table: what it was to keep is now in the file,  *)
(* or is still to be written.                                              *)
LEMMA KeptOutput ==
    ASSUME Cached, MergeOK, Lasting, WriteOutput
    PROVE  Lasting'
<1>1. PICK f \in File :
         /\ pc = "write" /\ flushed' = flushed /\ Live' = Live \cup {f}
         /\ Keys(f.data) = Fitting(job.rest)
         /\ Keys(job'.rest) = Keys(job.rest) \ Fitting(job.rest)
         /\ \A k \in Keys(f.data) : f.data[k] = job.rest[k]
         /\ \A k \in Keys(job'.rest) : job'.rest[k] = job.rest[k]
  BY OutputFacts
<1>2. job'.rest # NoData => pc' = "write"
  BY DEF WriteOutput, Cached, Fresh, Typed, TypeOK
<1>3. ASSUME NEW k \in Key PROVE Kept(k)'
  <2>1. CASE Visible(flushed[k]) = NoEntry \/ \E g \in Live : g.data[k] = flushed[k]
    BY <1>1, <2>1 DEF Kept, Visible
  <2>2. CASE Visible(flushed[k]) # NoEntry /\ job.rest[k] = flushed[k]
    <3>1. k \in Keys(f.data) \/ k \in Keys(job'.rest)
      BY <1>1, <2>2, VisibleIsValue DEF Keys
    <3>2. CASE k \in Keys(f.data)
      BY <1>1, <2>2, <3>2 DEF Kept
    <3>3. CASE k \in Keys(job'.rest)
      <4>1. job'.rest[k] = job.rest[k] /\ job'.rest # NoData
        BY <1>1, <2>2, <3>3, VisibleIsValue DEF NoData
      <4> QED
        BY <1>1, <1>2, <2>2, <4>1 DEF Kept
    <3> QED
      BY <3>1, <3>2, <3>3
  <2> QED
    BY <1>1, <2>1, <2>2 DEF Lasting, Kept
<1> QED
  BY <1>3 DEF Lasting

LEMMA KeptDelete ==
    ASSUME Cached, Lasting, DeleteInput
    PROVE  Lasting' /\ Live' = Live
<1>1. PICK n \in job.doomed :
         /\ pc = "delete" /\ files' = {f \in files : NameOf(f) # n}
         /\ job'.doomed = job.doomed \ {n} /\ UNCHANGED <<pc, flushed>>
  BY DeleteFacts
<1>2. \A f : NameOf(f)' = NameOf(f)
  BY DEF NameOf
<1>3. Live' = Live
  BY <1>1, <1>2 DEF Live
<1> QED
  BY <1>1, <1>3, KeptStill

(* A kill within a merge leaves its inputs where they are.                 *)
LEMMA KeptDown ==
    ASSUME Cached, MergeOK, Lasting, UNCHANGED <<files, flushed>>, job' = NoJob
    PROVE  Lasting'
<1>1. Live' = files
  BY DEF Live, NoJob
<1>2. ASSUME NEW k \in Key, Visible(flushed[k]) # NoEntry
      PROVE  \E f \in files : f.data[k] = flushed[k]
  <2>1. CASE \E f \in Live : f.data[k] = flushed[k]
    BY <2>1 DEF Live
  <2>2. CASE pc = "write" /\ job.rest[k] = flushed[k]
    BY <1>2, <2>2, VisibleIsValue DEF MergeOK, Keys
  <2> QED
    BY <1>2, <2>1, <2>2 DEF Lasting, Kept
<1> QED
  BY <1>1, <1>2 DEF Lasting, Kept, Visible

(* The new table of a flush has a name of its own.                         *)
LEMMA FlushFacts ==
    ASSUME Cached, MergeOK, MergeOK', NEW f, f.time = TIME + 1, files' = WriteFile(f),
           pc = "idle", pc' = "compact"
    PROVE  /\ job.doomed = {} /\ job'.doomed = {}
           /\ files' = files \cup {f} /\ Live = files /\ Live' = files'
           /\ \A g \in files : g.time < f.time
<1>1. job.doomed = {} /\ job'.doomed = {}
  BY DEF MergeOK
<1>2. \A g \in files : g.time < f.time /\ NameOf(g) # NameOf(f)
  <2>1. TIME \in Nat /\ \A g \in files : g.time \in Nat /\ g.time <= TIME
    BY FileTypes DEF Cached, Fresh, NamesAreFresh, Up, Typed, TypeOK
  <2>2. \A g \in files : g.time < f.time /\ g.time # f.time
    BY <2>1
  <2> QED
    BY <2>2 DEF NameOf
<1>3. files' = files \cup {f}
  BY <1>2 DEF WriteFile
<1> QED
  BY <1>1, <1>2, <1>3 DEF Live

(* The memtable goes to a file of level 0 in a put or in the destructor.   *)
LEMMA StoreFlushes ==
    ASSUME Cached, NEW k, NEW v, PutAndFlush(k, v), pc = "idle"
    PROVE  \E f \in File : /\ f.level = 0 /\ f.time = TIME + 1 /\ f.data = s
                           /\ files' = WriteFile(f) /\ dirs' = dirs \cup {0}
                           /\ flushed' = latest /\ pc' = "compact"
<1> DEFINE f == [level |-> 0, time |-> TIME + 1, data |-> s]
<1>1. f \in File
  BY LevelsAssumption DEF File, Cached, Fresh, Typed, TypeOK, Level
<1>2. f.level = 0 /\ f.time = TIME + 1 /\ f.data = s
  OBVIOUS
<1>3. /\ files' = WriteFile(f) /\ dirs' = dirs \cup {0}
      /\ flushed' = latest /\ pc' = "compact"
  BY DEF PutAndFlush
<1> QED
  BY <1>1, <1>2, <1>3

LEMMA CloseFlushes ==
    ASSUME Cached, Close
    PROVE  \E f \in File : /\ f.level = 0 /\ f.time = TIME + 1 /\ f.data = s
                           /\ files' = WriteFile(f) /\ dirs' = dirs \cup {0}
                           /\ flushed' = latest /\ pc' = "compact" /\ pc = "idle"
<1> DEFINE f == [level |-> 0, time |-> TIME + 1, data |-> s]
<1>1. f \in File
  BY LevelsAssumption DEF File, Cached, Fresh, Typed, TypeOK, Level
<1>2. f.level = 0 /\ f.time = TIME + 1 /\ f.data = s
  OBVIOUS
<1>3. /\ files' = WriteFile(f) /\ dirs' = dirs \cup {0}
      /\ flushed' = latest /\ pc' = "compact" /\ pc = "idle"
  BY DEF Close
<1> QED
  BY <1>1, <1>2, <1>3

(* No value is lost in a step from a state whose timestamps are in order.  *)
LEMMA LastingNext ==
    ASSUME Written, MergeOK', ForgottenFirst, TimeIsAge, Lasting, [Next]_vars
    PROVE  Lasting'
<1>0. Cached /\ MergeOK /\ Versions
  BY DEF Written
<1>1. ASSUME UNCHANGED <<files, flushed>>, pc # "write", pc' \notin {"write", "delete"}
      PROVE  Lasting'
  <2>1. Live \subseteq Live'
    BY <1>1 DEF Live, MergeOK
  <2> QED
    BY <1>1, <2>1, KeptStill
<1>2. CASE Reset \/ ResetFile \/ ResetDir \/ ResetDone
  BY <1>2, KeptForgotten DEF Reset, ResetFile, ResetDir, ResetDone, ForgottenFirst, ghost
<1>3. CASE CloseEmpty
  <2>1. /\ UNCHANGED files /\ pc = "idle" /\ pc' = "down" /\ flushed' = latest /\ s = NoData
    BY <1>3 DEF CloseEmpty, Forget, disk
  <2>2. Live \subseteq Live'
    BY <2>1 DEF Live, MergeOK
  <2> QED
    BY <1>0, <2>1, <2>2, KeptFlush
<1>4. ASSUME NEW f \in File, f.data = s, files' = WriteFile(f), f.time = TIME + 1,
             pc = "idle", pc' = "compact", flushed' = latest
      PROVE  Lasting'
  <2>1. files' = files \cup {f} /\ Live = files /\ Live' = files'
    BY <1>0, <1>4, FlushFacts
  <2> QED
    BY <1>0, <1>4, <2>1, KeptFlush
<1>5. ASSUME NEW k \in Key, NEW v, Store(k, v) PROVE Lasting'
  <2>1. CASE PutInMemory(k, v)
    BY <1>1, <1>5, <2>1 DEF PutInMemory, Store, disk
  <2>2. CASE PutAndFlush(k, v)
    BY <1>0, <1>4, <1>5, <2>2, StoreFlushes DEF Store
  <2> QED
    BY <1>5, <2>1, <2>2 DEF Store
<1>6. CASE Close
  BY <1>0, <1>4, <1>6, CloseFlushes
<1>7. CASE UNCHANGED vars
  <2>1. UNCHANGED <<files, flushed, pc, job>>
    BY <1>7 DEF vars, disk, ghost
  <2>2. Live' = Live
    BY <2>1 DEF Live
  <2> QED
    BY <2>1, <2>2 DEF Lasting, Kept, Visible
<1>8. CASE Crash
  BY <1>0, <1>8, KeptDown DEF Crash, Forget, disk
<1>9. CASE OpenStart
  BY <1>1, <1>9 DEF OpenStart, disk, ghost
<1>10. CASE CompactNothing \/ CompactEnd \/ FinishPut \/ FinishClose \/ OpenLevel \/ OpenDone
  BY <1>1, <1>10 DEF CompactNothing, CompactEnd, FinishPut, FinishClose, Forget,
     OpenLevel, OpenDone, disk, ghost
<1>11. CASE Continue
  BY <1>0, <1>2, <1>10, <1>11, KeptStart, KeptOutput, KeptDelete DEF Continue
<1>12. CASE Call
  BY <1>2, <1>3, <1>5, <1>6, <1>12 DEF Call, Del, Put
<1> QED
  BY <1>7, <1>8, <1>9, <1>11, <1>12 DEF Next

LEMMA ForgottenNext ==
    ASSUME ForgottenFirst, [Next]_vars
    PROVE  ForgottenFirst'
<1>1. CASE Continue
  BY <1>1 DEF Continue, CompactNothing, CompactStart, WriteOutput, DeleteInput, CompactEnd,
     FinishPut, FinishClose, ResetFile, ResetDir, ResetDone, OpenLevel, OpenDone, Forget,
     ForgottenFirst, ghost
<1>2. CASE Call
  BY <1>2 DEF Call, Del, Put, Store, PutInMemory, PutAndFlush, Reset, CloseEmpty, Close, Forget,
     ForgottenFirst
<1> QED
  BY <1>1, <1>2 DEF Next, OpenStart, Crash, Forget, ForgottenFirst, vars, ghost

(* As long as timestamps order versions no value that was flushed is lost. *)
LEMMA LastingAlways ==
    ASSUME "reset" \notin CrashPoints
    PROVE  Spec /\ []TimeIsAge => []Lasting
<1>1. Init => Lasting /\ ForgottenFirst
  <2>1. Init => flushed = NoData /\ pc = "idle"
    BY DEF Init
  <2> QED
    BY <2>1 DEF Lasting, Kept, NoData, Visible, NoEntry, ForgottenFirst
<1>2. /\ Written /\ Written' /\ ForgottenFirst /\ TimeIsAge /\ Lasting /\ [Next]_vars
      => (ForgottenFirst /\ Lasting)'
  BY LastingNext, ForgottenNext DEF Written
<1> QED
  BY <1>1, <1>2, WrittenAlways, PTL DEF Spec

(* As long as timestamps follow the age of versions, what was flushed      *)
(* stays on the disk through merges, restarts and kills at every step but  *)
(* those of reset, until a newer write of its key is flushed               *)
(* (kvstore.cc:416-617).                                                   *)
THEOREM FlushedIsKept ==
    ASSUME "reset" \notin CrashPoints
    PROVE  Spec /\ []TimeIsAge => []FlushedIsOnDisk
<1>1. ASSUME Written, Lasting, NEW k \in Key, Visible(flushed[k]) # NoEntry
      PROVE  \E f \in files : f.data[k] = flushed[k]
  <2>1. CASE \E f \in Live : f.data[k] = flushed[k]
    BY <2>1 DEF Live
  <2>2. CASE pc = "write" /\ job.rest[k] = flushed[k]
    BY <1>1, <2>2, VisibleIsValue DEF Written, MergeOK, Keys
  <2> QED
    BY <1>1, <2>1, <2>2 DEF Lasting, Kept
<1>2. Written /\ Lasting => FlushedIsOnDisk
  BY <1>1 DEF FlushedIsOnDisk
<1> QED
  BY <1>2, LastingAlways, WrittenAlways, PTL

---------------------------------------------------------------------------
(* The layers of versions, for any set P of records with a level and with  *)
(* data: the files, together with what a merge has still to write.  A kill *)
(* leaves inputs and outputs side by side, so that ranges of a level may   *)
(* meet and a deeper table may have the newer version; what hides such a   *)
(* pair from the reader is a table of a shallower level.                   *)

Hidden(P, l, k) == \E h \in P : h.level < l /\ k \in Keys(h.data)

Within(K, k) == \E a, b \in K : a <= k /\ k <= b

(* Below level 0 the tables of a level have one version of a key.          *)
SameVersion(P) ==
    \A f, g \in P : f.level = g.level /\ f.level > 0 =>
        \A k \in Keys(f.data) \cap Keys(g.data) :
            f.data[k] = g.data[k] \/ Hidden(P, f.level, k)

(* Below level 0 a table lacks no key of its range that its level has.     *)
NoHoles(P) ==
    \A f, g \in P : f.level = g.level /\ f.level > 0 =>
        \A k \in Keys(g.data) :
            Within(Keys(f.data), k) => k \in Keys(f.data) \/ Hidden(P, f.level, k)

(* Down to each level that has a key lies a version as new as any deeper.  *)
ShallowHasNewest(P) ==
    \A f, g \in P : f.level < g.level =>
        \A k \in Keys(f.data) \cap Keys(g.data) :
            \E h \in P : /\ h.level <= f.level /\ k \in Keys(h.data)
                         /\ g.data[k].ver <= h.data[k].ver

(* The deepest of the levels ds, if it is not level 0, has no markers.     *)
NoMarkers(P, ds) ==
    \A f \in P : f.level > 0 /\ (\A m \in ds : m <= f.level) =>
        \A k \in Key : f.data[k].val # DEL

(* P has the versions fl, except for markers dropped with all they hid.    *)
KeptIn(P, fl) ==
    \A k \in Key :
        \/ fl[k] = NoEntry
        \/ \E f \in P : f.data[k] = fl[k]
        \/ fl[k].val = DEL /\ \A f \in P : f.data[k] = NoEntry

Layers(P, ds, fl) ==
    SameVersion(P) /\ NoHoles(P) /\ ShallowHasNewest(P) /\ NoMarkers(P, ds) /\ KeptIn(P, fl)

LEMMA HiddenMore ==
    ASSUME NEW P, NEW Q, P \subseteq Q, NEW l, NEW k, Hidden(P, l, k)
    PROVE  Hidden(Q, l, k)
  BY DEF Hidden

(* What comes from elsewhere in P, no deeper, may go.                      *)
LEMMA LayersDrop ==
    ASSUME NEW P, \A f \in P : f.level \in Nat, NEW r, r.level \in Nat, NEW ds, NEW fl,
           Layers(P \cup {r}, ds, fl),
           \A k \in Keys(r.data) : \E f \in P : f.level <= r.level /\ f.data[k] = r.data[k]
    PROVE  Layers(P, ds, fl)
<1> DEFINE Q == P \cup {r}
<1>1. ASSUME NEW k \in Keys(r.data)
      PROVE  \E f \in P : f.level <= r.level /\ k \in Keys(f.data) /\ f.data[k] = r.data[k]
  BY DEF Keys
<1>2. ASSUME NEW l \in Nat, NEW k, Hidden(Q, l, k) PROVE Hidden(P, l, k)
  <2>1. PICK h \in Q : h.level < l /\ k \in Keys(h.data)
    BY <1>2 DEF Hidden
  <2>2. CASE h \in P
    BY <2>1, <2>2 DEF Hidden
  <2>3. CASE h = r
    <3>1. PICK f \in P : f.level <= r.level /\ k \in Keys(f.data)
      BY <1>1, <2>1, <2>3
    <3>2. f.level < l
      BY <2>1, <2>3, <3>1
    <3> QED
      BY <3>1, <3>2 DEF Hidden
  <2> QED
    BY <2>2, <2>3
<1>3. P \subseteq Q
  OBVIOUS
<1>4. ASSUME NEW f \in P, NEW g \in P, f.level < g.level, NEW k \in Keys(f.data) \cap Keys(g.data)
      PROVE  \E h \in P : /\ h.level <= f.level /\ k \in Keys(h.data)
                          /\ g.data[k].ver <= h.data[k].ver
  <2>1. PICK h \in Q : /\ h.level <= f.level /\ k \in Keys(h.data)
                       /\ g.data[k].ver <= h.data[k].ver
    BY <1>3, <1>4 DEF Layers, ShallowHasNewest
  <2>2. CASE h = r
    <3>1. PICK e \in P : e.level <= r.level /\ k \in Keys(e.data) /\ e.data[k] = r.data[k]
      BY <1>1, <2>1, <2>2
    <3>2. e.level <= f.level
      BY <2>1, <2>2, <3>1
    <3> QED
      BY <2>1, <2>2, <3>1, <3>2
  <2> QED
    BY <2>1, <2>2
<1>5. SameVersion(P)
  BY <1>2, <1>3 DEF Layers, SameVersion
<1>6. NoHoles(P)
  BY <1>2, <1>3 DEF Layers, NoHoles
<1>7. NoMarkers(P, ds)
  BY <1>3 DEF Layers, NoMarkers
<1>8. KeptIn(P, fl)
  <2>1. ASSUME NEW k \in Key, fl[k] # NoEntry, r.data[k] = fl[k]
        PROVE  \E f \in P : f.data[k] = fl[k]
    BY <1>1, <2>1 DEF Keys
  <2> QED
    BY <1>3, <2>1 DEF Layers, KeptIn
<1> QED
  BY <1>4, <1>5, <1>6, <1>7, <1>8 DEF Layers, ShallowHasNewest

(* The newest versions come to level 0.                                    *)
LEMMA LayersFlush ==
    ASSUME NEW P, \A f \in P : f.level \in Nat, NEW f, f.level = 0, NEW ds, NEW fl, NEW last,
           Layers(P, ds, fl),
           \A g \in P : \A k \in Keys(g.data) \cap Keys(f.data) : g.data[k].ver <= f.data[k].ver,
           \A k \in Key : last[k] = IF f.data[k] = NoEntry THEN fl[k] ELSE f.data[k]
    PROVE  Layers(P \cup {f}, ds \cup {0}, last)
<1> DEFINE Q == P \cup {f}
<1>1. P \subseteq Q /\ f \in Q /\ \A g \in Q : g.level > 0 => g \in P
  OBVIOUS
<1>2. SameVersion(Q)
  BY <1>1, HiddenMore DEF Layers, SameVersion
<1>3. NoHoles(Q)
  BY <1>1, HiddenMore DEF Layers, NoHoles
<1>4. ASSUME NEW e \in Q, NEW g \in Q, e.level < g.level, NEW k \in Keys(e.data) \cap Keys(g.data)
      PROVE  \E h \in Q : /\ h.level <= e.level /\ k \in Keys(h.data)
                          /\ g.data[k].ver <= h.data[k].ver
  <2>1. g \in P
    BY <1>4
  <2>2. CASE e = f
    BY <1>4, <2>1, <2>2
  <2>3. CASE e \in P
    BY <1>1, <1>4, <2>1, <2>3 DEF Layers, ShallowHasNewest
  <2> QED
    BY <2>2, <2>3
<1>5. NoMarkers(Q, ds \cup {0})
  BY <1>1 DEF Layers, NoMarkers
<1>6. KeptIn(Q, last)
  <2>1. ASSUME NEW k \in Key, f.data[k] # NoEntry PROVE f.data[k] = last[k]
    BY <2>1
  <2>2. ASSUME NEW k \in Key, f.data[k] = NoEntry PROVE last[k] = fl[k]
    BY <2>2
  <2> QED
    BY <1>1, <2>1, <2>2 DEF Layers, KeptIn
<1> HIDE DEF Q
<1>7. Layers(Q, ds \cup {0}, last)
  BY <1>2, <1>3, <1>4, <1>5, <1>6 DEF Layers, ShallowHasNewest
<1> QED
  BY <1>7 DEF Q

(* A piece r is cut in two, f and g.                                       *)
Cut(r, f, g) ==
    /\ f.level = r.level /\ g.level = r.level /\ r.level \in Nat
    /\ Keys(f.data) \cup Keys(g.data) = Keys(r.data) /\ Below(Keys(f.data), Keys(g.data))
    /\ \A k \in Key : f.data[k] = IF k \in Keys(f.data) THEN r.data[k] ELSE NoEntry
    /\ \A k \in Key : g.data[k] = IF k \in Keys(g.data) THEN r.data[k] ELSE NoEntry

(* The second one counts only if it is not empty.                          *)
LEMMA LayersCut ==
    ASSUME NEW P, NEW r, NEW f, NEW g, NEW Q, NEW ds, NEW fl,
           Layers(P \cup {r}, ds, fl), Cut(r, f, g),
           P \cup {f} \subseteq Q, Q \subseteq P \cup {f, g}, g \in Q \/ Keys(g.data) = {}
    PROVE  Layers(Q, ds, fl)
<1> USE DEF Cut
<1> DEFINE R == P \cup {r}
<1>0. \A k : k \in Keys(f.data) \/ k \in Keys(g.data) \/ k \in Keys(r.data) => k \in Key
  BY DEF Keys
<1>1. ASSUME NEW e \in Q
      PROVE  \E d \in R : /\ d.level = e.level /\ Keys(e.data) \subseteq Keys(d.data)
                          /\ \A k \in Keys(e.data) : e.data[k] = d.data[k]
                          /\ e \in P => d = e
                          /\ e \notin P => d = r
  <2>1. CASE e \in P
    BY <2>1
  <2>2. CASE e \notin P
    <3>1. e \in {f, g}
      BY <2>2
    <3> QED
      BY <1>0, <2>2, <3>1
  <2> QED
    BY <2>1, <2>2
<1>2. ASSUME NEW d \in R, NEW k \in Keys(d.data)
      PROVE  \E e \in Q : e.level = d.level /\ k \in Keys(e.data) /\ e.data[k] = d.data[k]
  <2>1. CASE d \in P
    BY <2>1
  <2>2. CASE d = r
    <3>1. k \in Keys(f.data) \/ (k \in Keys(g.data) /\ g \in Q)
      BY <2>2
    <3> QED
      BY <1>0, <2>2, <3>1
  <2> QED
    BY <2>1, <2>2
<1>3. ASSUME NEW l, NEW k, Hidden(R, l, k) PROVE Hidden(Q, l, k)
  <2>1. PICK d \in R : d.level < l /\ k \in Keys(d.data)
    BY <1>3 DEF Hidden
  <2>2. PICK e \in Q : e.level = d.level /\ k \in Keys(e.data)
    BY <1>2, <2>1
  <2> QED
    BY <2>1, <2>2 DEF Hidden
<1>4. SameVersion(Q)
  <2>1. ASSUME NEW a \in Q, NEW b \in Q, a.level = b.level, a.level > 0,
               NEW k \in Keys(a.data) \cap Keys(b.data)
        PROVE  a.data[k] = b.data[k] \/ Hidden(Q, a.level, k)
    <3>1. PICK c \in R : c.level = a.level /\ k \in Keys(c.data) /\ c.data[k] = a.data[k]
      BY <1>1
    <3>2. PICK d \in R : d.level = b.level /\ k \in Keys(d.data) /\ d.data[k] = b.data[k]
      BY <1>1
    <3>3. c.data[k] = d.data[k] \/ Hidden(R, c.level, k)
      BY <2>1, <3>1, <3>2 DEF Layers, SameVersion
    <3> QED
      BY <1>3, <3>1, <3>2, <3>3
  <2> QED
    BY <2>1 DEF SameVersion
<1>5. NoHoles(Q)
  <2>1. ASSUME NEW a \in Q, NEW b \in Q, a.level = b.level, a.level > 0,
               NEW k \in Keys(b.data), Within(Keys(a.data), k)
        PROVE  k \in Keys(a.data) \/ Hidden(Q, a.level, k)
    <3>1. PICK c \in R : /\ c.level = a.level /\ Keys(a.data) \subseteq Keys(c.data)
                         /\ a \in P => c = a
                         /\ a \notin P => c = r
      BY <1>1
    <3>2. PICK d \in R : d.level = b.level /\ k \in Keys(d.data)
      BY <1>1
    <3>3. k \in Keys(c.data) \/ Hidden(R, c.level, k)
      <4>1. Within(Keys(c.data), k)
        BY <2>1, <3>1 DEF Within
      <4> QED
        BY <2>1, <3>1, <3>2, <4>1 DEF Layers, NoHoles
    <3>4. CASE a \in P
      BY <1>3, <3>1, <3>3, <3>4
    <3>5. CASE a \notin P /\ k \in Keys(r.data)
      <4>1. a \in {f, g} /\ (k \in Keys(f.data) \/ k \in Keys(g.data))
        BY <3>5
      <4>2. PICK x \in Keys(a.data), y \in Keys(a.data) : x <= k /\ k <= y
        BY <2>1 DEF Within
      <4>3. x \in Nat /\ y \in Nat /\ k \in Nat
        BY KeysAssumption DEF Keys
      <4>4. CASE a = f /\ k \in Keys(g.data)
        <5>1. y < k
          BY <4>2, <4>4 DEF Below
        <5> QED
          BY <4>2, <4>3, <5>1
      <4>5. CASE a = g /\ k \in Keys(f.data)
        <5>1. k < x
          BY <4>2, <4>5 DEF Below
        <5> QED
          BY <4>2, <4>3, <5>1
      <4> QED
        BY <4>1, <4>4, <4>5
    <3> QED
      BY <1>3, <3>1, <3>3, <3>4, <3>5
  <2> QED
    BY <2>1 DEF NoHoles
<1>6. ShallowHasNewest(Q)
  <2>1. ASSUME NEW a \in Q, NEW b \in Q, a.level < b.level, NEW k \in Keys(a.data) \cap Keys(b.data)
        PROVE  \E h \in Q : /\ h.level <= a.level /\ k \in Keys(h.data)
                            /\ b.data[k].ver <= h.data[k].ver
    <3>1. PICK c \in R : c.level = a.level /\ k \in Keys(c.data)
      BY <1>1
    <3>2. PICK d \in R : d.level = b.level /\ k \in Keys(d.data) /\ d.data[k] = b.data[k]
      BY <1>1
    <3>3. PICK h \in R : /\ h.level <= c.level /\ k \in Keys(h.data)
                         /\ d.data[k].ver <= h.data[k].ver
      BY <2>1, <3>1, <3>2 DEF Layers, ShallowHasNewest
    <3>4. PICK e \in Q : e.level = h.level /\ k \in Keys(e.data) /\ e.data[k] = h.data[k]
      BY <1>2, <3>3
    <3> QED
      BY <3>1, <3>2, <3>3, <3>4
  <2> QED
    BY <2>1 DEF ShallowHasNewest
<1>7. NoMarkers(Q, ds)
  <2>1. ASSUME NEW e \in Q, e.level > 0, \A m \in ds : m <= e.level, NEW k \in Key
        PROVE  e.data[k].val # DEL
    <3>1. NoEntry.val # DEL
      BY DEF NoEntry, None, DEL
    <3>2. PICK d \in R : /\ d.level = e.level /\ \A x \in Keys(e.data) : e.data[x] = d.data[x]
      BY <1>1
    <3>3. d.data[k].val # DEL
      BY <2>1, <3>2 DEF Layers, NoMarkers
    <3> QED
      BY <3>1, <3>2, <3>3 DEF Keys
  <2> QED
    BY <2>1 DEF NoMarkers
<1>8. KeptIn(Q, fl)
  <2>1. ASSUME NEW k \in Key, NEW d \in R, d.data[k] = fl[k], fl[k] # NoEntry
        PROVE  \E e \in Q : e.data[k] = fl[k]
    <3>1. k \in Keys(d.data)
      BY <2>1 DEF Keys
    <3> QED
      BY <1>2, <2>1, <3>1
  <2>2. ASSUME NEW k \in Key, \A d \in R : d.data[k] = NoEntry, NEW e \in Q
        PROVE  e.data[k] = NoEntry
    <3>1. k \notin Keys(e.data)
      BY <1>1, <2>2 DEF Keys
    <3> QED
      BY <3>1 DEF Keys
  <2> HIDE DEF R
  <2>3. KeptIn(R, fl)
    BY DEF Layers, R
  <2> QED
    BY <2>1, <2>2, <2>3 DEF KeptIn
<1> HIDE DEF R
<1> QED
  BY <1>4, <1>5, <1>6, <1>7, <1>8 DEF Layers

---------------------------------------------------------------------------
(* A merge of the tables `sel` of level j of P, and of the tables `met` of *)
(* the next level whose ranges meet theirs, into the table r: r takes the  *)
(* newest version of each of their keys, less the markers if `top` is the  *)
(* level it goes to.                                                       *)

Merges(P, sel, met, r, j, top, fl) ==
    /\ j \in Nat /\ top \in Nat /\ j + 1 <= top /\ r.level = j + 1 /\ r.data \in Data
    /\ \A f \in P : f.level \in 0..top /\ f.data \in Data
    /\ sel \subseteq {f \in P : f.level = j}
    /\ met = {f \in P : f.level = j + 1 /\ ~Apart(Keys(f.data), KeysOf(sel))}
    /\ j = 0 => \A f \in P \ sel : f.level = 0 => \A k \in Keys(f.data) : f.data[k] = fl[k]
    /\ \A k \in Key : fl[k] \in Entry
    /\ \A f \in P : \A k \in Keys(f.data) : NotNewer(f.data[k], fl[k])
    /\ \A f \in P : f.level = top /\ top > 0 => \A k \in Key : f.data[k].val # DEL
    /\ j + 1 = top => \A k \in Key : r.data[k].val # DEL
    /\ Keys(r.data) \subseteq KeysOf(sel \cup met)
    /\ \A k \in KeysOf(sel \cup met) : \E f \in sel \cup met :
          /\ k \in Keys(f.data)
          /\ \A g \in sel \cup met : k \in Keys(g.data) => g.data[k].ver <= f.data[k].ver
          /\ \/ r.data[k] = f.data[k]
             \/ r.data[k] = NoEntry /\ j + 1 = top /\ f.data[k].val = DEL

(* The levels of the tables, and the types of versions.                    *)
LEMMA MergeTypes ==
    ASSUME NEW P, NEW sel, NEW met, NEW r, NEW j, NEW top, NEW fl,
           Merges(P, sel, met, r, j, top, fl)
    PROVE  /\ j \in Nat /\ top \in Nat /\ r.level = j + 1 /\ r.level \in Nat /\ j + 1 > 0
           /\ sel \cup met \subseteq P
           /\ \A f \in P : f.level \in Nat /\ f.level <= top
           /\ \A f \in sel : f.level = j
           /\ \A f \in met : f.level = j + 1
           /\ \A f \in P \cup {r} : \A k \in Keys(f.data) : f.data[k].ver \in Nat
<1>1. \A d \in Data : \A k \in Key : d[k].ver \in Nat
  BY DEF Data, Entry
<1>2. \A f \in P \cup {r} : f.data \in Data
  BY DEF Merges
<1>3. \A f \in P \cup {r} : \A k \in Keys(f.data) : f.data[k].ver \in Nat
  BY <1>1, <1>2 DEF Keys
<1>4. j \in Nat /\ top \in Nat /\ r.level = j + 1
  BY DEF Merges
<1>5. \A f \in P : f.level \in Nat /\ f.level <= top
  BY DEF Merges
<1> QED
  BY <1>3, <1>4, <1>5 DEF Merges

(* An entry of r is that of a table that it takes.                         *)
LEMMA MergeEntry ==
    ASSUME NEW P, NEW sel, NEW met, NEW r, NEW j, NEW top, NEW fl,
           Merges(P, sel, met, r, j, top, fl), NEW k \in Keys(r.data)
    PROVE  \E f \in sel \cup met :
              /\ k \in Keys(f.data) /\ r.data[k] = f.data[k]
              /\ \A g \in sel \cup met : k \in Keys(g.data) => g.data[k].ver <= r.data[k].ver
<1>1. k \in Key /\ r.data[k] # NoEntry /\ k \in KeysOf(sel \cup met)
  BY DEF Merges, Keys
<1> QED
  BY <1>1 DEF Merges

(* A key of the inputs is in r if tables lie below.                        *)
LEMMA MergeTakes ==
    ASSUME NEW P, NEW sel, NEW met, NEW r, NEW j, NEW top, NEW fl,
           Merges(P, sel, met, r, j, top, fl),
           NEW h \in sel \cup met, NEW k \in Keys(h.data), j + 1 # top
    PROVE  k \in Keys(r.data) /\ h.data[k].ver <= r.data[k].ver
<1>1. k \in KeysOf(sel \cup met)
  BY DEF KeysOf
<1>2. PICK f \in sel \cup met :
          /\ k \in Keys(f.data)
          /\ \A g \in sel \cup met : k \in Keys(g.data) => g.data[k].ver <= f.data[k].ver
          /\ r.data[k] = f.data[k]
  BY <1>1 DEF Merges
<1> QED
  BY <1>2 DEF Keys

(* A table that is left in the next level has no key that `sel` has, nor   *)
(* one between two of them, nor has it two keys with one of them between.  *)
LEMMA MergeUnmet ==
    ASSUME NEW P, NEW sel, NEW met, NEW r, NEW j, NEW top, NEW fl,
           Merges(P, sel, met, r, j, top, fl),
           NEW g \in P, g \notin met, g.level = j + 1
    PROVE  /\ Apart(Keys(g.data), KeysOf(sel))
           /\ \A k \in Keys(g.data) : k \notin KeysOf(sel)
           /\ \A k \in KeysOf(sel) : ~Within(Keys(g.data), k)
<1>1. Apart(Keys(g.data), KeysOf(sel))
  BY DEF Merges
<1>2. Keys(g.data) \in SUBSET Key /\ KeysOf(sel) \in SUBSET Key
  BY DEF Keys, KeysOf
<1>3. ASSUME NEW k \in KeysOf(sel), Within(Keys(g.data), k) PROVE FALSE
  <2>1. PICK a \in Keys(g.data), b \in Keys(g.data) : a <= k /\ k <= b
    BY <1>3 DEF Within
  <2>2. a \in Nat /\ b \in Nat /\ k \in Nat
    BY <1>2, KeysAssumption
  <2>3. b < k \/ k < a
    BY <1>1, <1>3, <2>1 DEF Apart, Below
  <2> QED
    BY <2>1, <2>2, <2>3
<1> QED
  BY <1>1, <1>2, <1>3, ApartNoKey

(* A table left in level j hides as much as all of P does: in level 0 it   *)
(* is the newest of all, below that its level has one version of a key.    *)
LEMMA MergeSource ==
    ASSUME NEW P, NEW sel, NEW met, NEW r, NEW j, NEW top, NEW fl,
           Merges(P, sel, met, r, j, top, fl), SameVersion(P), ShallowHasNewest(P),
           NEW f \in P \ (sel \cup met), f.level = j, NEW k \in Keys(f.data),
           NEW g \in P, k \in Keys(g.data), j <= g.level
    PROVE  \E h \in P \ (sel \cup met) :
              h.level <= j /\ k \in Keys(h.data) /\ g.data[k].ver <= h.data[k].ver
<1> DEFINE H == sel \cup met
<1>1. /\ j \in Nat
      /\ \A h \in P : h.level \in Nat /\ \A x \in Keys(h.data) : h.data[x].ver \in Nat
      /\ \A h \in P : h.level < j => h \notin H
  <2>1. \A h \in H : h.level = j \/ h.level = j + 1
    BY MergeTypes
  <2>2. j \in Nat /\ \A h \in P : h.level \in Nat /\ \A x \in Keys(h.data) : h.data[x].ver \in Nat
    BY MergeTypes
  <2> QED
    BY <2>1, <2>2
<1>2. CASE j = 0
  <2>1. f.data[k] = fl[k]
    BY <1>2 DEF Merges
  <2>2. g.data[k].ver <= fl[k].ver
    BY DEF Merges, NotNewer
  <2> QED
    BY <1>1, <2>1, <2>2
<1>3. CASE Hidden(P, j, k)
  <2>1. PICK d \in P : d.level < j /\ k \in Keys(d.data)
    BY <1>3 DEF Hidden
  <2>2. d.level < g.level
    BY <1>1, <2>1
  <2>3. PICK h \in P : /\ h.level <= d.level /\ k \in Keys(h.data)
                       /\ g.data[k].ver <= h.data[k].ver
    BY <2>1, <2>2 DEF ShallowHasNewest
  <2>4. h.level < j
    BY <1>1, <2>1, <2>3
  <2> QED
    BY <1>1, <2>3, <2>4
<1>4. CASE j > 0 /\ ~Hidden(P, j, k)
  <2>1. \A e \in P : e.level = j /\ k \in Keys(e.data) => f.data[k] = e.data[k]
    BY <1>4 DEF SameVersion
  <2>2. CASE g.level = j
    BY <1>1, <2>1, <2>2
  <2>3. CASE j < g.level
    <3>1. PICK h \in P : /\ h.level <= j /\ k \in Keys(h.data)
                         /\ g.data[k].ver <= h.data[k].ver
      BY <2>3 DEF ShallowHasNewest
    <3>2. ~(h.level < j)
      BY <1>4, <3>1 DEF Hidden
    <3>3. h.level = j
      BY <1>1, <3>1, <3>2
    <3> QED
      BY <1>1, <2>1, <3>1, <3>3
  <2> QED
    BY <1>1, <2>2, <2>3
<1> QED
  BY <1>1, <1>2, <1>3, <1>4

(* What hides a key from a table that is left still does so afterwards.    *)
LEMMA MergeHidden ==
    ASSUME NEW P, NEW sel, NEW met, NEW r, NEW j, NEW top, NEW fl,
           Merges(P, sel, met, r, j, top, fl),
           NEW l \in Nat, l <= top, NEW k, l = j + 1 => k \notin KeysOf(sel),
           Hidden(P, l, k)
    PROVE  Hidden((P \ (sel \cup met)) \cup {r}, l, k)
<1> DEFINE H == sel \cup met
           Q == (P \ H) \cup {r}
<1>1. PICK h \in P : h.level < l /\ k \in Keys(h.data)
  BY DEF Hidden
<1>2. CASE h \notin H
  BY <1>1, <1>2 DEF Hidden
<1>3. CASE h \in sel
  <2>1. k \in KeysOf(sel) /\ h.level = j /\ j \in Nat /\ r.level = j + 1 /\ top \in Nat
    BY <1>1, <1>3, MergeTypes DEF KeysOf
  <2>2. l # j + 1
    BY <2>1
  <2>3. j + 1 < l /\ j + 1 # top
    BY <1>1, <2>1, <2>2
  <2>4. k \in Keys(r.data)
    BY <1>1, <1>3, <2>3, MergeTakes
  <2> QED
    BY <2>1, <2>3, <2>4 DEF Hidden
<1>4. CASE h \in met
  <2>1. h.level = j + 1 /\ j \in Nat /\ r.level = j + 1 /\ top \in Nat
    BY <1>4, MergeTypes
  <2>2. j + 1 < l /\ j + 1 # top
    BY <1>1, <2>1
  <2>3. k \in Keys(r.data)
    BY <1>1, <1>4, <2>2, MergeTakes
  <2> QED
    BY <2>1, <2>2, <2>3 DEF Hidden
<1> QED
  BY <1>2, <1>3, <1>4

(* r lacks no key of its range that the next level has, unless it is       *)
(* hidden there.                                                           *)
LEMMA MergeHole ==
    ASSUME NEW P, NEW sel, NEW met, NEW r, NEW j, NEW top, NEW fl,
           Merges(P, sel, met, r, j, top, fl), NoHoles(P),
           NEW g \in P, g.level = j + 1, NEW k \in Keys(g.data), Within(Keys(r.data), k)
    PROVE  k \in Keys(r.data) \/ Hidden(P, j + 1, k)
<1> DEFINE H == sel \cup met
<1>1. /\ j \in Nat /\ j < j + 1 /\ j + 1 > 0
      /\ \A f \in sel : f \in P /\ f.level = j
      /\ \A f \in met : f \in P /\ f.level = j + 1
  BY MergeTypes
<1>2. CASE k \in KeysOf(sel)
  <2>1. PICK f \in sel : k \in Keys(f.data)
    BY <1>2 DEF KeysOf
  <2> QED
    BY <1>1, <2>1 DEF Hidden
<1>3. CASE k \notin KeysOf(sel) /\ k \in KeysOf(H)
  <2>1. PICK f \in H : k \in Keys(f.data) /\ \/ r.data[k] = f.data[k]
                                             \/ j + 1 = top /\ f.data[k].val = DEL
    BY <1>3 DEF Merges
  <2>2. f \notin sel
    BY <1>3, <2>1 DEF KeysOf
  <2>3. f.level = j + 1 /\ f \in P
    BY <1>1, <2>2
  <2>4. k \in Key
    BY <2>1 DEF Keys
  <2>5. j + 1 = top => f.data[k].val # DEL
    BY <1>1, <2>3, <2>4 DEF Merges
  <2>6. r.data[k] = f.data[k]
    BY <2>1, <2>5
  <2> QED
    BY <2>1, <2>6 DEF Keys
<1>4. CASE k \notin KeysOf(sel) /\ k \notin KeysOf(H)
  <2>1. g \notin met
    BY <1>4 DEF KeysOf
  <2>2. Apart(Keys(g.data), KeysOf(sel))
    BY <2>1, MergeUnmet
  <2>3. PICK a \in Keys(r.data), b \in Keys(r.data) : a <= k /\ k <= b
    BY DEF Within
  <2>4. PICK f \in H, e \in H : a \in Keys(f.data) /\ b \in Keys(e.data)
    BY <2>3, MergeEntry
  <2>5. /\ \A x \in KeysOf(sel) : x \in Nat
        /\ \A d \in P : \A x \in Keys(d.data) : x \in Nat
    BY KeysAssumption DEF KeysOf, Keys
  <2>6. k \in Nat /\ a \in Nat /\ b \in Nat
    BY <2>5, KeysAssumption DEF Keys
  <2>7. ASSUME NEW d \in met, Within(Keys(d.data), k) PROVE Hidden(P, j + 1, k)
    <3>1. k \notin Keys(d.data)
      BY <1>4 DEF KeysOf
    <3> QED
      BY <1>1, <2>7, <3>1 DEF NoHoles
  <2>8. CASE Below(Keys(g.data), KeysOf(sel))
    <3>1. \A x \in KeysOf(sel) : k < x
      BY <2>8 DEF Below
    <3>2. a \notin KeysOf(sel)
      BY <2>3, <2>5, <2>6, <3>1
    <3>3. f \in met
      BY <2>4, <3>2 DEF KeysOf
    <3>4. ~Below(Keys(f.data), KeysOf(sel))
      BY <3>3 DEF Merges, Apart
    <3>5. PICK x \in Keys(f.data), y \in KeysOf(sel) : ~(x < y)
      BY <3>4 DEF Below
    <3>6. x \in Nat /\ y \in Nat /\ k < y
      BY <1>1, <2>5, <3>1, <3>3, <3>5
    <3>7. k <= x
      BY <2>6, <3>5, <3>6
    <3>8. Within(Keys(f.data), k)
      BY <2>3, <2>4, <3>5, <3>7 DEF Within
    <3> QED
      BY <2>7, <3>3, <3>8
  <2>9. CASE Below(KeysOf(sel), Keys(g.data))
    <3>1. \A x \in KeysOf(sel) : x < k
      BY <2>9 DEF Below
    <3>2. b \notin KeysOf(sel)
      BY <2>3, <2>5, <2>6, <3>1
    <3>3. e \in met
      BY <2>4, <3>2 DEF KeysOf
    <3>4. ~Below(KeysOf(sel), Keys(e.data))
      BY <3>3 DEF Merges, Apart
    <3>5. PICK y \in KeysOf(sel), x \in Keys(e.data) : ~(y < x)
      BY <3>4 DEF Below
    <3>6. x \in Nat /\ y \in Nat /\ y < k
      BY <1>1, <2>5, <3>1, <3>3, <3>5
    <3>7. x <= k
      BY <2>6, <3>5, <3>6
    <3>8. Within(Keys(e.data), k)
      BY <2>3, <2>4, <3>5, <3>7 DEF Within
    <3> QED
      BY <2>7, <3>3, <3>8
  <2> QED
    BY <2>2, <2>8, <2>9 DEF Apart
<1> QED
  BY <1>2, <1>3, <1>4

(* Beside its inputs r changes nothing: a kill that leaves outputs and     *)
(* inputs on the disk leaves the layers as they were.                      *)
LEMMA LayersBeside ==
    ASSUME NEW P, NEW sel, NEW met, NEW r, NEW j, NEW top, NEW fl, NEW ds,
           Merges(P, sel, met, r, j, top, fl), Layers(P, ds, fl)
    PROVE  Layers(P \cup {r}, ds \cup (0..top), fl)
<1> DEFINE H == sel \cup met
           Q == P \cup {r}
           t == j + 1
<1>1. /\ j \in Nat /\ t \in Nat /\ j < t /\ t > 0 /\ r.level = t /\ top \in Nat
      /\ \A f \in sel : f \in P /\ f.level = j
      /\ \A f \in met : f \in P /\ f.level = t
      /\ \A f \in P : f.level \in Nat /\ f.level <= top
      /\ \A n \in Nat : n < t => n <= j
      /\ \A f \in Q : \A k \in Keys(f.data) : f.data[k].ver \in Nat
  BY MergeTypes
<1>2. P \subseteq Q /\ r \in Q /\ H \subseteq P
  BY <1>1
<1>3. \A k \in Keys(r.data) : \E f \in H : k \in Keys(f.data) /\ r.data[k] = f.data[k]
  BY MergeEntry
<1>4. SameVersion(P) /\ NoHoles(P) /\ ShallowHasNewest(P) /\ NoMarkers(P, ds) /\ KeptIn(P, fl)
  BY DEF Layers
<1> HIDE DEF Q, t
<1>5. ASSUME NEW l, NEW k, Hidden(P, l, k) PROVE Hidden(Q, l, k)
  BY <1>2, <1>5 DEF Hidden
<1>6. ASSUME NEW g \in P, g.level = t, NEW k \in Keys(g.data) \cap Keys(r.data)
      PROVE  g.data[k] = r.data[k] \/ Hidden(P, t, k)
  <2>1. PICK f \in H : k \in Keys(f.data) /\ r.data[k] = f.data[k]
    BY <1>3, <1>6
  <2>2. CASE f \in sel
    BY <1>1, <2>1, <2>2 DEF Hidden
  <2>3. CASE f \in met
    BY <1>1, <1>4, <1>6, <2>1, <2>3 DEF SameVersion
  <2> QED
    BY <2>2, <2>3
<1>7. SameVersion(Q)
  <2>1. ASSUME NEW f \in Q, NEW g \in Q, f.level = g.level, f.level > 0,
               NEW k \in Keys(f.data) \cap Keys(g.data)
        PROVE  f.data[k] = g.data[k] \/ Hidden(Q, f.level, k)
    <3>1. CASE f \in P /\ g \in P
      BY <1>4, <1>5, <2>1, <3>1 DEF SameVersion
    <3>2. CASE f = r /\ g \in P
      BY <1>1, <1>5, <1>6, <2>1, <3>2
    <3>3. CASE f \in P /\ g = r
      BY <1>1, <1>5, <1>6, <2>1, <3>3
    <3> QED
      BY <3>1, <3>2, <3>3 DEF Q
  <2> QED
    BY <2>1 DEF SameVersion
<1>8. NoHoles(Q)
  <2>1. ASSUME NEW f \in Q, NEW g \in Q, f.level = g.level, f.level > 0,
               NEW k \in Keys(g.data), Within(Keys(f.data), k)
        PROVE  k \in Keys(f.data) \/ Hidden(Q, f.level, k)
    <3>1. CASE f \in P /\ g \in P
      BY <1>4, <1>5, <2>1, <3>1 DEF NoHoles
    <3>2. CASE f = r /\ g \in P
      BY <1>1, <1>4, <1>5, <2>1, <3>2, MergeHole DEF t
    <3>3. CASE f \in P /\ g = r
      <4>1. PICK e \in H : k \in Keys(e.data)
        BY <1>3, <2>1, <3>3
      <4>2. CASE e \in sel
        BY <1>1, <1>2, <2>1, <3>3, <4>1, <4>2 DEF Hidden
      <4>3. CASE e \in met
        BY <1>1, <1>4, <1>5, <2>1, <3>3, <4>1, <4>3 DEF NoHoles
      <4> QED
        BY <4>2, <4>3
    <3> QED
      BY <2>1, <3>1, <3>2, <3>3 DEF Q
  <2> QED
    BY <2>1 DEF NoHoles
<1>9. ShallowHasNewest(Q)
  <2>1. ASSUME NEW f \in Q, NEW g \in Q, f.level < g.level, NEW k \in Keys(f.data) \cap Keys(g.data)
        PROVE  \E h \in Q : /\ h.level <= f.level /\ k \in Keys(h.data)
                            /\ g.data[k].ver <= h.data[k].ver
    <3>1. CASE f \in P /\ g \in P
      BY <1>2, <1>4, <2>1, <3>1 DEF ShallowHasNewest
    <3>2. CASE f = r /\ g \in P
      <4>1. PICK e \in H : k \in Keys(e.data)
        BY <1>3, <2>1, <3>2
      <4>2. e \in P /\ e.level <= t /\ e.level < g.level
        BY <1>1, <2>1, <3>2, <4>1
      <4>3. PICK h \in P : /\ h.level <= e.level /\ k \in Keys(h.data)
                           /\ g.data[k].ver <= h.data[k].ver
        BY <1>4, <2>1, <3>2, <4>1, <4>2 DEF ShallowHasNewest
      <4>4. h.level <= f.level
        BY <1>1, <3>2, <4>2, <4>3
      <4> QED
        BY <1>2, <4>3, <4>4
    <3>3. CASE f \in P /\ g = r
      <4>1. PICK e \in H : k \in Keys(e.data) /\ r.data[k] = e.data[k]
        BY <1>3, <2>1, <3>3
      <4>2. e \in P /\ e.level \in {j, t} /\ f.level <= j
        BY <1>1, <2>1, <3>3, <4>1
      <4>3. CASE f.level < e.level
        BY <1>2, <1>4, <2>1, <3>3, <4>1, <4>2, <4>3 DEF ShallowHasNewest
      <4>4. CASE f.level = e.level
        BY <1>1, <1>2, <3>3, <4>1, <4>2, <4>4
      <4> QED
        BY <1>1, <3>3, <4>2, <4>3, <4>4
    <3>4. ~(r.level < r.level)
      BY <1>1
    <3> QED
      BY <2>1, <3>1, <3>2, <3>3, <3>4 DEF Q
  <2> QED
    BY <2>1 DEF ShallowHasNewest
<1>10. NoMarkers(Q, ds \cup (0..top))
  <2>1. ASSUME NEW f \in Q, f.level > 0, \A m \in ds \cup (0..top) : m <= f.level, NEW k \in Key
        PROVE  f.data[k].val # DEL
    <3>1. CASE f \in P
      BY <1>4, <2>1, <3>1 DEF NoMarkers
    <3>2. CASE f = r
      <4>1. t <= top
        BY DEF Merges, t
      <4>2. top <= t
        BY <1>1, <2>1, <3>2
      <4>3. j + 1 = top
        BY <1>1, <4>1, <4>2 DEF t
      <4> QED
        BY <3>2, <4>3 DEF Merges
    <3> QED
      BY <3>1, <3>2 DEF Q
  <2> QED
    BY <2>1 DEF NoMarkers
<1>11. KeptIn(Q, fl)
  <2>1. ASSUME NEW k \in Key, \A f \in P : f.data[k] = NoEntry PROVE r.data[k] = NoEntry
    <3>1. k \notin Keys(r.data)
      BY <1>2, <1>3, <2>1 DEF Keys
    <3> QED
      BY <3>1 DEF Keys
  <2> QED
    BY <1>2, <1>4, <2>1 DEF KeptIn, Q
<1> QED
  BY <1>7, <1>8, <1>9, <1>10, <1>11 DEF Layers, Q

(* Without its inputs r still changes nothing: what they hid it hides, and *)
(* what was newest in them is newest in it.                                *)
LEMMA LayersInstead ==
    ASSUME NEW P, NEW sel, NEW met, NEW r, NEW j, NEW top, NEW fl, NEW ds,
           Merges(P, sel, met, r, j, top, fl), Layers(P, ds, fl)
    PROVE  Layers((P \ (sel \cup met)) \cup {r}, ds \cup (0..top), fl)
<1> DEFINE H == sel \cup met
           Q == (P \ H) \cup {r}
           t == j + 1
<1>1. /\ j \in Nat /\ t \in Nat /\ j < t /\ t > 0 /\ r.level = t /\ top \in Nat
      /\ \A f \in sel : f \in P /\ f.level = j
      /\ \A f \in met : f \in P /\ f.level = t
      /\ \A f \in P : f.level \in Nat /\ f.level <= top
      /\ \A n \in Nat : n < t => n <= j
      /\ \A f \in P \cup {r} : \A k \in Keys(f.data) : f.data[k].ver \in Nat
  BY MergeTypes
<1>2. H \subseteq P /\ t <= top
  BY <1>1 DEF Merges
<1>3. \A k \in Keys(r.data) : \E f \in H :
         /\ k \in Keys(f.data) /\ r.data[k] = f.data[k]
         /\ \A g \in H : k \in Keys(g.data) => g.data[k].ver <= r.data[k].ver
  BY MergeEntry
<1>4. SameVersion(P) /\ NoHoles(P) /\ ShallowHasNewest(P) /\ NoMarkers(P, ds) /\ KeptIn(P, fl)
  BY DEF Layers
<1>5. ASSUME NEW l \in Nat, l <= top, NEW k, l = t => k \notin KeysOf(sel), Hidden(P, l, k)
      PROVE  Hidden(Q, l, k)
  BY <1>5, MergeHidden
<1>6. ASSUME NEW g \in P, g \notin H, g.level = t
      PROVE  /\ \A k \in Keys(g.data) : k \notin KeysOf(sel)
             /\ \A k \in KeysOf(sel) : ~Within(Keys(g.data), k)
  BY <1>6, MergeUnmet
<1>7. ASSUME NEW k, k \notin KeysOf(sel), NEW f \in H, k \in Keys(f.data)
      PROVE  f \in met
  BY <1>7 DEF KeysOf
<1>8. ASSUME NEW f \in P \ H, f.level = j, NEW k \in Keys(f.data),
             NEW g \in P, k \in Keys(g.data), j <= g.level
      PROVE  \E h \in P \ H : h.level <= j /\ k \in Keys(h.data) /\ g.data[k].ver <= h.data[k].ver
  BY <1>4, <1>8, MergeSource
<1>9. ASSUME NEW h \in H, NEW k \in Keys(h.data), t # top
      PROVE  k \in Keys(r.data) /\ h.data[k].ver <= r.data[k].ver
  BY <1>9, MergeTakes
<1>10. ASSUME NEW g \in P, g.level = t, NEW k \in Keys(g.data), Within(Keys(r.data), k)
       PROVE  k \in Keys(r.data) \/ Hidden(P, t, k)
  BY <1>4, <1>10, MergeHole
<1>11. P \ H \subseteq Q /\ r \in Q /\ \A f \in Q : f = r \/ (f \in P /\ f \notin H)
  OBVIOUS
<1> HIDE DEF Q, t, H
<1>12. ASSUME NEW g \in P, g \notin H, g.level = t, NEW k \in Keys(g.data) \cap Keys(r.data)
       PROVE  g.data[k] = r.data[k] \/ Hidden(Q, t, k)
  <2>1. PICK f \in H : k \in Keys(f.data) /\ r.data[k] = f.data[k]
    BY <1>3, <1>12
  <2>2. k \notin KeysOf(sel)
    BY <1>6, <1>12
  <2>3. f \in P /\ f.level = t
    BY <1>1, <1>7, <2>1, <2>2
  <2>4. g.data[k] = r.data[k] \/ Hidden(P, t, k)
    BY <1>1, <1>4, <1>12, <2>1, <2>3 DEF SameVersion
  <2> QED
    BY <1>1, <1>2, <1>5, <2>2, <2>4
<1>13. SameVersion(Q)
  <2>1. ASSUME NEW f \in Q, NEW g \in Q, f.level = g.level, f.level > 0,
               NEW k \in Keys(f.data) \cap Keys(g.data)
        PROVE  f.data[k] = g.data[k] \/ Hidden(Q, f.level, k)
    <3>1. CASE f # r /\ g # r
      <4>1. f \in P /\ f \notin H /\ g \in P /\ f.level \in Nat /\ f.level <= top
        BY <1>1, <1>11, <2>1, <3>1
      <4>2. f.data[k] = g.data[k] \/ Hidden(P, f.level, k)
        BY <1>4, <2>1, <4>1 DEF SameVersion
      <4>3. f.level = t => k \notin KeysOf(sel)
        BY <1>6, <2>1, <4>1
      <4> QED
        BY <1>5, <4>1, <4>2, <4>3
    <3>2. CASE f = r /\ g # r
      BY <1>1, <1>11, <1>12, <2>1, <3>2
    <3>3. CASE f # r /\ g = r
      BY <1>1, <1>11, <1>12, <2>1, <3>3
    <3> QED
      BY <3>1, <3>2, <3>3
  <2> QED
    BY <2>1 DEF SameVersion
<1>14. NoHoles(Q)
  <2>1. ASSUME NEW f \in Q, NEW g \in Q, f.level = g.level, f.level > 0,
               NEW k \in Keys(g.data), Within(Keys(f.data), k)
        PROVE  k \in Keys(f.data) \/ Hidden(Q, f.level, k)
    <3>1. CASE f # r /\ g # r
      <4>1. /\ f \in P /\ g \in P /\ g \notin H
            /\ f.level \in Nat /\ f.level <= top
        BY <1>1, <1>11, <2>1, <3>1
      <4>2. k \in Keys(f.data) \/ Hidden(P, f.level, k)
        BY <1>4, <2>1, <4>1 DEF NoHoles
      <4>3. f.level = t => k \notin KeysOf(sel)
        BY <1>6, <2>1, <4>1
      <4> QED
        BY <1>5, <4>1, <4>2, <4>3
    <3>2. CASE f = r /\ g # r
      <4>1. g \in P /\ g \notin H /\ g.level = t
        BY <1>1, <1>11, <2>1, <3>2
      <4>2. k \in Keys(r.data) \/ Hidden(P, t, k)
        BY <1>10, <2>1, <3>2, <4>1
      <4>3. k \notin KeysOf(sel)
        BY <1>6, <2>1, <4>1
      <4> QED
        BY <1>1, <1>2, <1>5, <3>2, <4>2, <4>3
    <3>3. CASE f # r /\ g = r
      <4>1. f \in P /\ f \notin H /\ f.level = t
        BY <1>1, <1>11, <2>1, <3>3
      <4>2. PICK e \in H : k \in Keys(e.data)
        BY <1>3, <2>1, <3>3
      <4>3. k \notin KeysOf(sel)
        BY <1>6, <2>1, <4>1
      <4>4. e \in P /\ e.level = t
        BY <1>1, <1>7, <4>2, <4>3
      <4>5. k \in Keys(f.data) \/ Hidden(P, t, k)
        BY <1>1, <1>4, <2>1, <4>1, <4>2, <4>4 DEF NoHoles
      <4> QED
        BY <1>1, <1>2, <1>5, <4>1, <4>3, <4>5
    <3> QED
      BY <2>1, <3>1, <3>2, <3>3
  <2> QED
    BY <2>1 DEF NoHoles
<1>15. ShallowHasNewest(Q)
  <2>1. ASSUME NEW f \in Q, NEW g \in Q, f.level < g.level, NEW k \in Keys(f.data) \cap Keys(g.data)
        PROVE  \E h \in Q : /\ h.level <= f.level /\ k \in Keys(h.data)
                            /\ g.data[k].ver <= h.data[k].ver
    <3>1. CASE f # r /\ f.level < j
      (* e is a table of P with the version of g.                          *)
      <4>1. PICK e \in P : e.level > f.level /\ k \in Keys(e.data) /\ e.data[k] = g.data[k]
        <5>1. CASE g # r
          BY <1>11, <2>1, <5>1
        <5>2. CASE g = r
          <6>1. PICK e \in H : k \in Keys(e.data) /\ r.data[k] = e.data[k]
            BY <1>3, <2>1, <5>2
          <6>2. e \in P /\ e.level \in {j, t}
            BY <1>1, <6>1 DEF H
          <6>3. e.level > f.level
            BY <1>1, <1>11, <3>1, <6>2
          <6> QED
            BY <5>2, <6>1, <6>2, <6>3
        <5> QED
          BY <5>1, <5>2
      <4>2. PICK h \in P : /\ h.level <= f.level /\ k \in Keys(h.data)
                           /\ e.data[k].ver <= h.data[k].ver
        BY <1>4, <1>11, <2>1, <3>1, <4>1 DEF ShallowHasNewest
      <4>3. h.level < j
        BY <1>1, <1>11, <3>1, <4>2
      <4>4. h \notin H
        BY <1>1, <4>3 DEF H
      <4> QED
        BY <1>11, <4>1, <4>2, <4>4
    <3>2. CASE f # r /\ f.level = j
      <4>1. PICK e \in P : e.level >= j /\ k \in Keys(e.data) /\ e.data[k] = g.data[k]
        <5>1. CASE g # r
          BY <1>1, <1>11, <2>1, <3>2, <5>1
        <5>2. CASE g = r
          <6>1. PICK e \in H : k \in Keys(e.data) /\ r.data[k] = e.data[k]
            BY <1>3, <2>1, <5>2
          <6>2. e \in P /\ e.level \in {j, t}
            BY <1>1, <6>1 DEF H
          <6>3. e.level >= j
            BY <1>1, <6>2
          <6> QED
            BY <5>2, <6>1, <6>2, <6>3
        <5> QED
          BY <5>1, <5>2
      <4>2. f \in P \ H /\ j <= e.level
        BY <1>1, <1>11, <3>2, <4>1
      <4>3. PICK h \in P \ H : h.level <= j /\ k \in Keys(h.data) /\ e.data[k].ver <= h.data[k].ver
        BY <1>8, <2>1, <3>2, <4>1, <4>2
      <4> QED
        BY <1>11, <3>2, <4>1, <4>3
    <3>3. CASE f = r \/ (f # r /\ ~(f.level <= j))
      <4>1. f.level \in Nat /\ t <= f.level
        BY <1>1, <1>11, <3>3
      <4>2. g # r
        BY <1>1, <2>1, <4>1
      <4>3. g \in P /\ g.level <= top /\ g.level \in Nat
        BY <1>1, <1>11, <4>2
      <4>4. t # top
        BY <1>1, <2>1, <4>1, <4>3
      <4>5. PICK e \in P : e.level <= f.level /\ k \in Keys(e.data)
        <5>1. CASE f # r
          BY <1>1, <1>11, <2>1, <5>1
        <5>2. CASE f = r
          <6>1. PICK e \in H : k \in Keys(e.data)
            BY <1>3, <2>1, <5>2
          <6>2. e \in P /\ e.level \in {j, t}
            BY <1>1, <6>1 DEF H
          <6> QED
            BY <1>1, <5>2, <6>1, <6>2
        <5> QED
          BY <5>1, <5>2
      <4>6. e.level < g.level
        BY <1>1, <2>1, <4>1, <4>3, <4>5
      <4>7. PICK h \in P : /\ h.level <= e.level /\ k \in Keys(h.data)
                           /\ g.data[k].ver <= h.data[k].ver
        BY <1>4, <2>1, <4>3, <4>5, <4>6 DEF ShallowHasNewest
      <4>8. h.level <= f.level
        BY <1>1, <4>1, <4>5, <4>7
      <4>9. CASE h \notin H
        BY <1>11, <4>7, <4>8, <4>9
      <4>10. CASE h \in H
        <5>1. k \in Keys(r.data) /\ h.data[k].ver <= r.data[k].ver
          BY <1>9, <4>4, <4>7, <4>10
        <5>2. g.data[k].ver <= r.data[k].ver
          <6>1. g.data[k].ver \in Nat /\ h.data[k].ver \in Nat /\ r.data[k].ver \in Nat
            BY <1>1, <2>1, <4>3, <4>7, <5>1
          <6> QED
            BY <4>7, <5>1, <6>1
        <5> QED
          BY <1>1, <1>11, <4>1, <5>1, <5>2
      <4> QED
        BY <4>9, <4>10
    <3> QED
      BY <1>1, <1>11, <3>1, <3>2, <3>3
  <2> QED
    BY <2>1 DEF ShallowHasNewest
<1>16. NoMarkers(Q, ds \cup (0..top))
  <2>1. Q \subseteq P \cup {r} /\ Layers(P \cup {r}, ds \cup (0..top), fl)
    BY <1>11, LayersBeside
  <2> QED
    BY <2>1 DEF Layers, NoMarkers
<1>17. KeptIn(Q, fl)
  <2>1. ASSUME NEW k \in Key, fl[k] # NoEntry, NEW g \in P, g.data[k] = fl[k]
        PROVE  \/ \E f \in Q : f.data[k] = fl[k]
               \/ fl[k].val = DEL /\ \A f \in Q : f.data[k] = NoEntry
    <3>1. CASE g \notin H
      BY <1>11, <2>1, <3>1
    <3>2. CASE g \in H
      <4>1. k \in Keys(g.data) /\ k \in KeysOf(H)
        BY <2>1, <3>2 DEF Keys, KeysOf
      <4>2. PICK f \in H :
               /\ k \in Keys(f.data) /\ g.data[k].ver <= f.data[k].ver
               /\ \/ r.data[k] = f.data[k]
                  \/ r.data[k] = NoEntry /\ t = top /\ f.data[k].val = DEL
        BY <3>2, <4>1 DEF Merges, H, t
      <4>3. f \in P /\ f.level \in {j, t} /\ f.data[k].ver \in Nat /\ g.data[k].ver \in Nat
        BY <1>1, <2>1, <4>1, <4>2 DEF H
      <4>4. f.data[k] = fl[k]
        <5>1. NotNewer(f.data[k], fl[k])
          BY <4>2, <4>3 DEF Merges
        <5> QED
          BY <2>1, <4>2, <4>3, <5>1 DEF NotNewer
      <4>5. CASE r.data[k] = f.data[k]
        BY <1>11, <4>4, <4>5
      <4>6. CASE /\ r.data[k] = NoEntry /\ t = top /\ f.data[k].val = DEL
                 /\ \E e \in Q : e.data[k] # NoEntry
        <5>1. PICK e \in Q : e.data[k] # NoEntry
          BY <4>6
        <5>2. e \in P /\ e \notin H /\ k \in Keys(e.data) /\ e.level \in Nat /\ e.level <= t
          BY <1>1, <1>11, <4>6, <5>1 DEF Keys
        <5>3. f \notin met
          BY <1>1, <4>6 DEF Merges
        <5>4. f.level = j /\ k \in KeysOf(sel)
          BY <1>1, <4>2, <5>3 DEF KeysOf, H
        <5>5. e.level # t
          BY <1>6, <5>2, <5>4
        <5>6. \E h \in P \ H : k \in Keys(h.data) /\ f.data[k].ver <= h.data[k].ver
          <6>1. CASE e.level = j
            BY <1>1, <1>8, <4>2, <4>3, <5>2, <5>4, <6>1
          <6>2. CASE e.level < j
            <7>1. PICK h \in P : /\ h.level <= e.level /\ k \in Keys(h.data)
                                 /\ f.data[k].ver <= h.data[k].ver
              BY <1>4, <4>2, <4>3, <5>2, <5>4, <6>2 DEF ShallowHasNewest
            <7>2. h.level < j
              BY <1>1, <5>2, <6>2, <7>1
            <7>3. h \notin H
              BY <1>1, <7>2 DEF H
            <7> QED
              BY <7>1, <7>3
          <6>3. e.level <= j
            BY <1>1, <5>2, <5>5
          <6> QED
            BY <1>1, <5>2, <6>1, <6>2, <6>3
        <5>7. PICK h \in P \ H : k \in Keys(h.data) /\ fl[k].ver <= h.data[k].ver
          BY <4>4, <5>6
        <5>8. h.data[k] = fl[k]
          <6>1. NotNewer(h.data[k], fl[k]) /\ h.data[k].ver \in Nat /\ fl[k].ver \in Nat
            BY <1>1, <4>3, <4>4, <5>7 DEF Merges
          <6> QED
            BY <5>7, <6>1 DEF NotNewer
        <5> QED
          BY <1>11, <5>7, <5>8
      <4> QED
        BY <4>2, <4>4, <4>5, <4>6
    <3> QED
      BY <3>1, <3>2
  <2>2. ASSUME NEW k \in Key, \A f \in P : f.data[k] = NoEntry, NEW e \in Q
        PROVE  e.data[k] = NoEntry
    <3>1. k \notin Keys(r.data)
      BY <1>2, <1>3, <2>2 DEF Keys
    <3>2. r.data[k] = NoEntry
      BY <3>1 DEF Keys
    <3> QED
      BY <1>11, <2>2, <3>2
  <2> QED
    BY <1>4, <2>1, <2>2 DEF KeptIn
<1>18. Layers(Q, ds \cup (0..top), fl)
  BY <1>13, <1>14, <1>15, <1>16, <1>17 DEF Layers
<1> QED
  BY <1>18 DEF Q, H


---------------------------------------------------------------------------
(* The layers of the files, with and without those that a merge is to      *)
(* delete, and of what it has still to write.                              *)

Rest == IF pc = "write" THEN {[level |-> job.level + 1, data |-> job.rest]} ELSE {}

LayersOK ==
    pc # "reset" =>
        /\ Layers(Live \cup Rest, dirs, flushed)
        /\ pc # "delete" => Layers(files \cup Rest, dirs, flushed)

(* What compaction merges is a merge in the sense above.                   *)
LEMMA StartMerges ==
    ASSUME Cached, Cached', MergeOK, Versions, TimeIsAge, CompactStart,
           NoMarkers(files, dirs), NEW sel, NEW met, Starts(sel, met)
    PROVE  Merges(files, sel, met, [level |-> job.level + 1, data |-> job'.rest],
                  job.level, totalLevel', flushed)
<1> DEFINE j == job.level
           top == totalLevel'
           H == sel \cup met
           r == [level |-> j + 1, data |-> job'.rest]
<1>1. /\ pc = "compact" /\ j \in Nat /\ top \in Nat
      /\ dirs' = dirs \cup {j + 1} /\ dirs' = 0..top /\ H \subseteq files
  BY StartFacts
<1>2. /\ \A f \in files : f.level \in Nat /\ f.level \in dirs /\ f.data \in Data
      /\ job'.rest \in Data
  BY FileTypes DEF Cached, Fresh, DirsOK, Typed, TypeOK
<1>3. /\ \A f \in files : \A k \in Keys(f.data) : NotNewer(f.data[k], flushed[k])
      /\ \A k \in Key : flushed[k] \in Entry
  BY <1>1, FileTypes DEF Versions, FilesOld, Cached, Fresh, Typed, TypeOK
<1>4. /\ r.level = j + 1 /\ r.data = job'.rest
      /\ Starts(sel, met) /\ sel \subseteq {f \in files : f.level = j}
      /\ met = {f \in files : f.level = j + 1 /\ ~Apart(Keys(f.data), KeysOf(sel))}
  BY DEF Starts
<1>5. ASSUME j = 0, NEW f \in files \ sel, f.level = 0, NEW k \in Keys(f.data)
      PROVE  f.data[k] = flushed[k]
  <2>1. HeadOf(f) \notin ToSet(sstableIndex[0])
    BY <1>5 DEF Starts
  <2>2. Closing
    <3>1. 0 \in Level /\ Up
      BY <1>1, LevelsAssumption DEF Level, Up
    <3>2. HeadOf(f) \in HeadsIn(files, 0)
      BY <1>5 DEF HeadsIn
    <3> QED
      BY <1>1, <2>1, <3>1, <3>2, CachedUp
  <2>3. f.data = s /\ flushed = latest
    BY <1>5, <2>1, <2>2 DEF Versions, UncachedOK, MemOK
  <2>4. k \in Key /\ s[k] # NoEntry
    BY <2>3 DEF Keys
  <2> QED
    BY <2>3, <2>4 DEF Versions, MemOK
<1>6. \A f \in files : f.level = top /\ top > 0 => \A k \in Key : f.data[k].val # DEL
  <2>1. \A m \in dirs : m <= top
    BY <1>1
  <2> QED
    BY <2>1 DEF NoMarkers
<1>7. ASSUME j + 1 = top, NEW k \in Key PROVE job'.rest[k].val # DEL
  <2>1. NoEntry.val # DEL
    BY DEF NoEntry, None, DEL
  <2> QED
    BY <1>7, <2>1, StartRest
<1>8. \A k : k \in KeysOf(H) <=> k \in Key /\ Holders(H, k) # {}
  BY DEF KeysOf, Keys, Holders
<1>9. Keys(job'.rest) \subseteq KeysOf(H)
  <2>1. ASSUME NEW k \in Keys(job'.rest) PROVE k \in KeysOf(H)
    BY <1>8, RestFrom DEF Keys
  <2> QED
    BY <2>1
<1>10. ASSUME NEW k \in KeysOf(H)
       PROVE  \E f \in H :
                /\ k \in Keys(f.data)
                /\ \A g \in H : k \in Keys(g.data) => g.data[k].ver <= f.data[k].ver
                /\ \/ job'.rest[k] = f.data[k]
                   \/ job'.rest[k] = NoEntry /\ j + 1 = top /\ f.data[k].val = DEL
  <2>1. k \in Key /\ Holders(H, k) # {}
    BY <1>8
  <2>2. PICK F \in Holders(H, k) :
            /\ \A g \in Holders(H, k) : g.time <= F.time
            /\ job'.rest[k] = IF j + 1 = top /\ F.data[k].val = DEL THEN NoEntry ELSE F.data[k]
    BY <2>1, StartRest
  <2>3. \A g \in Holders(H, k) : g.data[k].ver <= F.data[k].ver
    <3> HIDE DEF H
    <3> QED
      BY <1>1, <2>1, <2>2, NewestInput
  <2>4. \A g : g \in Holders(H, k) <=> g \in H /\ k \in Keys(g.data)
    BY <2>1 DEF Holders, Keys
  <2> HIDE DEF H, j, top
  <2> QED
    BY <2>2, <2>3, <2>4
<1>11. j + 1 <= top /\ \A f \in files : f.level \in 0..top
  BY <1>1, <1>2
<1>12. j = 0 => \A f \in files \ sel : f.level = 0 => \A k \in Keys(f.data) : f.data[k] = flushed[k]
  BY <1>5
<1>13. j + 1 = top => \A k \in Key : job'.rest[k].val # DEL
  BY <1>7
<1> HIDE DEF r, j, top
<1>14. Merges(files, sel, met, r, j, top, flushed)
  BY <1>1, <1>2, <1>3, <1>4, <1>6, <1>9, <1>10, <1>11, <1>12, <1>13 DEF Merges
<1> QED
  BY <1>14 DEF r, j, top

LEMMA LayersStart ==
    ASSUME Cached, Cached', MergeOK, Versions, TimeIsAge, LayersOK, CompactStart
    PROVE  LayersOK'
<1>1. PICK sel, met : Starts(sel, met)
  BY StartFiles
<1> DEFINE j == job.level
           top == totalLevel'
           H == sel \cup met
           r == [level |-> j + 1, data |-> job'.rest]
<1>2. /\ pc = "compact" /\ pc' \in {"write", "delete"} /\ j \in Nat /\ job'.level = j
      /\ dirs' = dirs \cup {j + 1} /\ dirs' = 0..top /\ files' = files /\ flushed' = flushed
      /\ job'.rest # NoData => pc' = "write"
      /\ Live = files /\ Live' = files \ H /\ H \subseteq files
  BY <1>1, StartFacts DEF CompactStart, ghost
<1>2a. pc' = "delete" => job'.rest = NoData
  BY <1>2
<1>3. Layers(files, dirs, flushed)
  <2>1. Rest = {}
    BY <1>2 DEF Rest
  <2> QED
    BY <1>2, <2>1 DEF LayersOK
<1>4. Merges(files, sel, met, r, j, top, flushed)
  BY <1>1, <1>3, StartMerges DEF Layers
<1>5. dirs \cup (0..top) = dirs'
  BY <1>2
<1>6. r.level = j + 1 /\ r.data = job'.rest
  OBVIOUS
<1> HIDE DEF r, top
<1>7. Layers(files \cup {r}, dirs', flushed)
  BY <1>3, <1>4, <1>5, LayersBeside
<1>8. Layers((files \ H) \cup {r}, dirs', flushed)
  BY <1>3, <1>4, <1>5, LayersInstead
<1>9. CASE pc' = "write"
  <2>1. Rest' = {r}
    BY <1>2, <1>9 DEF Rest, r
  <2> HIDE DEF H
  <2> QED
    BY <1>2, <1>7, <1>8, <1>9, <2>1 DEF LayersOK, Layers, SameVersion, NoHoles,
       ShallowHasNewest, NoMarkers, KeptIn, Hidden, Within, Keys
<1>10. CASE pc' = "delete"
  <2>1. Keys(r.data) = {}
    BY <1>2a, <1>6, <1>10 DEF Keys, NoData
  <2>2. \A f \in files \ H : f.level \in Nat
    BY FileTypes
  <2>3. r.level \in Nat
    BY <1>2, <1>6
  <2>4. Layers(files \ H, dirs', flushed)
    BY <1>8, <2>1, <2>2, <2>3, LayersDrop
  <2>5. Rest' = {}
    BY <1>10 DEF Rest
  <2> HIDE DEF H
  <2> QED
    BY <1>2, <1>10, <2>4, <2>5 DEF LayersOK
<1> QED
  BY <1>2, <1>9, <1>10

(* The next output is cut out of what is to be written.                    *)
LEMMA LayersOutput ==
    ASSUME Cached, MergeOK, LayersOK, WriteOutput
    PROVE  LayersOK'
<1> DEFINE j == job.level
           r == [level |-> j + 1, data |-> job.rest]
           g == [level |-> j + 1, data |-> job'.rest]
<1>1. PICK f \in File :
         /\ pc = "write" /\ UNCHANGED <<dirs, flushed>>
         /\ pc' \in {"write", "delete"} /\ Live' = Live \cup {f} /\ files' = files \cup {f}
         /\ f.level = j + 1 /\ job'.level = j
         /\ Keys(f.data) = Fitting(job.rest)
         /\ Keys(job'.rest) = Keys(job.rest) \ Fitting(job.rest)
         /\ \A k \in Keys(f.data) : f.data[k] = job.rest[k]
         /\ \A k \in Key \ Keys(f.data) : f.data[k] = NoEntry
         /\ \A k \in Keys(job'.rest) : job'.rest[k] = job.rest[k]
         /\ \A k \in Key \ Keys(job'.rest) : job'.rest[k] = NoEntry
  BY OutputFacts
<1>2. pc' = "delete" => job'.rest = NoData
  BY DEF WriteOutput, Cached, Fresh, Typed, TypeOK
<1>3. r.level = j + 1 /\ r.data = job.rest /\ g.level = j + 1 /\ g.data = job'.rest /\ j + 1 \in Nat
  BY FileTypes
<1>4. Rest = {r} /\ (pc' = "write" => Rest' = {g}) /\ (pc' = "delete" => Rest' = {})
  BY <1>1 DEF Rest
<1> HIDE DEF r, g, j
<1>5. Fitting(job.rest) \subseteq Keys(job.rest)
  BY FileTypes, FittingFirst
<1>6. Keys(f.data) \cup Keys(g.data) = Keys(r.data) /\ Below(Keys(f.data), Keys(g.data))
  BY <1>1, <1>3, <1>5, FileTypes, FittingFirst
<1>7. /\ \A k \in Key : f.data[k] = IF k \in Keys(f.data) THEN r.data[k] ELSE NoEntry
      /\ \A k \in Key : g.data[k] = IF k \in Keys(g.data) THEN r.data[k] ELSE NoEntry
  BY <1>1, <1>3
<1>8. pc' = "delete" => Keys(g.data) = {}
  BY <1>2, <1>3 DEF Keys, NoData
<1>9. ASSUME NEW P, Layers(P \cup {r}, dirs, flushed)
      PROVE  Layers((P \cup {f}) \cup Rest', dirs, flushed)
  <2> DEFINE Q == (P \cup {f}) \cup Rest'
  <2>1. P \cup {f} \subseteq Q /\ Q \subseteq P \cup {f, g} /\ (g \in Q \/ Keys(g.data) = {})
    BY <1>1, <1>4, <1>8
  <2> HIDE DEF Q
  <2>2. Cut(r, f, g)
    BY <1>1, <1>3, <1>6, <1>7 DEF Cut
  <2>3. Layers(Q, dirs, flushed)
    BY <1>9, <2>1, <2>2, LayersCut
  <2> QED
    BY <2>3 DEF Q
<1>10. Layers(Live' \cup Rest', dirs, flushed)
  BY <1>1, <1>4, <1>9 DEF LayersOK
<1>11. Layers(files' \cup Rest', dirs, flushed)
  BY <1>1, <1>4, <1>9 DEF LayersOK
<1> QED
  BY <1>1, <1>10, <1>11 DEF LayersOK, Layers, SameVersion, NoHoles, ShallowHasNewest,
     NoMarkers, KeptIn, Hidden, Within, Keys

(* No step of a merge: all files are there, and they alone.                *)
LEMMA LayersAll ==
    ASSUME MergeOK, pc \notin {"write", "delete", "reset"}
    PROVE  LayersOK <=> Layers(files, dirs, flushed)
<1>1. Live = files /\ Rest = {}
  BY DEF MergeOK, Live, Rest
<1> QED
  BY <1>1 DEF LayersOK

LEMMA LayersSame ==
    ASSUME NEW P, NEW ds, NEW fl, NEW last, Layers(P, ds, fl), \A k \in Key : last[k] = fl[k]
    PROVE  Layers(P, ds, last)
  BY DEF Layers, KeptIn

LEMMA LayersNone ==
    ASSUME NEW ds
    PROVE  Layers({}, ds, NoData)
  BY DEF Layers, SameVersion, NoHoles, ShallowHasNewest, NoMarkers, KeptIn, NoData

(* Outside of a merge and a reset, the layers are those of the files.      *)
LEMMA LayersThen ==
    ASSUME MergeOK', pc' \notin {"write", "delete", "reset"}, Layers(files', dirs', flushed')
    PROVE  LayersOK'
<1>1. Layers(files, dirs, flushed)'
  BY DEF Layers, SameVersion, NoHoles, ShallowHasNewest, NoMarkers, KeptIn, Hidden, Within, Keys
<1>2. Live' = files' /\ Rest' = {}
  BY DEF MergeOK, Live, Rest
<1> QED
  BY <1>1, <1>2 DEF LayersOK

LEMMA LayersStill ==
    ASSUME MergeOK, MergeOK', LayersOK, UNCHANGED <<files, dirs, flushed>>,
           pc \notin {"write", "delete", "reset"}, pc' \notin {"write", "delete", "reset"}
    PROVE  LayersOK'
<1>1. Layers(files, dirs, flushed)
  BY LayersAll
<1> QED
  BY <1>1, LayersThen

(* The memtable becomes a file: its versions are the last writes.          *)
LEMMA LayersFile ==
    ASSUME Written, MergeOK', LayersOK, NEW f \in File, f.level = 0, f.time = TIME + 1,
           f.data = s, files' = WriteFile(f), dirs' = dirs \cup {0},
           flushed' = latest, pc = "idle", pc' = "compact"
    PROVE  LayersOK'
<1>0. Cached /\ MergeOK /\ Versions
  BY DEF Written
<1>1. files' = files \cup {f}
  BY <1>0, FlushFacts
<1>2. \A g \in files : \A k \in Keys(g.data) \cap Keys(f.data) : g.data[k].ver <= f.data[k].ver
  <2>1. ASSUME NEW g \in files, NEW k \in Keys(g.data) \cap Keys(f.data)
        PROVE  g.data[k].ver <= f.data[k].ver
    <3>1. k \in Key /\ s[k] # NoEntry
      BY <2>1 DEF Keys
    <3>2. f.data[k] = latest[k]
      BY <1>0, <3>1 DEF Versions, MemOK
    <3>3. g.data[k].ver <= flushed[k].ver /\ flushed[k].ver <= latest[k].ver
      BY <1>0, <2>1, <3>1 DEF Versions, MemOK, FilesOld, NotNewer
    <3>4. g.data[k].ver \in Nat /\ flushed[k].ver \in Nat /\ latest[k].ver \in Nat
      BY <1>0, <2>1, <3>1, FileTypes DEF Cached, Fresh, Typed, TypeOK
    <3> QED
      BY <3>2, <3>3, <3>4
  <2> QED
    BY <2>1
<1>3. \A k \in Key : latest[k] = IF f.data[k] = NoEntry THEN flushed[k] ELSE f.data[k]
  BY <1>0 DEF Versions, MemOK
<1>4. Layers(files, dirs, flushed) /\ \A g \in files : g.level \in Nat
  BY <1>0, LayersAll, FileTypes
<1>5. Layers(files \cup {f}, dirs \cup {0}, latest)
  BY <1>2, <1>3, <1>4, LayersFlush
<1> QED
  BY <1>1, <1>5, LayersThen

LEMMA LayersNext ==
    ASSUME Written, Written', ForgottenFirst, TimeIsAge, LayersOK,
           CrashPoints \cap {"delete", "reset"} = {}, [Next]_vars
    PROVE  LayersOK'
<1>0. Cached /\ MergeOK /\ Versions /\ Cached' /\ MergeOK'
  BY DEF Written
<1>1. CASE CompactNothing \/ FinishPut \/ FinishClose \/ OpenLevel \/ OpenDone \/ OpenStart
  BY <1>0, <1>1, LayersStill DEF CompactNothing, FinishPut, FinishClose, Forget, OpenLevel,
     OpenDone, OpenStart, disk, ghost
<1>2. CASE Reset \/ ResetFile \/ ResetDir
  BY <1>2 DEF Reset, ResetFile, ResetDir, LayersOK
<1>3. CASE ResetDone
  <2>1. /\ UNCHANGED <<flushed, files>> /\ pc = "reset" /\ pc' = "idle"
        /\ job.level > totalLevel
    BY <1>3 DEF ResetDone, disk, ghost
  <2>2. files' = {}
    <3> DEFINE j == job.level
    <3>1. j \in Nat /\ totalLevel \in Int /\ j > totalLevel /\ dirs = j..totalLevel
      BY <1>0, <2>1, FileTypes DEF Cached, DirsExact, Up, Fresh, Typed, TypeOK
    <3> HIDE DEF j
    <3>2. dirs = {}
      BY <3>1
    <3> QED
      BY <1>0, <2>1, <3>2 DEF Cached, Fresh, DirsOK
  <2>3. flushed' = NoData
    BY <2>1 DEF ForgottenFirst
  <2> QED
    BY <1>0, <2>1, <2>2, <2>3, LayersNone, LayersThen
<1>4. CASE CompactEnd
  <2>1. /\ pc = "delete" /\ pc' \in {"compact", "finish"} /\ job.doomed = {}
        /\ UNCHANGED <<files, dirs, flushed>>
    BY <1>4 DEF CompactEnd, disk, ghost
  <2>2. Live = files /\ Rest = {}
    BY <2>1 DEF Live, Rest
  <2>3. Layers(files, dirs, flushed)
    BY <2>1, <2>2 DEF LayersOK
  <2> QED
    BY <1>0, <2>1, <2>3, LayersThen
<1>5. CASE DeleteInput
  <2>1. pc = "delete" /\ pc' = "delete" /\ UNCHANGED <<dirs, flushed>>
    BY <1>0, <1>5, DeleteFacts
  <2>2. Live' = Live /\ Rest = {} /\ Rest' = {}
    <3>1. PICK n \in job.doomed :
             /\ files' = {f \in files : NameOf(f) # n} /\ job'.doomed = job.doomed \ {n}
      BY <1>0, <1>5, DeleteFacts
    <3>2. \A f : NameOf(f)' = NameOf(f)
      BY DEF NameOf
    <3> QED
      BY <2>1, <3>1, <3>2 DEF Live, Rest
  <2> QED
    BY <2>1, <2>2 DEF LayersOK, Layers, SameVersion, NoHoles, ShallowHasNewest,
       NoMarkers, KeptIn, Hidden, Within, Keys
<1>6. CASE Crash
  <2>1. /\ pc' = "down" /\ pc \notin {"delete", "reset"} /\ UNCHANGED <<files, dirs, flushed>>
    BY <1>6 DEF Crash, Forget, disk
  <2>2. CASE pc # "write"
    BY <1>0, <2>1, <2>2, LayersStill
  <2>3. CASE pc = "write"
    <3> DEFINE r == [level |-> job.level + 1, data |-> job.rest]
    <3>1. Layers(files \cup {r}, dirs, flushed)
      BY <2>3 DEF LayersOK, Rest
    <3>2. r.level \in Nat /\ \A f \in files : f.level \in Nat
      BY <1>0, FileTypes
    <3>3. \A k \in Keys(r.data) : \E f \in files : f.level <= r.level /\ f.data[k] = r.data[k]
      BY <1>0, <2>3 DEF MergeOK
    <3> HIDE DEF r
    <3>4. Layers(files, dirs, flushed)
      BY <3>1, <3>2, <3>3, LayersDrop
    <3> QED
      BY <1>0, <2>1, <3>4, LayersThen
  <2> QED
    BY <2>2, <2>3
<1>7. CASE CloseEmpty
  <2>1. /\ UNCHANGED <<files, dirs>> /\ pc = "idle" /\ pc' = "down" /\ flushed' = latest
        /\ s = NoData
    BY <1>7 DEF CloseEmpty, Forget, disk
  <2>2. \A k \in Key : latest[k] = flushed[k]
    BY <1>0, <2>1 DEF Versions, MemOK, NoData
  <2>3. Layers(files, dirs, flushed)
    BY <1>0, <2>1, LayersAll
  <2>4. Layers(files, dirs, latest)
    BY <2>2, <2>3, LayersSame
  <2> QED
    BY <1>0, <2>1, <2>4, LayersThen
<1>8. ASSUME NEW k \in Key, NEW v, Store(k, v) PROVE LayersOK'
  <2>1. CASE PutInMemory(k, v)
    BY <1>0, <1>8, <2>1, LayersStill DEF PutInMemory, Store, disk
  <2>2. CASE PutAndFlush(k, v)
    BY <1>0, <1>8, <2>2, StoreFlushes, LayersFile DEF Store
  <2> QED
    BY <1>8, <2>1, <2>2 DEF Store
<1>9. CASE Close
  BY <1>0, <1>9, CloseFlushes, LayersFile
<1>10. CASE UNCHANGED vars
  <2>1. UNCHANGED <<files, dirs, flushed, pc, job>>
    BY <1>10 DEF vars, disk, ghost
  <2>2. Live' = Live /\ Rest' = Rest
    BY <2>1 DEF Live, Rest
  <2> QED
    BY <2>1, <2>2 DEF LayersOK, Layers, SameVersion, NoHoles, ShallowHasNewest,
       NoMarkers, KeptIn, Hidden, Within, Keys
<1>11. CASE Continue
  BY <1>0, <1>1, <1>2, <1>3, <1>4, <1>5, <1>11, LayersStart, LayersOutput DEF Continue
<1>12. CASE Call
  BY <1>2, <1>7, <1>8, <1>9, <1>12 DEF Call, Del, Put
<1> QED
  BY <1>1, <1>6, <1>10, <1>11, <1>12 DEF Next

LEMMA LayersInit == Init => LayersOK /\ ForgottenFirst
<1> SUFFICES ASSUME Init PROVE LayersOK /\ ForgottenFirst
  OBVIOUS
<1>1. files = {} /\ flushed = NoData /\ pc = "idle" /\ MergeOK
  BY WrittenInit DEF Init, Written
<1> QED
  BY <1>1, LayersNone, LayersAll DEF ForgottenFirst

(* As long as timestamps order versions the layers stay, through kills     *)
(* while a merge writes.                                                   *)
LEMMA LayersAlways ==
    ASSUME CrashPoints \cap {"delete", "reset"} = {}
    PROVE  Spec /\ []TimeIsAge => []LayersOK
<1>1. Init => LayersOK /\ ForgottenFirst
  BY LayersInit
<1>2. /\ Written /\ Written' /\ ForgottenFirst /\ TimeIsAge /\ LayersOK /\ [Next]_vars
      => (ForgottenFirst /\ LayersOK)'
  BY LayersNext, ForgottenNext
<1>3. Spec => []Written
  BY WrittenAlways
<1> QED
  BY <1>1, <1>2, <1>3, PTL DEF Spec

---------------------------------------------------------------------------
(* What get and scan find.                                                 *)

(* No client put the empty string, which get takes for no value.           *)
Valued ==
    /\ \A k \in Key : latest[k] # NoEntry => latest[k].val # None
    /\ \A k \in Key : flushed[k] # NoEntry => flushed[k].val # None
    /\ pending # <<>> => pending[1].val # None

LEMMA QuietLayers ==
    ASSUME Written, LayersOK, Quiet
    PROVE  Layers(files, dirs, flushed)
  BY LayersAll DEF Written, Quiet

(* The newest version that a file has of a key is the last flushed one.    *)
LEMMA NewestIsFlushed ==
    ASSUME Written, LayersOK, Quiet, NEW k \in Key, NEW F \in files, k \in Keys(F.data),
           \A G \in files : k \in Keys(G.data) => G.data[k].ver <= F.data[k].ver
    PROVE  F.data[k] = flushed[k]
<1>0. pc = "idle" /\ Cached /\ KeptIn(files, flushed)
  BY QuietLayers DEF Quiet, Written, Layers
<1>1. NotNewer(F.data[k], flushed[k]) /\ F.data[k] # NoEntry /\ F.data[k].ver \in Nat
  BY <1>0, FileTypes DEF Written, Versions, FilesOld, Keys
<1>2. CASE flushed[k] = NoEntry
  <2>1. F.data[k].ver = 0
    BY <1>1, <1>2 DEF NotNewer, NoEntry
  <2> QED
    BY <1>1, <1>2, <2>1 DEF NotNewer, NoEntry
<1>3. ASSUME flushed[k] # NoEntry, NEW G \in files, G.data[k] = flushed[k]
      PROVE  F.data[k] = flushed[k]
  <2>1. k \in Keys(G.data) /\ G.data[k].ver \in Nat
    BY <1>0, <1>3, FileTypes DEF Keys
  <2> QED
    BY <1>1, <1>3, <2>1 DEF NotNewer
<1> QED
  BY <1>0, <1>1, <1>2, <1>3 DEF KeptIn

(* A key that no file has reads as the empty string, and was flushed last  *)
(* as a marker, if at all.                                                 *)
LEMMA NothingIsFlushed ==
    ASSUME Written, LayersOK, Quiet, NEW k \in Key, \A f \in files : k \notin Keys(f.data)
    PROVE  Visible(flushed[k]) = NoEntry
<1>1. \A f \in files : f.data[k] = NoEntry
  BY DEF Keys
<1>2. flushed[k] = NoEntry \/ flushed[k].val = DEL
  BY <1>1, QuietLayers DEF Layers, KeptIn
<1> QED
  BY <1>2 DEF Visible, NoEntry

(* Nothing in the memtable: the last write of the key was flushed.         *)
LEMMA MemoryFirst ==
    ASSUME Written, Valued, NEW k \in Key
    PROVE  /\ s[k].val # None <=> s[k] # NoEntry
           /\ s[k] # NoEntry => s[k] = latest[k]
           /\ s[k] = NoEntry => latest[k] = flushed[k]
<1>1. s[k] \in {NoEntry, latest[k]} /\ (s[k] = NoEntry => latest[k] = flushed[k])
  BY DEF Written, Versions, MemOK
<1>2. NoEntry.val = None
  BY DEF NoEntry
<1> QED
  BY <1>1, <1>2 DEF Valued

(* The levels in use, and the heads of their files.                        *)
LEMMA QuietFiles ==
    ASSUME Written, Quiet
    PROVE  /\ totalLevel \in Int /\ totalLevel <= MaxLevel
           /\ \A l \in 0..totalLevel : l \in Level /\ l \in Nat
           /\ \A f \in files : f.level \in 0..totalLevel
<1>1. totalLevel \in -1..MaxLevel /\ MaxLevel \in Nat
  BY LevelsAssumption DEF Written, Cached, Fresh, Typed, TypeOK
<1>2. \A f \in files : f.level \in 0..totalLevel
  BY QuietLive DEF Written, Cached, DirsExact, Fresh, DirsOK
<1> QED
  BY <1>1, <1>2 DEF Level

(* A hit is the head of a file that has the key.                           *)
LEMMA HitsAreFiles ==
    ASSUME Written, Quiet, NEW k \in Key, NEW l \in 0..totalLevel, NEW i \in Hits(l, k)
    PROVE  \E f \in files : f.level = l /\ k \in Keys(f.data) /\ sstableIndex[l][i] = HeadOf(f)
<1>1. l \in Level /\ i \in DOMAIN sstableIndex[l] /\ k \in sstableIndex[l][i].keys
  BY QuietFiles DEF Hits
<1>2. PICK f \in files : f.level = l /\ sstableIndex[l][i] = HeadOf(f)
  BY <1>1, QuietHeads
<1> QED
  BY <1>1, <1>2 DEF HeadOf

(* In a level that no table hides the key from, get passes over no table   *)
(* that has it: the ones before it whose range holds the key have it too.  *)
LEMMA FilesAreHits ==
    ASSUME Written, LayersOK, Quiet, NEW k \in Key, NEW f \in files, k \in Keys(f.data),
           ~Hidden(files, f.level, k)
    PROVE  \E i \in Hits(f.level, k) : sstableIndex[f.level][i] = HeadOf(f)
<1> DEFINE l == f.level
<1>1. l \in Level /\ l \in Nat
  BY QuietFiles
<1>2. PICK i \in DOMAIN sstableIndex[l] : sstableIndex[l][i] = HeadOf(f)
  BY <1>1, QuietHeads
<1>3. \A g : HeadOf(g).keys = Keys(g.data)
  BY DEF HeadOf
<1>4. ASSUME l > 0, NEW j \in 1..(i - 1), InRange(sstableIndex[l][j], k)
      PROVE  k \in sstableIndex[l][j].keys
  <2>1. j \in DOMAIN sstableIndex[l]
    <3>1. sstableIndex[l] \in Seq(Table)
      BY <1>1 DEF Written, Cached, Fresh, Typed, TypeOK
    <3> HIDE DEF l
    <3> QED
      BY <1>2, <1>4, <3>1
  <2>2. PICK g \in files : g.level = l /\ sstableIndex[l][j] = HeadOf(g)
    BY <1>1, <2>1, QuietHeads
  <2>3. Within(Keys(g.data), k)
    BY <1>3, <1>4, <2>2 DEF InRange, Within
  <2> QED
    BY <1>3, <1>4, <2>2, <2>3, QuietLayers DEF Layers, NoHoles
<1> QED
  BY <1>2, <1>3, <1>4 DEF Hits

(* Some table that has the key is not below another one.                   *)
LEMMA ShallowestExists ==
    ASSUME Written, Quiet, NEW k, NEW f \in files, k \in Keys(f.data)
    PROVE  \E g \in files : g.level <= f.level /\ k \in Keys(g.data) /\ ~Hidden(files, g.level, k)
<1> DEFINE N == totalLevel
           S == {g \in files : k \in Keys(g.data)}
           T == {N - g.level : g \in S}
<1>1. N \in Int /\ f \in S /\ \A g \in S : g.level \in 0..N
  BY QuietFiles
<1>2. T \in SUBSET (0..N) /\ T # {} /\ T \in SUBSET Nat
  <2>1. \A l \in 0..N : N - l \in 0..N
    BY <1>1
  <2> QED
    BY <1>1, <2>1
<1>3. IsFiniteSet(T)
  <2>1. IsFiniteSet(0..N)
    BY <1>1, FS_Interval
  <2> QED
    BY <1>2, <2>1, FS_Subset
<1>4. PICK t \in T : \A n \in T : n <= t
  <2> HIDE DEF T
  <2> QED
    BY <1>2, <1>3, LargestExists
<1>5. PICK g \in S : t = N - g.level
  BY <1>4
<1>6. ASSUME NEW h \in S PROVE g.level <= h.level
  <2>1. N - h.level <= N - g.level
    BY <1>4, <1>5, <1>6
  <2>2. h.level \in 0..N /\ g.level \in 0..N
    BY <1>1, <1>6
  <2> HIDE DEF N, S
  <2> QED
    BY <1>1, <2>1, <2>2
<1>7. ~Hidden(files, g.level, k)
  <2>1. ASSUME NEW h \in files, h.level < g.level, k \in Keys(h.data) PROVE FALSE
    <3>1. h \in S
      BY <2>1
    <3>2. h.level \in 0..N /\ g.level \in 0..N /\ g.level <= h.level
      BY <1>1, <1>6, <3>1
    <3> HIDE DEF N, S
    <3> QED
      BY <1>1, <2>1, <3>2
  <2> QED
    BY <2>1 DEF Hidden
<1> QED
  BY <1>1, <1>6, <1>7

(* The first level with a hit exists if any does.                          *)
LEMMA FirstLevelExists ==
    ASSUME Written, NEW k \in Key, NEW m \in 0..totalLevel, Hits(m, k) # {}
    PROVE  /\ FirstLevelWith(k) \in 0..totalLevel
           /\ Hits(FirstLevelWith(k), k) # {}
           /\ \A l \in 0..(FirstLevelWith(k) - 1) : Hits(l, k) = {}
<1> DEFINE N == totalLevel
           S == {l \in 0..N : Hits(l, k) # {}}
           T == {N - l : l \in S}
<1>1. N \in Int /\ m \in S
  BY DEF Written, Cached, Fresh, Typed, TypeOK
<1>2. T \in SUBSET (0..N) /\ T # {} /\ T \in SUBSET Nat
  <2>1. \A l \in 0..N : N - l \in 0..N
    BY <1>1
  <2> QED
    BY <1>1, <2>1
<1>3. IsFiniteSet(T)
  <2>1. IsFiniteSet(0..N)
    BY <1>1, FS_Interval
  <2> QED
    BY <1>2, <2>1, FS_Subset
<1>4. PICK t \in T : \A n \in T : n <= t
  <2> HIDE DEF T
  <2> QED
    BY <1>2, <1>3, LargestExists
<1>5. PICK l \in S : t = N - l
  BY <1>4
<1>6. \A n \in S : N - n <= N - l
  BY <1>4, <1>5
<1>7. \A n \in 0..(l - 1) : Hits(n, k) = {}
  <2>1. ASSUME NEW n \in 0..(l - 1) PROVE n \in 0..N /\ ~(N - n <= N - l)
    <3>1. l \in 0..N /\ N \in Int /\ n \in Int /\ 0 <= n /\ n <= l - 1
      BY <1>1
    <3> HIDE DEF N, S
    <3> QED
      BY <3>1
  <2> QED
    BY <1>6, <2>1
<1>8. l \in 0..totalLevel /\ Hits(l, k) # {}
  BY <1>5
<1> QED
  BY <1>7, <1>8 DEF FirstLevelWith

LEMMA GetLatest ==
    ASSUME Written, LayersOK, TimeIsAge, Valued, Quiet, NEW k \in Key
    PROVE  Get(k) = Visible(latest[k])
<1>0. Cached /\ ShallowHasNewest(files)
  BY QuietLayers DEF Written, Layers
<1>1. CASE s[k] # NoEntry
  <2>1. GetEntry(k) = latest[k]
    BY <1>1, MemoryFirst DEF GetEntry
  <2> QED
    BY <2>1 DEF Get
<1>2. CASE s[k] = NoEntry /\ \A l \in 0..totalLevel : Hits(l, k) = {}
  <2>1. \A f \in files : k \notin Keys(f.data)
    <3>1. ASSUME NEW f \in files, k \in Keys(f.data) PROVE FALSE
      <4>1. PICK g \in files : k \in Keys(g.data) /\ ~Hidden(files, g.level, k)
        BY <3>1, ShallowestExists
      <4> QED
        BY <1>2, <4>1, FilesAreHits, QuietFiles
    <3> QED
      BY <3>1
  <2>2. GetEntry(k) = NoEntry /\ latest[k] = flushed[k]
    BY <1>2, MemoryFirst DEF GetEntry
  <2> QED
    BY <2>1, <2>2, NothingIsFlushed DEF Get, Visible
<1>3. CASE s[k] = NoEntry /\ ~\A l \in 0..totalLevel : Hits(l, k) = {}
  <2> DEFINE l   == FirstLevelWith(k)
             idx == sstableIndex[l]
             H   == {f \in files : f.level = l /\ k \in Keys(f.data)}
  <2>1. /\ l \in 0..totalLevel /\ l \in Nat /\ Hits(l, k) # {}
        /\ \A m \in 0..(l - 1) : Hits(m, k) = {}
    BY <1>3, FirstLevelExists, QuietFiles
  <2> HIDE DEF l
  <2>2. ~Hidden(files, l, k)
    <3>1. ASSUME NEW h \in files, h.level < l, k \in Keys(h.data) PROVE FALSE
      <4>1. PICK g \in files : /\ g.level <= h.level /\ k \in Keys(g.data)
                               /\ ~Hidden(files, g.level, k)
        BY <3>1, ShallowestExists
      <4>2. Hits(g.level, k) # {}
        BY <4>1, FilesAreHits
      <4>3. g.level \in Nat /\ h.level \in Nat
        BY <1>0, FileTypes
      <4> QED
        BY <2>1, <3>1, <4>1, <4>2, <4>3
    <3> QED
      BY <3>1 DEF Hidden
  <2>3. /\ \A f \in H : \E i \in Hits(l, k) : idx[i] = HeadOf(f)
        /\ \A i \in Hits(l, k) : \E f \in H : idx[i] = HeadOf(f)
    BY <2>1, <2>2, HitsAreFiles, FilesAreHits
  <2>4. PICK F \in H : \A g \in H : g.time <= F.time
    <3>1. IsFiniteSet(H) /\ H # {} /\ \A f \in H : f.time \in Nat
      BY <1>0, <2>1, <2>3, FS_Subset, FileTypes DEF Cached, Fresh, Typed
    <3> HIDE DEF H
    <3> QED
      BY <3>1, NewestExists
  <2>5. PICK i \in Hits(l, k) : idx[i] = HeadOf(F)
    BY <2>3
  <2>6. \A f : HeadOf(f).time = f.time
    BY DEF HeadOf
  <2>7. \A j \in Hits(l, k) : idx[j].time <= idx[i].time
    BY <2>3, <2>4, <2>5, <2>6
  <2>8. Found(k) \in Hits(l, k) /\ \A j \in Hits(l, k) : idx[j].time <= idx[Found(k)].time
    BY <2>5, <2>7 DEF Found, l
  <2>9. PICK G \in H : idx[Found(k)] = HeadOf(G)
    BY <2>3, <2>8
  <2>10. G \in files /\ G.level = l /\ k \in Keys(G.data) /\ \A g \in H : g.time <= G.time
    <3>1. \A g \in H : \E j \in Hits(l, k) : idx[j] = HeadOf(g)
      BY <2>3
    <3> QED
      BY <2>6, <2>8, <2>9, <3>1
  <2>11. \A g \in H : g.data[k].ver <= G.data[k].ver
    <3>1. H \in SUBSET files /\ Holders(H, k) = H /\ G \in H
      BY DEF Holders, Keys
    <3> HIDE DEF H
    <3> QED
      BY <1>0, <2>10, <3>1, NewestInput
  <2>12. ASSUME NEW g \in files, k \in Keys(g.data) PROVE g.data[k].ver <= G.data[k].ver
    <3>1. g.level \in Nat /\ g.data[k].ver \in Nat /\ G.data[k].ver \in Nat /\ ~(g.level < l)
      BY <1>0, <2>2, <2>10, <2>12, FileTypes DEF Hidden, Keys
    <3>2. CASE g.level = l
      BY <2>11, <2>12, <3>2
    <3>3. CASE l < g.level
      <4>1. PICK h \in files : /\ h.level <= l /\ k \in Keys(h.data)
                               /\ g.data[k].ver <= h.data[k].ver
        BY <1>0, <2>10, <2>12, <3>3 DEF ShallowHasNewest
      <4>2. h.level \in Nat /\ h.data[k].ver \in Nat /\ ~(h.level < l)
        BY <1>0, <2>2, <4>1, FileTypes DEF Hidden, Keys
      <4>3. h \in H
        BY <2>1, <4>1, <4>2
      <4> QED
        BY <2>11, <3>1, <4>1, <4>2, <4>3
    <3> QED
      BY <2>1, <3>1, <3>2, <3>3
  <2>13. G.data[k] = flushed[k]
    BY <2>10, <2>12, NewestIsFlushed
  <2>14. GetEntry(k) = Content(NameOf(idx[Found(k)]))[k]
    BY <1>3, MemoryFirst DEF GetEntry, l
  <2>15. Content(NameOf(idx[Found(k)])) = G.data
    <3>1. NameOf(HeadOf(G)) = NameOf(G)
      BY DEF NameOf, HeadOf
    <3> QED
      BY <1>0, <2>9, <2>10, <3>1, ContentOf DEF Cached
  <2>16. GetEntry(k) = latest[k]
    BY <1>3, <2>13, <2>14, <2>15, MemoryFirst
  <2> QED
    BY <2>16 DEF Get
<1> QED
  BY <1>1, <1>2, <1>3

(* scan sees, of each key in its range, the heads of all files that have   *)
(* the key.                                                                *)
LEMMA ScanLatest ==
    ASSUME Written, LayersOK, TimeIsAge, Valued, Quiet, NEW k1 \in Key, NEW k2 \in Key,
           NEW k \in Key \cap (k1..k2)
    PROVE  ScanResult(k1, k2)[k] = Visible(latest[k])
<1> DEFINE offers == {h \in Heads : k \in Scanned(h, k1, k2)}
           H      == {f \in files : k \in Keys(f.data)}
<1>1. k \in Key /\ k1 <= k /\ k <= k2
  BY KeysAssumption
<1>2. \A h : k \in Scanned(h, k1, k2) <=> k \in h.keys
  BY <1>1 DEF Scanned
<1>3. \A f \in H : HeadOf(f) \in offers
  <2>1. ASSUME NEW f \in H
        PROVE  \E l \in 0..totalLevel : \E i \in DOMAIN sstableIndex[l] : sstableIndex[l][i] = HeadOf(f)
    BY QuietFiles, QuietHeads
  <2>2. \A f : HeadOf(f).keys = Keys(f.data)
    BY DEF HeadOf
  <2> QED
    BY <1>2, <2>1, <2>2 DEF Heads
<1>4. \A h \in offers : \E f \in H : h = HeadOf(f)
  <2>1. ASSUME NEW h \in offers PROVE \E f \in H : h = HeadOf(f)
    <3>1. PICK l \in 0..totalLevel : \E i \in DOMAIN sstableIndex[l] : h = sstableIndex[l][i]
      BY DEF Heads
    <3>2. PICK f \in files : h = HeadOf(f)
      BY <3>1, QuietFiles, QuietHeads
    <3> QED
      BY <1>2, <3>2 DEF HeadOf
  <2> QED
    BY <2>1
<1> HIDE DEF offers
<1>5. ScanEntry(k, k1, k2) =
         IF s[k] # NoEntry THEN s[k]
         ELSE IF offers = {} THEN NoEntry
         ELSE Content(NameOf(CHOOSE h \in offers : \A g \in offers : g.time <= h.time))[k]
  BY <1>1 DEF ScanEntry, offers
<1>6. CASE s[k] # NoEntry
  <2>1. ScanEntry(k, k1, k2) = latest[k]
    BY <1>1, <1>5, <1>6, MemoryFirst
  <2> QED
    BY <1>1, <2>1 DEF ScanResult
<1>7. CASE s[k] = NoEntry /\ H = {}
  <2>1. ScanEntry(k, k1, k2) = NoEntry
    BY <1>4, <1>5, <1>7
  <2>2. Visible(latest[k]) = NoEntry
    BY <1>1, <1>7, MemoryFirst, NothingIsFlushed
  <2> QED
    BY <1>1, <2>1, <2>2 DEF ScanResult, Visible
<1>8. CASE s[k] = NoEntry /\ H # {}
  <2>1. PICK F \in H : \A g \in H : g.time <= F.time
    <3>1. IsFiniteSet(H) /\ \A f \in H : f.time \in Nat
      BY FS_Subset, FileTypes DEF Written, Cached, Fresh, Typed
    <3> HIDE DEF H
    <3> QED
      BY <1>8, <3>1, NewestExists
  <2>2. \A f : HeadOf(f).time = f.time
    BY DEF HeadOf
  <2>3. HeadOf(F) \in offers /\ \A g \in offers : g.time <= HeadOf(F).time
    BY <1>3, <1>4, <2>1, <2>2
  <2> DEFINE h == CHOOSE h \in offers : \A g \in offers : g.time <= h.time
  <2>4. h \in offers /\ \A g \in offers : g.time <= h.time
    BY <2>3
  <2>5. ScanEntry(k, k1, k2) = Content(NameOf(h))[k]
    BY <1>5, <1>8, <2>3
  <2> HIDE DEF h
  <2>6. PICK G \in H : h = HeadOf(G)
    BY <1>4, <2>4
  <2>7. \A g \in H : g.time <= G.time
    BY <1>3, <2>2, <2>4, <2>6
  <2>8. G.data[k] = flushed[k]
    <3>1. H \in SUBSET files /\ Holders(H, k) = H /\ Cached
      BY <1>1 DEF Holders, Keys, Written
    <3>2. \A g \in H : g.data[k].ver <= G.data[k].ver
      <4> HIDE DEF H
      <4> QED
        BY <1>1, <2>7, <3>1, NewestInput
    <3> QED
      BY <1>1, <3>2, NewestIsFlushed
  <2>9. Content(NameOf(h)) = G.data
    <3>1. NameOf(HeadOf(G)) = NameOf(G)
      BY DEF NameOf, HeadOf
    <3> QED
      BY <2>6, <3>1, ContentOf DEF Written, Cached
  <2>10. ScanEntry(k, k1, k2) = latest[k]
    BY <1>1, <1>8, <2>5, <2>8, <2>9, MemoryFirst
  <2> QED
    BY <1>1, <2>10 DEF ScanResult
<1> QED
  BY <1>6, <1>7, <1>8

---------------------------------------------------------------------------
(* While there are only two levels, the timestamps order the versions.     *)

TwoLevels == dirs \subseteq {0, 1}

(* A merge into level 1 has the newest versions of its keys: all tables of *)
(* level 0 take part in it, and all of level 1 that share a key.           *)
InOrder ==
    /\ TimeIsAge
    /\ pc = "write" => \A f \in files : \A k \in Keys(f.data) \cap Keys(job.rest) :
                           f.data[k].ver <= job.rest[k].ver

(* No file is new, and what is to be written, if anything, was before.     *)
LEMMA InOrderStill ==
    ASSUME InOrder, files' \subseteq files,
           pc' = "write" => pc = "write" /\ UNCHANGED job
    PROVE  InOrder'
<1>1. TimeIsAge'
  BY DEF InOrder, TimeIsAge, Keys
<1>2. ASSUME pc' = "write", NEW f \in files', NEW k \in Keys(f.data) \cap Keys(job.rest)
      PROVE  f.data[k].ver <= job.rest[k].ver
  BY <1>2 DEF InOrder
<1> QED
  BY <1>1, <1>2 DEF InOrder, Keys

(* A new file has the largest time, and versions as new as any.            *)
LEMMA InOrderNew ==
    ASSUME TimeIsAge, \A g \in files : g.time \in Nat,
           NEW f, f.time \in Nat, files' = files \cup {f}, \A g \in files : g.time < f.time,
           \A g \in files : \A k \in Keys(g.data) \cap Keys(f.data) : g.data[k].ver <= f.data[k].ver
    PROVE  TimeIsAge'
<1>1. \A g \in files : ~(f.time < g.time)
  OBVIOUS
<1>2. ~(f.time < f.time)
  OBVIOUS
<1>3. \A g, h \in files' : \A k \in Keys(g.data) \cap Keys(h.data) :
         g.time < h.time => g.data[k].ver <= h.data[k].ver
  BY <1>1, <1>2 DEF TimeIsAge
<1> QED
  BY <1>3 DEF TimeIsAge, Keys

LEMMA InOrderStart ==
    ASSUME Cached, MergeOK, LayersOK, ~Closing, InOrder, CompactStart, TwoLevels'
    PROVE  InOrder'
<1>1. PICK sel, met : Starts(sel, met)
  BY StartFiles
<1> DEFINE H == sel \cup met
           j == job.level
<1>2. /\ pc = "compact" /\ j \in Nat
      /\ dirs' = dirs \cup {j + 1} /\ files' = files /\ H \subseteq files
      /\ \A f \in met : f \in files /\ f.level = j + 1
  BY <1>1, StartFacts
<1>3. j = 0
  <2>1. j + 1 \in {0, 1}
    BY <1>2 DEF TwoLevels
  <2> HIDE DEF j
  <2> QED
    BY <1>2, <2>1
<1>4. \A f \in files : f.level = 0 => f \in sel
  <2>1. ASSUME NEW f \in files \ sel, f.level = 0 PROVE FALSE
    <3>1. HeadOf(f) \in HeadsIn(files, 0)
      BY <2>1 DEF HeadsIn
    <3>2. 0 \in Level /\ Up
      BY <1>2, LevelsAssumption DEF Level, Up
    <3>3. HeadOf(f) \in ToSet(sstableIndex[0])
      BY <1>2, <3>1, <3>2, CachedUp
    <3> QED
      BY <1>1, <1>3, <2>1, <3>3 DEF Starts
  <2> QED
    BY <2>1
<1>5. SameVersion(files)
  BY <1>2, LayersAll DEF Layers
<1>6. ASSUME NEW f \in files, NEW k \in Keys(f.data) \cap Keys(job'.rest)
      PROVE  f.data[k].ver <= job'.rest[k].ver
  <2>1. PICK F \in Holders(H, k) :
           /\ \A g \in Holders(H, k) : g.time <= F.time
           /\ job'.rest[k] = F.data[k]
    BY <1>1, RestFrom
  <2>2. F \in H /\ F \in files /\ k \in Keys(F.data) /\ k \in Key /\ F.data[k].ver \in Nat
    BY <1>2, <2>1, FileTypes DEF Holders, Keys
  <2>3. CASE f \in H
    <3>1. f.time <= F.time
      BY <2>1, <2>3 DEF Holders, Keys
    <3>2. f.time \in Nat /\ F.time \in Nat
      BY <2>2, FileTypes
    <3>3. CASE f.time < F.time
      BY <2>1, <2>2, <3>3 DEF InOrder, TimeIsAge
    <3>4. CASE f.time = F.time
      BY <2>1, <2>2, <3>4 DEF Cached, TimesDiffer
    <3> QED
      BY <3>1, <3>2, <3>3, <3>4
  <2>4. CASE f \notin H /\ f.level = 1
    <3>1. Apart(Keys(f.data), KeysOf(sel))
      BY <1>1, <1>3, <2>4 DEF Starts
    <3>2. Keys(f.data) \in SUBSET Key /\ KeysOf(sel) \in SUBSET Key
      BY DEF KeysOf, Keys
    <3>3. k \notin KeysOf(sel)
      BY <1>6, <3>1, <3>2, ApartNoKey
    <3>4. ~Hidden(files, 1, k)
      <4>1. ASSUME NEW h \in files, h.level < 1, k \in Keys(h.data) PROVE FALSE
        <5>1. h \in sel
          BY <1>4, <4>1, FileTypes
        <5> QED
          BY <3>3, <4>1, <5>1 DEF KeysOf
      <4> QED
        BY <4>1 DEF Hidden
    <3>5. F \in met /\ F.level = 1
      BY <1>2, <1>3, <2>2, <3>3 DEF KeysOf
    <3>6. F.data[k] = f.data[k]
      BY <1>5, <1>6, <2>2, <2>4, <3>4, <3>5 DEF SameVersion
    <3> QED
      BY <2>1, <2>2, <3>6
  <2>5. f.level \in {0, 1}
    BY <1>2 DEF TwoLevels, Cached, Fresh, DirsOK
  <2> QED
    BY <1>4, <2>3, <2>4, <2>5
<1>7. TimeIsAge'
  BY <1>2 DEF InOrder, TimeIsAge, Keys
<1> QED
  BY <1>2, <1>6, <1>7 DEF InOrder, Keys

LEMMA InOrderOutput ==
    ASSUME Cached, MergeOK, InOrder, WriteOutput
    PROVE  InOrder'
<1>1. PICK f \in File :
         /\ pc = "write" /\ files' = files \cup {f} /\ \A g \in files : g.time < f.time
         /\ Keys(f.data) = Fitting(job.rest)
         /\ Keys(job'.rest) = Keys(job.rest) \ Fitting(job.rest)
         /\ \A k \in Keys(f.data) : f.data[k] = job.rest[k]
         /\ \A k \in Keys(job'.rest) : job'.rest[k] = job.rest[k]
  BY OutputFacts
<1>2. Keys(f.data) \subseteq Keys(job.rest)
  BY <1>1, FileTypes, FittingFirst
<1>3. TimeIsAge'
  <2>1. \A g \in files : \A k \in Keys(g.data) \cap Keys(f.data) : g.data[k].ver <= f.data[k].ver
    BY <1>1, <1>2 DEF InOrder
  <2>2. f.time \in Nat /\ \A g \in files : g.time \in Nat
    BY FileTypes DEF File
  <2> QED
    BY <1>1, <2>1, <2>2, InOrderNew DEF InOrder
<1>4. ASSUME NEW g \in files', NEW k \in Keys(g.data) \cap Keys(job'.rest)
      PROVE  g.data[k].ver <= job'.rest[k].ver
  BY <1>1, <1>4 DEF InOrder
<1> QED
  BY <1>3, <1>4 DEF InOrder, Keys

LEMMA InOrderFlush ==
    ASSUME Cached, Versions, InOrder, pc = "idle", pc' = "compact", NEW f \in File, f.data = s,
           f.time = TIME + 1, files' = WriteFile(f)
    PROVE  InOrder'
<1>1. \A g \in files : g.time < f.time /\ NameOf(g) # NameOf(f)
  <2>1. TIME \in Nat /\ \A g \in files : g.time \in Nat /\ g.time <= TIME
    BY FileTypes DEF Cached, Fresh, NamesAreFresh, Up, Typed, TypeOK
  <2>2. \A g \in files : g.time < f.time /\ g.time # f.time
    BY <2>1
  <2> QED
    BY <2>2 DEF NameOf
<1>2. files' = files \cup {f}
  BY <1>1 DEF WriteFile
<1>3. ASSUME NEW g \in files, NEW k \in Keys(g.data) \cap Keys(f.data)
      PROVE  g.data[k].ver <= f.data[k].ver
  <2>1. k \in Key /\ s[k] # NoEntry
    BY DEF Keys
  <2>2. s[k] = latest[k]
    BY <2>1 DEF Versions, MemOK
  <2>3. g.data[k].ver <= flushed[k].ver /\ flushed[k].ver <= latest[k].ver
    BY <2>1 DEF Versions, MemOK, FilesOld, NotNewer
  <2>4. g.data[k].ver \in Nat /\ flushed[k].ver \in Nat /\ latest[k].ver \in Nat
    BY <2>1, FileTypes DEF Cached, Fresh, Typed, TypeOK
  <2> QED
    BY <2>2, <2>3, <2>4
<1>4. TimeIsAge'
  <2>1. f.time \in Nat /\ \A g \in files : g.time \in Nat
    BY FileTypes DEF File
  <2> QED
    BY <1>1, <1>2, <1>3, <2>1, InOrderNew DEF InOrder
<1> QED
  BY <1>4 DEF InOrder

LEMMA InOrderNext ==
    ASSUME Written, Written', ~Closing, TwoLevels => InOrder /\ LayersOK, "close" \notin Ops,
           [Next]_vars, TwoLevels'
    PROVE  InOrder'
<1>0. Cached /\ MergeOK /\ Versions
  BY DEF Written
<1>1. CASE CompactNothing \/ CompactEnd \/ FinishPut \/ FinishClose \/ Crash
           \/ OpenStart \/ OpenLevel \/ OpenDone \/ Reset \/ ResetFile \/ ResetDone \/ DeleteInput
  <2>1. files' \subseteq files /\ pc' # "write" /\ UNCHANGED dirs
    BY <1>1 DEF CompactNothing, CompactEnd, FinishPut, FinishClose, Crash, Forget,
       OpenStart, OpenLevel, OpenDone, Reset, ResetFile, ResetDone, DeleteInput, delsstable, disk
  <2> QED
    BY <2>1, InOrderStill DEF TwoLevels
<1>2. CASE ResetDir
  <2>1. files' = files /\ dirs' = dirs \ {job.level} /\ pc = "reset" /\ pc' = "reset"
    BY <1>2 DEF ResetDir
  <2>2. CASE TwoLevels
    BY <2>1, <2>2, InOrderStill
  <2>3. CASE ~TwoLevels
    <3> DEFINE j == job.level
    <3>1. j \notin {0, 1} /\ j \in Nat /\ \A l \in dirs : j <= l
      BY <1>0, <2>1, <2>3, FileTypes DEF TwoLevels, Cached, Fresh, DirsOK
    <3> HIDE DEF j
    <3>2. dirs' = {}
      <4>1. \A l \in dirs' : l \in dirs /\ l \in {0, 1}
        BY <2>1 DEF TwoLevels
      <4> QED
        BY <3>1, <4>1
    <3>3. files' = {}
      BY <3>2 DEF Written, Cached, Fresh, DirsOK
    <3> QED
      BY <2>1, <3>3 DEF InOrder, TimeIsAge
  <2> QED
    BY <2>2, <2>3
<1>3. CASE CompactStart
  <2>1. TwoLevels
    BY <1>3 DEF CompactStart, TwoLevels
  <2> QED
    BY <1>0, <1>3, <2>1, InOrderStart
<1>4. CASE WriteOutput
  <2>1. TwoLevels
    BY <1>4 DEF WriteOutput, TwoLevels
  <2> QED
    BY <1>0, <1>4, <2>1, InOrderOutput
<1>5. ASSUME NEW k \in Key, NEW v, Store(k, v) PROVE InOrder'
  <2>1. CASE PutInMemory(k, v)
    <3>1. UNCHANGED <<files, dirs, pc>> /\ pc = "idle"
      BY <1>5, <2>1 DEF PutInMemory, Store, disk
    <3> QED
      BY <3>1, InOrderStill DEF TwoLevels
  <2>2. CASE PutAndFlush(k, v)
    <3> DEFINE f == [level |-> 0, time |-> TIME + 1, data |-> s]
    <3>1. /\ pc = "idle" /\ pc' = "compact" /\ files' = WriteFile(f) /\ dirs' = dirs \cup {0}
      BY <1>5, <2>2 DEF PutAndFlush, Store
    <3>2. f \in File /\ f.time = TIME + 1 /\ f.data = s
      BY <1>0, LevelsAssumption DEF File, Cached, Fresh, Typed, TypeOK, Level
    <3>3. TwoLevels
      BY <3>1 DEF TwoLevels
    <3> HIDE DEF f
    <3> QED
      BY <1>0, <3>1, <3>2, <3>3, InOrderFlush
  <2> QED
    BY <1>5, <2>1, <2>2 DEF Store
<1>6. CASE UNCHANGED vars
  <2>1. UNCHANGED <<files, dirs, pc, job>>
    BY <1>6 DEF vars, disk
  <2> QED
    BY <2>1, InOrderStill DEF TwoLevels
<1>7. CASE Continue
  BY <1>1, <1>2, <1>3, <1>4, <1>7 DEF Continue
<1>8. CASE Call
  BY <1>1, <1>5, <1>8 DEF Call, Del, Put, CloseEmpty, Close
<1> QED
  BY <1>1, <1>6, <1>7, <1>8 DEF Next

(* Without the destructor only a put that flushed compacts.                *)
LEMMA ClosingNext ==
    ASSUME ~Closing, "close" \notin Ops, [Next]_vars
    PROVE  ~Closing'
<1>1. CASE Continue
  BY <1>1 DEF Continue, CompactNothing, CompactStart, WriteOutput, DeleteInput, CompactEnd,
     FinishPut, FinishClose, ResetFile, ResetDir, ResetDone, OpenLevel, OpenDone, Forget, Closing
<1>2. ASSUME NEW k, NEW v, Store(k, v) PROVE ~Closing'
  <2>1. CASE PutInMemory(k, v)
    BY <1>2, <2>1 DEF PutInMemory, Store, Closing
  <2>2. CASE PutAndFlush(k, v)
    BY <2>2 DEF PutAndFlush, Closing
  <2> QED
    BY <1>2, <2>1, <2>2 DEF Store
<1>3. CASE Call
  BY <1>2, <1>3 DEF Call, Del, Put, Reset, CloseEmpty, Close, Closing
<1> QED
  BY <1>1, <1>3 DEF Next, OpenStart, Crash, Forget, Closing, vars, store

---------------------------------------------------------------------------
(* No value is empty, and a marker is written for a key that has a value.  *)

MarkerPending ==
    pending # <<>> /\ pending[1].val = DEL => Visible(latest[pending[1].key]) # NoEntry

LEMMA ValuedNext ==
    ASSUME Valued, TypeOK, None \notin Value, [Next]_vars
    PROVE  Valued'
<1>0. latest \in Data /\ flushed \in Data /\ NoData \in Data /\ DEL # None
  BY NoDataType DEF TypeOK, DEL, None
<1>1. ASSUME NEW k, NEW v, v # None, Insert(k, v), UNCHANGED flushed, pending' \in {pending, <<>>}
      PROVE  Valued'
  <2>1. \A x \in Key : latest'[x] \in {latest[x], [ver |-> clock + 1, val |-> v]}
    BY <1>0, <1>1 DEF Insert, NewEntry, Data
  <2>2. \A x \in Key : latest'[x] # NoEntry => latest'[x].val # None
    BY <1>1, <2>1 DEF Valued
  <2> QED
    BY <1>1, <2>2 DEF Valued
<1>2. ASSUME NEW k, NEW v, v # None, Store(k, v) PROVE Valued'
  <2>1. CASE PutInMemory(k, v)
    BY <1>1, <1>2, <2>1 DEF PutInMemory
  <2>2. CASE PutAndFlush(k, v)
    <3>1. UNCHANGED latest /\ flushed' = latest /\ pending' = <<[key |-> k, val |-> v]>>
      BY <2>2 DEF PutAndFlush
    <3>2. pending'[1].val = v
      BY <3>1
    <3> QED
      BY <1>2, <3>1, <3>2 DEF Valued
  <2> QED
    BY <1>2, <2>1, <2>2 DEF Store
<1>3. CASE FinishPut
  BY <1>1, <1>3 DEF FinishPut, Valued
<1>4. CASE Reset
  BY <1>4 DEF Reset, Valued, NoData
<1>5. CASE Close \/ CloseEmpty \/ FinishClose \/ Crash
  <2>1. /\ latest' \in {latest, flushed} /\ flushed' \in {flushed, latest}
        /\ pending' \in {pending, <<>>}
    BY <1>5 DEF Close, CloseEmpty, FinishClose, Crash, Forget
  <2> QED
    BY <2>1 DEF Valued
<1>6. CASE UNCHANGED <<latest, flushed, pending>>
  BY <1>6 DEF Valued
<1>7. CASE Continue
  BY <1>3, <1>5, <1>6, <1>7 DEF Continue, CompactNothing, CompactStart, WriteOutput, DeleteInput,
     CompactEnd, ResetFile, ResetDir, ResetDone, OpenLevel, OpenDone, ghost
<1>8. CASE Call
  BY <1>0, <1>2, <1>4, <1>5, <1>8 DEF Call, Del, Put
<1> QED
  BY <1>5, <1>6, <1>7, <1>8 DEF Next, OpenStart, vars, ghost

LEMMA MarkerNext ==
    ASSUME MarkerPending, PendingOK', GetReturnsLatest, [Next]_vars
    PROVE  MarkerPending'
<1>1. CASE pc' = "idle"
  BY <1>1 DEF PendingOK, MarkerPending
<1>2. ASSUME NEW k \in Key, Del(k), PutAndFlush(k, DEL) PROVE MarkerPending'
  <2>1. Visible(latest[k]) # NoEntry
    BY <1>2 DEF Del, Store, GetReturnsLatest, Quiet
  <2>2. pending' = <<[key |-> k, val |-> DEL]>> /\ UNCHANGED latest
    BY <1>2 DEF PutAndFlush
  <2>3. pending'[1].key = k
    BY <2>2
  <2> QED
    BY <2>1, <2>2, <2>3 DEF MarkerPending, Visible
<1>3. ASSUME NEW k \in Key, NEW v \in Value, PutAndFlush(k, v) PROVE MarkerPending'
  <2>1. pending' = <<[key |-> k, val |-> v]>> /\ v # DEL
    BY <1>3, ValuesAssumption DEF PutAndFlush
  <2> QED
    BY <2>1 DEF MarkerPending
<1>4. CASE UNCHANGED <<latest, pending>>
  BY <1>4 DEF MarkerPending, Visible
<1>5. CASE pending' = <<>>
  BY <1>5 DEF MarkerPending
<1>6. CASE Continue
  BY <1>4, <1>5, <1>6 DEF Continue, CompactNothing, CompactStart, WriteOutput, DeleteInput,
     CompactEnd, FinishPut, FinishClose, Forget, ResetFile, ResetDir, ResetDone, OpenLevel,
     OpenDone, ghost
<1>7. CASE Call
  <2>1. CASE Reset \/ CloseEmpty \/ Close
    <3>1. CASE Reset
      BY <1>5, <3>1 DEF Reset, PendingOK
    <3> QED
      BY <1>4, <1>5, <2>1, <3>1 DEF CloseEmpty, Close, Forget
  <2>2. ASSUME NEW k \in Key, NEW v, PutInMemory(k, v), Store(k, v) PROVE MarkerPending'
    BY <1>1, <2>2 DEF PutInMemory, Store
  <2>3. ASSUME NEW k \in Key, Del(k) PROVE MarkerPending'
    BY <1>2, <2>2, <2>3 DEF Del, Store
  <2>4. ASSUME NEW k \in Key, NEW v \in Value, Put(k, v) PROVE MarkerPending'
    BY <1>3, <2>2, <2>4 DEF Put, Store
  <2> QED
    BY <1>7, <2>1, <2>3, <2>4 DEF Call
<1> QED
  BY <1>4, <1>5, <1>6, <1>7 DEF Next, OpenStart, Crash, Forget, vars, ghost

---------------------------------------------------------------------------
(* The theorems about reads.                                               *)

(* All but what the timestamps say.                                        *)
Reading == Written /\ ForgottenFirst /\ Valued

LEMMA ReadingAlways ==
    ASSUME "reset" \notin CrashPoints, None \notin Value
    PROVE  Spec => []Reading
<1>1. Init => ForgottenFirst /\ Valued
  BY DEF Init, ForgottenFirst, Valued, NoData
<1>2. Written /\ ForgottenFirst /\ Valued /\ [Next]_vars => (ForgottenFirst /\ Valued)'
  BY ForgottenNext, ValuedNext DEF Written, Cached, Fresh, Typed
<1> QED
  BY <1>1, <1>2, WrittenAlways, PTL DEF Spec, Reading

(* As long as timestamps order versions, get finds the last write of every *)
(* key: no other part of the store, not the order of the levels, the early *)
(* exit from a level or the dropping of markers, can make it miss one.     *)
THEOREM GetIsLatest ==
    ASSUME CrashPoints \cap {"delete", "reset"} = {}, None \notin Value
    PROVE  Spec /\ []TimeIsAge => []GetReturnsLatest
<1>1. Reading /\ LayersOK /\ TimeIsAge => GetReturnsLatest
  BY GetLatest DEF Reading, GetReturnsLatest
<1>2. Spec => []Reading
  BY ReadingAlways
<1> QED
  BY <1>1, <1>2, LayersAlways, PTL

(* The same for scan, which looks at the timestamps of all levels at once. *)
THEOREM ScanIsLatest ==
    ASSUME CrashPoints \cap {"delete", "reset"} = {}, None \notin Value
    PROVE  Spec /\ []TimeIsAge => []ScanFindsLatest
<1>1. Reading /\ LayersOK /\ TimeIsAge => ScanFindsLatest
  BY ScanLatest DEF Reading, ScanFindsLatest
<1>2. Spec => []Reading
  BY ReadingAlways
<1> QED
  BY <1>1, <1>2, LayersAlways, PTL

(* A store gets back to two levels through reset only.                     *)
LEMMA TwoLevelsAgain ==
    ASSUME [Next]_vars, ~TwoLevels, TwoLevels'
    PROVE  LayersOK'
<1>1. CASE ResetDir
  BY <1>1 DEF ResetDir, LayersOK
<1>2. CASE dirs \subseteq dirs'
  BY <1>2 DEF TwoLevels
<1>3. CASE Continue
  BY <1>1, <1>2, <1>3 DEF Continue, CompactNothing, CompactStart, WriteOutput, DeleteInput,
     CompactEnd, FinishPut, FinishClose, ResetFile, ResetDone, OpenLevel, OpenDone, disk
<1>4. CASE Call
  BY <1>2, <1>4 DEF Call, Del, Put, Store, PutInMemory, PutAndFlush, Reset, CloseEmpty, Close, disk
<1> QED
  BY <1>2, <1>3, <1>4 DEF Next, OpenStart, Crash, vars, disk

(* Timestamps do order the versions while there is no level below level 1, *)
(* if the store is never closed: a merge into level 1 takes every file     *)
(* that has a version of its keys, so its new timestamp is no lie.         *)
LEMMA InOrderAlways ==
    ASSUME CrashPoints \cap {"delete", "reset"} = {}, "close" \notin Ops
    PROVE  Spec => [](TwoLevels => InOrder /\ LayersOK)
<1>1. Init => ~Closing /\ InOrder /\ LayersOK /\ ForgottenFirst
  BY LayersInit DEF Init, Closing, InOrder, TimeIsAge
<1>2. /\ Written /\ Written' /\ ForgottenFirst /\ (TwoLevels => InOrder /\ LayersOK) /\ [Next]_vars
      => (TwoLevels => LayersOK)'
  BY LayersNext, TwoLevelsAgain DEF InOrder
<1>3. /\ Written /\ Written' /\ ~Closing /\ (TwoLevels => InOrder /\ LayersOK) /\ [Next]_vars
      => ~Closing' /\ (TwoLevels => InOrder)'
  BY ClosingNext, InOrderNext
<1>4. ForgottenFirst /\ [Next]_vars => ForgottenFirst'
  BY ForgottenNext
<1>5. Spec => []Written
  BY WrittenAlways
<1> QED
  BY <1>1, <1>2, <1>3, <1>4, <1>5, PTL DEF Spec

(* While nothing was merged below level 1 and no destructor has run,       *)
(* timestamps follow the age of versions: a merge into level 1 takes every *)
(* file with a version of one of its keys (kvstore.cc:455-494, 521).       *)
THEOREM TimeIsAgeOfTwoLevels ==
    ASSUME CrashPoints \cap {"delete", "reset"} = {}, "close" \notin Ops
    PROVE  Spec => [](TwoLevels => TimeIsAge)
<1>1. (TwoLevels => InOrder /\ LayersOK) => (TwoLevels => TimeIsAge)
  BY DEF InOrder
<1> QED
  BY <1>1, InOrderAlways, PTL

(* The flushed values are in the files or in what a merge has to write,    *)
(* and that comes from files that are still there.                         *)
LEMMA LayersOnDisk ==
    ASSUME Written, ForgottenFirst, LayersOK
    PROVE  FlushedIsOnDisk
<1>1. ASSUME NEW k \in Key, Visible(flushed[k]) # NoEntry
      PROVE  \E f \in files : f.data[k] = flushed[k]
  <2>1. flushed[k] # NoEntry /\ flushed[k].val # DEL /\ pc # "reset"
    BY <1>1, VisibleIsValue DEF ForgottenFirst, NoData
  <2>2. PICK f \in Live \cup Rest : f.data[k] = flushed[k]
    BY <2>1 DEF LayersOK, Layers, KeptIn
  <2>3. CASE f \in Live
    BY <2>2, <2>3 DEF Live
  <2>4. CASE f \in Rest
    <3>1. pc = "write" /\ job.rest[k] = flushed[k]
      BY <2>2, <2>4 DEF Rest
    <3> QED
      BY <2>1, <3>1 DEF Written, MergeOK, Keys
  <2> QED
    BY <2>2, <2>3, <2>4
<1> QED
  BY <1>1 DEF FlushedIsOnDisk

(* Whenever there is no level below level 1, all reads are right, whatever *)
(* the store went through before.                                          *)
THEOREM ReadsOfTwoLevels ==
    ASSUME CrashPoints \cap {"delete", "reset"} = {}, None \notin Value,
           "close" \notin Ops
    PROVE  Spec => [](TwoLevels => GetReturnsLatest /\ ScanFindsLatest /\ FlushedIsOnDisk)
<1>1. /\ Reading /\ (TwoLevels => InOrder /\ LayersOK)
      => (TwoLevels => GetReturnsLatest /\ ScanFindsLatest /\ FlushedIsOnDisk)
  BY GetLatest, ScanLatest, LayersOnDisk
  DEF Reading, InOrder, GetReturnsLatest, ScanFindsLatest
<1>2. Spec => []Reading
  BY ReadingAlways
<1> QED
  BY <1>1, <1>2, InOrderAlways, PTL

---------------------------------------------------------------------------
(* The store implements the dictionary.                                    *)

Shown == [k \in Key |-> Visible(latest[k]).ver]
Saved == [k \in Key |-> Visible(flushed[k]).ver]

LEMMA ShownInsert ==
    ASSUME latest \in Data, clock \in Nat, NEW k \in Key, NEW v, v # None, Insert(k, v)
    PROVE  Shown' = [Shown EXCEPT ![k] = IF v = DEL THEN 0 ELSE clock + 1]
<1> DEFINE e == [ver |-> clock + 1, val |-> v]
<1>1. latest' = [latest EXCEPT ![k] = e]
  BY DEF Insert, NewEntry
<1>2. Visible(e).ver = IF v = DEL THEN 0 ELSE clock + 1
  BY DEF Visible, NoEntry
<1> HIDE DEF e
<1>3. \A x \in Key : latest'[x] = IF x = k THEN e ELSE latest[x]
  BY <1>1 DEF Data
<1>4. \A x \in Key : Visible(latest'[x]).ver = IF x = k THEN Visible(e).ver ELSE Visible(latest[x]).ver
  BY <1>3
<1>5. Shown' = [x \in Key |-> Visible(latest'[x]).ver]
  BY DEF Shown, Visible
<1> QED
  BY <1>2, <1>4, <1>5 DEF Shown

(* What the dictionary shows is what was written last.                     *)
LEMMA DictShown ==
    ASSUME GetReturnsLatest
    PROVE  [k \in Key |-> IF Quiet THEN Get(k).ver ELSE Visible(latest[k]).ver] = Shown
  BY DEF GetReturnsLatest, Shown

LEMMA ShownStep ==
    ASSUME Reading, MarkerPending, GetReturnsLatest, None \notin Value, [Next]_vars
    PROVE  \/ \E k \in Key : /\ clock' = clock + 1 /\ Saved' = Saved
                             /\ \/ Shown' = [Shown EXCEPT ![k] = clock + 1]
                                \/ Shown[k] # 0 /\ Shown' = [Shown EXCEPT ![k] = 0]
           \/ /\ Shown' = [k \in Key |-> 0] /\ Saved' = [k \in Key |-> 0] /\ clock' = clock
           \/ Saved' = Shown /\ Shown' = Shown /\ clock' = clock
           \/ Shown' = Saved /\ Saved' = Saved /\ clock' = clock
           \/ Shown' = Shown /\ Saved' = Saved /\ clock' = clock
<1>0. latest \in Data /\ clock \in Nat /\ DEL # None
  BY DEF Reading, Written, Cached, Fresh, Typed, TypeOK, DEL, None
<1>1. ASSUME NEW k \in Key, NEW v \in Value \cup {DEL}, Insert(k, v), UNCHANGED flushed,
             v = DEL => Visible(latest[k]) # NoEntry
      PROVE  /\ clock' = clock + 1 /\ Saved' = Saved
             /\ \/ Shown' = [Shown EXCEPT ![k] = clock + 1]
                \/ Shown[k] # 0 /\ Shown' = [Shown EXCEPT ![k] = 0]
  <2>1. Shown' = [Shown EXCEPT ![k] = IF v = DEL THEN 0 ELSE clock + 1]
    BY <1>0, <1>1, ShownInsert
  <2>2. Saved' = Saved /\ clock' = clock + 1
    BY <1>1 DEF Saved, Visible, Insert
  <2>3. Visible(latest[k]) # NoEntry => Shown[k] # 0
    <3>1. latest[k] # NoEntry => latest[k].ver \in 1..clock
      BY DEF Reading, Written, Versions, MemOK
    <3>2. Visible(latest[k]) # NoEntry => latest[k] # NoEntry /\ Visible(latest[k]) = latest[k]
      BY DEF Visible
    <3> QED
      BY <1>0, <3>1, <3>2 DEF Shown
  <2> QED
    BY <1>1, <2>1, <2>2, <2>3
<1>2. CASE Saved' = Saved /\ Shown' = Shown /\ clock' = clock
  BY <1>2
<1>3. CASE UNCHANGED <<latest, flushed, clock>>
  BY <1>3 DEF Shown, Saved, Visible
<1>4. CASE flushed' = latest /\ UNCHANGED <<latest, clock>>
  BY <1>4 DEF Shown, Saved, Visible
<1>5. CASE latest' = flushed /\ UNCHANGED <<flushed, clock>>
  BY <1>5 DEF Shown, Saved, Visible
<1>6. CASE Reset
  <2>1. latest' = NoData /\ flushed' = NoData /\ clock' = clock
    BY <1>6 DEF Reset
  <2>2. \A k \in Key : Visible(NoData[k]).ver = 0
    BY DEF NoData, Visible, NoEntry
  <2>3. Shown' = [k \in Key |-> 0] /\ Saved' = [k \in Key |-> 0]
    BY <2>1, <2>2 DEF Shown, Saved, Visible
  <2> QED
    BY <2>1, <2>3
<1>7. CASE FinishPut
  <2> DEFINE R == [key : Key, val : Value \cup {DEL}]
  <2>1. /\ pending \in Seq(R) /\ pending # <<>>
        /\ Insert(pending[1].key, pending[1].val) /\ UNCHANGED flushed
    BY <1>7 DEF FinishPut, Reading, Written, Cached, Fresh, Typed, TypeOK
  <2>2. pending[1].key \in Key /\ pending[1].val \in Value \cup {DEL}
    <3> HIDE DEF R
    <3>1. pending[1] \in R
      BY <2>1
    <3> QED
      BY <3>1 DEF R
  <2> QED
    BY <1>1, <2>1, <2>2 DEF MarkerPending
<1>8. ASSUME NEW k \in Key, NEW v \in Value, Put(k, v), PutInMemory(k, v)
      PROVE  /\ clock' = clock + 1 /\ Saved' = Saved
             /\ \/ Shown' = [Shown EXCEPT ![k] = clock + 1]
                \/ Shown[k] # 0 /\ Shown' = [Shown EXCEPT ![k] = 0]
  BY <1>1, <1>8, ValuesAssumption DEF PutInMemory
<1>9. ASSUME NEW k \in Key, Del(k), PutInMemory(k, DEL)
      PROVE  /\ clock' = clock + 1 /\ Saved' = Saved
             /\ \/ Shown' = [Shown EXCEPT ![k] = clock + 1]
                \/ Shown[k] # 0 /\ Shown' = [Shown EXCEPT ![k] = 0]
  <2>1. Visible(latest[k]) # NoEntry
    BY <1>9 DEF Del, Store, GetReturnsLatest, Quiet
  <2> QED
    BY <1>1, <1>9, <2>1 DEF PutInMemory
<1>10. ASSUME NEW k, NEW v, PutAndFlush(k, v)
       PROVE  flushed' = latest /\ UNCHANGED <<latest, clock>>
  BY <1>10 DEF PutAndFlush
<1>11. CASE Continue
  BY <1>3, <1>7, <1>11 DEF Continue, CompactNothing, CompactStart, WriteOutput, DeleteInput,
     CompactEnd, FinishClose, ResetFile, ResetDir, ResetDone, OpenLevel, OpenDone, ghost
<1>12. CASE Call
  <2>1. CASE CloseEmpty \/ Close
    BY <1>4, <2>1 DEF CloseEmpty, Close
  <2>2. ASSUME NEW k \in Key, Del(k) PROVE PutInMemory(k, DEL) \/ PutAndFlush(k, DEL)
    BY <2>2 DEF Del, Store
  <2>3. ASSUME NEW k \in Key, NEW v \in Value, Put(k, v) PROVE PutInMemory(k, v) \/ PutAndFlush(k, v)
    BY <2>3 DEF Put, Store
  <2>4. CASE \E k \in Key : Del(k)
    BY <1>4, <1>9, <1>10, <2>2, <2>4
  <2>5. CASE \E k \in Key : \E v \in Value : Put(k, v)
    BY <1>4, <1>8, <1>10, <2>3, <2>5
  <2> QED
    BY <1>6, <1>12, <2>1, <2>4, <2>5 DEF Call
<1>13. CASE Crash
  BY <1>5, <1>13 DEF Crash
<1> QED
  BY <1>3, <1>11, <1>12, <1>13 DEF Next, OpenStart, vars, ghost

LEMMA ImplementsInit ==
    ASSUME Init, GetReturnsLatest
    PROVE  API!Init
<1>1. /\ \A k \in Key : Visible(latest[k]).ver = 0 /\ Visible(flushed[k]).ver = 0
      /\ clock = 0
  BY DEF Init, NoData, Visible, NoEntry
<1> QED
  BY <1>1, DictShown DEF API!Init, API!Absent, Shown

LEMMA ImplementsNext ==
    ASSUME Reading, MarkerPending, GetReturnsLatest, GetReturnsLatest', None \notin Value,
           [Next]_vars
    PROVE  [API!Next]_(API!vars)
<1> DEFINE D == [k \in Key |-> IF Quiet THEN Get(k).ver ELSE Visible(latest[k]).ver]
           W == [k \in Key |-> Visible(flushed[k]).ver]
<1>1. D = Shown /\ D' = Shown'
  BY DictShown DEF GetReturnsLatest, Shown
<1>2. W = Saved /\ W' = Saved'
  BY DEF Saved
<1>3. \A k \in Key : D[k] = Shown[k]
  BY <1>1
<1> HIDE DEF D, W
<1>4. \/ \E k \in Key : /\ clock' = clock + 1 /\ W' = W
                        /\ \/ D' = [D EXCEPT ![k] = clock + 1]
                           \/ D[k] # 0 /\ D' = [D EXCEPT ![k] = 0]
      \/ /\ D' = [k \in Key |-> 0] /\ W' = [k \in Key |-> 0] /\ clock' = clock
      \/ W' = D /\ D' = D /\ clock' = clock
      \/ D' = W /\ W' = W /\ clock' = clock
      \/ D' = D /\ W' = W /\ clock' = clock
  BY <1>1, <1>2, ShownStep
<1> USE DEF D, W
<1>5. CASE \E k \in Key : /\ clock' = clock + 1 /\ W' = W
                          /\ \/ D' = [D EXCEPT ![k] = clock + 1]
                             \/ D[k] # 0 /\ D' = [D EXCEPT ![k] = 0]
  <2>1. \E k \in Key : API!Put(k) \/ API!Del(k)
    BY <1>5 DEF API!Put, API!Del
  <2> QED
    BY <2>1 DEF API!Next
<1>6. CASE D' = [k \in Key |-> 0] /\ W' = [k \in Key |-> 0] /\ clock' = clock
  BY <1>6 DEF API!Next, API!Reset, API!Absent
<1>7. CASE W' = D /\ D' = D /\ clock' = clock
  BY <1>7 DEF API!Next, API!Persist
<1>8. CASE D' = W /\ W' = W /\ clock' = clock
  BY <1>8 DEF API!Next, API!Crash
<1>9. CASE D' = D /\ W' = W /\ clock' = clock
  BY <1>9 DEF API!vars
<1> QED
  BY <1>4, <1>5, <1>6, <1>7, <1>8, <1>9

(* As long as timestamps order the versions, every behaviour of the store  *)
(* is one of the dictionary of kvstore_api.h: flushes, compactions and     *)
(* reopenings change nothing that a client reads, del removes only its     *)
(* key, and a kill takes back what reached no file, and nothing else.      *)
THEOREM StoreIsDictionary ==
    ASSUME CrashPoints \cap {"delete", "reset"} = {}, None \notin Value
    PROVE  Spec /\ []TimeIsAge => ImplementsAPI
<1>1. Init => MarkerPending
  BY DEF Init, MarkerPending
<1>2. Reading' /\ MarkerPending /\ GetReturnsLatest /\ [Next]_vars => MarkerPending'
  BY MarkerNext DEF Reading, Written, Cached
<1>3. Spec /\ []TimeIsAge => []GetReturnsLatest
  BY GetIsLatest
<1>4. Spec => []Reading
  BY ReadingAlways
<1>5. Spec /\ []TimeIsAge => []MarkerPending
  BY <1>1, <1>2, <1>3, <1>4, PTL DEF Spec
<1>6. Init /\ GetReturnsLatest => API!Init
  BY ImplementsInit
<1>7. /\ Reading /\ MarkerPending /\ GetReturnsLatest /\ GetReturnsLatest' /\ [Next]_vars
      => [API!Next]_(API!vars)
  BY ImplementsNext
<1> QED
  BY <1>3, <1>5, <1>6, <1>7, <1>4, PTL DEF Spec, ImplementsAPI, API!Spec

(* A store without levels below level 1 that is never closed is that       *)
(* dictionary.                                                             *)
THEOREM TwoLevelsAreDictionary ==
    ASSUME CrashPoints \cap {"delete", "reset"} = {}, None \notin Value,
           "close" \notin Ops
    PROVE  Spec /\ []TwoLevels => ImplementsAPI
<1>1. Spec /\ []TwoLevels => []TimeIsAge
  BY TimeIsAgeOfTwoLevels, PTL
<1> QED
  BY <1>1, StoreIsDictionary, PTL
=============================================================================
