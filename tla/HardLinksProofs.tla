--------------------------- MODULE HardLinksProofs ---------------------------
(***************************************************************************)
(* What is proved of HardLinks for any number of files, contents, faults   *)
(* and writes: what a failed call or a kill costs, and that the oldest     *)
(* file of each hash is kept as it was.                                    *)
(*                                                                         *)
(* Links and writes reach files through their names, so the invariant says *)
(* where each name leads: to the entry that some file of the same hash had *)
(* at the start, which is an inode where no symbolic link is among those;  *)
(* and that some name of this inode reads as it should.                    *)
(***************************************************************************)
EXTENDS HardLinks, SequenceTheorems, FiniteSetTheorems, TLAPS

AbsentNames == {n \in Names : entry[n] = Absent}

(***************************************************************************)
(* Nothing is removed before the directory has been read.                  *)
(***************************************************************************)
ScanLeavesAll ==
    /\ \A n \in unread : seen[n] = NoHash
    /\ pc = "scan" =>
          /\ entry = first /\ groups = {}
          /\ \A n \in Names : Reads(n) = expect[n]

EntriesFromPeers ==
    \A n \in Names : entry[n] = Absent \/ \E m \in Peers(n) : entry[n] = first[m]

(***************************************************************************)
(* What readers see.  A name reads as it should, unless it was linked to   *)
(* an original of another content; but then the original reads as it       *)
(* should, and it is Safe: it will not be removed any more.                *)
(***************************************************************************)
Safe(m) ==
    /\ seen[m] # NoHash /\ seen[m] \notin groups
    /\ pc \in {"remove", "link"} => \A i \in 2..Len(files) : files[i] # m

Vouches(m, n) ==
    /\ m \in Peers(n) /\ entry[m] = entry[n] /\ Reads(m) = expect[m]
    /\ m = n \/ Safe(m)

ReadersVouched ==
    \A n \in Names : entry[n] # Absent /\ ~LinkAmong(Peers(n)) =>
        \E m \in Names : Vouches(m, n)

(***************************************************************************)
(* createHardLinks: the group in hand has the original first, which is     *)
(* there, and no name twice, so removing a duplicate spares the original.  *)
(***************************************************************************)
GroupsHavePeers ==
    \A h \in groups : h # NoHash /\ Cardinality(FilesWith(h)) > 1

Group(q) ==
    /\ q \in Seq(Names) /\ Len(q) > 1
    /\ \A i, k \in 1..Len(q) : i # k => q[i] # q[k]
    /\ \A i \in 1..Len(q) : seen[q[i]] = seen[q[1]]
    /\ seen[q[1]] # NoHash

GroupInHand ==
    pc \in {"remove", "link"} =>
        Group(files) /\ entry[Original] # Absent /\ seen[Original] \notin groups

(***************************************************************************)
(* A name that is gone was paid for, except the duplicate in hand.         *)
(***************************************************************************)
AbsentPaid ==
    /\ Cardinality(AbsentNames) <= faults + IF pc = "link" THEN 1 ELSE 0
    /\ pc = "link" => entry[Duplicate] = Absent

HardLinksInvariant ==
    /\ TypeOK /\ first \in Directories
    /\ ScanLeavesAll /\ EntriesFromPeers /\ ReadersVouched
    /\ GroupsHavePeers /\ GroupInHand /\ AbsentPaid
-----------------------------------------------------------------------------
(***************************************************************************)
(* Where names lead.                                                       *)
(***************************************************************************)
LEMMA DirectoryResolves ==
    ASSUME NEW e \in Directories, NEW n \in Names
    PROVE  Resolve(e, n) \in Inodes
BY HardLinksAssumption DEF Directories, Resolve, Inodes, Symlink

LEMMA TargetType ==
    ASSUME TypeOK, NEW n \in Names
    PROVE  Target(n) \in Inodes \cup {Absent}
BY HardLinksAssumption DEF TypeOK, Target, Resolve

LEMMA HashType == \A c \in Content : Hash(c) \in Blocks /\ Hash(c) # NoHash
BY HardLinksAssumption DEF Content, Hash

LEMMA PeersOfPeer ==
    ASSUME NEW n \in Names, NEW m \in Peers(n)
    PROVE  m \in Names /\ seen[m] = seen[n] /\ Peers(m) = Peers(n)
BY DEF Peers

(***************************************************************************)
(* Without symbolic links among its peers, a name that is there leads to   *)
(* the inode one of them had at the start.                                 *)
(***************************************************************************)
LEMMA LeadsToPeer ==
    ASSUME TypeOK, EntriesFromPeers, NEW n \in Names, entry[n] # Absent,
           ~LinkAmong(Peers(n))
    PROVE  \E m \in Peers(n) : /\ first[m] \in Inodes /\ first[m] = Resolve(first, m)
                               /\ entry[n] = first[m] /\ Target(n) = first[m]
                               /\ entry[n] \notin Symlink
<1>1. PICK m \in Peers(n) : entry[n] = first[m]
  BY DEF EntriesFromPeers
<1>2. first[m] \notin Symlink /\ m \in Names
  BY DEF LinkAmong, Peers
<1>3. first[m] \in Inodes
  BY <1>2 DEF TypeOK
<1> QED BY <1>1, <1>2, <1>3 DEF Target, Resolve

(***************************************************************************)
(* The names that are gone are finitely many, and one more or less.        *)
(***************************************************************************)
LEMMA AbsentFinite ==
    IsFiniteSet(AbsentNames) /\ Cardinality(AbsentNames) \in Nat
<1>1. AbsentNames \in SUBSET Names /\ IsFiniteSet(Names)
  BY HardLinksAssumption DEF AbsentNames
<1>2. IsFiniteSet(AbsentNames)
  BY <1>1, FS_Subset
<1> QED BY <1>2, FS_CardinalityType

(***************************************************************************)
(* A step that leaves the directory and the hashes alone.                  *)
(***************************************************************************)
LEMMA QuietStep ==
    ASSUME HardLinksInvariant, UNCHANGED <<fileVars, scanVars, historyVars>>
    PROVE  /\ first' \in Directories
           /\ EntriesFromPeers' /\ AbsentNames' = AbsentNames
           /\ (\A m \in Names : Safe(m) => Safe(m)') => ReadersVouched'
           /\ \A h : FilesWith(h)' = FilesWith(h)
           /\ \A q : Group(q)' <=> Group(q)
           /\ (pc' = "scan" => pc = "scan" /\ groups' = groups) => ScanLeavesAll'
<1> USE DEF fileVars, scanVars, historyVars
<1>1. first' \in Directories /\ EntriesFromPeers' /\ AbsentNames' = AbsentNames
  BY DEF HardLinksInvariant, EntriesFromPeers, Peers, AbsentNames, Directories, Symlink,
         Inodes
<1>2. ASSUME \A m \in Names : Safe(m) => Safe(m)'
      PROVE  ReadersVouched'
  <2>1. /\ \A n : Peers(n)' = Peers(n) /\ entry' = entry
        /\ \A N : LinkAmong(N)' = LinkAmong(N)
    BY DEF Peers, LinkAmong, Symlink
  <2>2. \A m : Reads(m)' = Reads(m) /\ expect' = expect
    BY DEF Reads, Target, Resolve, Symlink, Inodes
  <2> QED BY <1>2, <2>1, <2>2 DEF HardLinksInvariant, ReadersVouched, Vouches
<1>3. (\A h : FilesWith(h)' = FilesWith(h)) /\ (\A q : Group(q)' <=> Group(q))
  BY DEF FilesWith, Group
<1>4. (pc' = "scan" => pc = "scan" /\ groups' = groups) => ScanLeavesAll'
  BY DEF HardLinksInvariant, ScanLeavesAll, Reads, Target, Resolve, Symlink, Inodes
<1> QED BY <1>1, <1>2, <1>3, <1>4
-----------------------------------------------------------------------------
(***************************************************************************)
(* scanDirectory.                                                          *)
(***************************************************************************)
LEMMA InitEstablishes == Init => HardLinksInvariant
<1> SUFFICES ASSUME Init PROVE HardLinksInvariant
  OBVIOUS
<1>0. /\ entry \in Directories /\ first = entry /\ pc = "scan" /\ faults = 0
      /\ \A n \in Names : seen[n] = NoHash
  BY DEF Init
<1>1. \A n \in Names : Target(n) \in Inodes
  BY <1>0, DirectoryResolves DEF Target
<1>2. \A n \in Names : Reads(n) \in Content /\ expect[n] = Reads(n)
  BY <1>1, HardLinksAssumption DEF Init, Reads, Inodes
<1>3. entry \in [Names -> Inodes \cup Symlink]
  BY <1>0 DEF Directories
<1>4. TypeOK
  <2>1. expect \in [Names -> Content]
    BY <1>2 DEF Init
  <2>2. mtime \in [Inodes -> Nat] /\ data \in [Inodes -> Content]
    BY HardLinksAssumption DEF Init
  <2> QED BY <1>0, <1>3, <2>1, <2>2 DEF Init, TypeOK
<1>5. \A n \in Names : entry[n] # Absent
  BY <1>3, HardLinksAssumption DEF Inodes
<1>6. AbsentNames = {} /\ AbsentPaid
  <2>1. AbsentNames = {}
    BY <1>5 DEF AbsentNames
  <2> QED BY <1>0, <2>1, FS_EmptySet DEF AbsentPaid
<1>7. ScanLeavesAll /\ EntriesFromPeers /\ ReadersVouched
  BY <1>0, <1>2 DEF Init, ScanLeavesAll, EntriesFromPeers, ReadersVouched, Vouches, Peers
<1>9. GroupsHavePeers /\ GroupInHand
  BY DEF Init, GroupsHavePeers, GroupInHand
<1> QED BY <1>0, <1>4, <1>6, <1>7, <1>9 DEF HardLinksInvariant

LEMMA ScanPreserves ==
    ASSUME HardLinksInvariant, NEW n \in Names, Scan(n)
    PROVE  HardLinksInvariant'
<1>0. /\ pc = "scan" /\ pc' = "scan" /\ n \in unread /\ unread' = unread \ {n}
      /\ UNCHANGED <<entry, data, mtime, groups, files, first, expect, written>>
      /\ TypeOK /\ first \in Directories /\ entry = first /\ groups = {}
  BY DEF Scan, HardLinksInvariant, ScanLeavesAll, fileVars, linkVars, historyVars
<1>1. /\ \A m \in Names : Target(m) \in Inodes /\ Reads(m) = data[Target(m)]
      /\ \A m \in Names : Reads(m) = expect[m] /\ Reads(m) \in Content
  <2>1. \A m \in Names : Target(m) \in Inodes
    BY <1>0, DirectoryResolves DEF Target
  <2>2. \A m \in Names : Reads(m) = data[Target(m)]
    BY <2>1, HardLinksAssumption DEF Reads, Inodes
  <2> QED BY <1>0, <2>1, <2>2 DEF HardLinksInvariant, ScanLeavesAll, TypeOK
<1>2. \A m \in Names : Reads(m)' = Reads(m) /\ Target(m)' = Target(m)
  BY <1>0 DEF Reads, Target, Resolve, Symlink, Inodes
<1>3. /\ \/ \E h \in Blocks : seen' = [seen EXCEPT ![n] = h]
         \/ seen' = seen
      /\ faults' = faults \/ faults' = faults + 1
  <2>1. Hash(Reads(n)) \in Blocks
    BY <1>1, HashType
  <2> QED BY <2>1 DEF Scan, Fault
<1>4. /\ seen \in [Names -> Blocks \cup {NoHash}] /\ seen' \in [Names -> Blocks \cup {NoHash}]
      /\ \A m \in Names : m # n => seen'[m] = seen[m]
  BY <1>0, <1>3 DEF TypeOK
<1>5. faults \in Nat /\ faults' \in Nat
  BY <1>0, <1>3 DEF TypeOK
<1>6. TypeOK' /\ first' \in Directories'
  BY <1>0, <1>4, <1>5 DEF TypeOK, Directories, Symlink, Inodes, Content
<1>7. ScanLeavesAll'
  BY <1>0, <1>1, <1>2, <1>4 DEF HardLinksInvariant, ScanLeavesAll, TypeOK
<1>8. \A m \in Names : entry'[m] = first'[m] /\ entry'[m] # Absent /\ m \in Peers(m)'
  BY <1>0, HardLinksAssumption DEF Peers, TypeOK, Inodes
<1>9. EntriesFromPeers' /\ ReadersVouched'
  BY <1>0, <1>1, <1>2, <1>8 DEF EntriesFromPeers, ReadersVouched, Vouches
<1>12. GroupsHavePeers' /\ GroupInHand'
  BY <1>0 DEF GroupsHavePeers, GroupInHand
<1>13. AbsentPaid'
  <2>1. AbsentNames' = {}
    BY <1>8 DEF AbsentNames
  <2> QED BY <1>0, <1>5, <2>1, FS_EmptySet DEF AbsentPaid
<1> QED BY <1>6, <1>7, <1>9, <1>12, <1>13 DEF HardLinksInvariant

LEMMA ScanEndsPreserves ==
    ASSUME HardLinksInvariant, ScanEnds
    PROVE  HardLinksInvariant'
<1>0. /\ pc = "scan" /\ unread' = {} /\ faults' = faults + 1
      /\ UNCHANGED <<fileVars, linkVars, seen, pc, historyVars>>
  BY DEF ScanEnds, Fault
<1>1. TypeOK' /\ first' \in Directories'
  BY <1>0 DEF HardLinksInvariant, TypeOK, fileVars, linkVars, historyVars, Directories,
              Inodes, Symlink, Content
<1>2. ScanLeavesAll' /\ EntriesFromPeers'
  BY <1>0 DEF HardLinksInvariant, ScanLeavesAll, EntriesFromPeers, Peers, Reads, Target,
              Resolve, Symlink, Inodes, fileVars, linkVars, historyVars
<1>3. ReadersVouched'
  BY <1>0 DEF HardLinksInvariant, ScanLeavesAll, ReadersVouched, Vouches, Peers, Reads,
              Target, Resolve, Symlink, Inodes, fileVars, linkVars, historyVars
<1>4. GroupsHavePeers' /\ GroupInHand'
  BY <1>0 DEF HardLinksInvariant, ScanLeavesAll, GroupsHavePeers, GroupInHand, linkVars
<1>5. AbsentPaid'
  <2>1. AbsentNames' = AbsentNames
    BY <1>0 DEF AbsentNames, fileVars
  <2>2. Cardinality(AbsentNames) <= faults /\ faults \in Nat
    BY <1>0 DEF HardLinksInvariant, AbsentPaid, TypeOK
  <2> QED BY <1>0, <2>1, <2>2, AbsentFinite DEF AbsentPaid
<1> QED BY <1>1, <1>2, <1>3, <1>4, <1>5 DEF HardLinksInvariant
-----------------------------------------------------------------------------
(***************************************************************************)
(* createHardLinks: from one group of files to the next.                   *)
(***************************************************************************)
LEMMA BeginLinkingPreserves ==
    ASSUME HardLinksInvariant, BeginLinking
    PROVE  HardLinksInvariant'
<1>0. /\ pc = "scan" /\ pc' = "group" /\ files' = files /\ faults' = faults
      /\ UNCHANGED <<fileVars, scanVars, historyVars>>
      /\ groups' = {h \in {seen[n] : n \in Names} \ {NoHash} : Cardinality(FilesWith(h)) > 1}
  BY DEF BeginLinking
<1>1. groups' \in SUBSET Blocks
  BY <1>0 DEF HardLinksInvariant, TypeOK
<1>2. TypeOK'
  BY <1>0, <1>1 DEF HardLinksInvariant, TypeOK, fileVars, scanVars, historyVars, Inodes,
                    Symlink, Content
<1>3. GroupsHavePeers'
  BY <1>0, QuietStep DEF GroupsHavePeers
<1>4. GroupInHand' /\ AbsentPaid'
  BY <1>0, QuietStep DEF HardLinksInvariant, GroupInHand, AbsentPaid
<1>5. ReadersVouched'
  BY <1>0 DEF HardLinksInvariant, ScanLeavesAll, ReadersVouched, Vouches, Peers, Reads,
              Target, Resolve, Symlink, Inodes, fileVars, scanVars, historyVars
<1> QED BY <1>0, <1>2, <1>3, <1>4, <1>5, QuietStep DEF HardLinksInvariant

(***************************************************************************)
(* The files of a hash, sorted, are a group whose names all lead somewhere.*)
(***************************************************************************)
LEMMA SortedIsGroup ==
    ASSUME TypeOK, NEW h \in Blocks, h # NoHash, Cardinality(FilesWith(h)) > 1,
           NEW q \in SetToSeqs(FilesWith(h))
    PROVE  Group(q) /\ q[1] \in FilesWith(h)
<1> DEFINE S == FilesWith(h)
           k == Cardinality(S)
<1>1. S \in SUBSET Names /\ IsFiniteSet(Names)
  BY HardLinksAssumption DEF FilesWith
<1>2. IsFiniteSet(S)
  BY <1>1, FS_Subset
<1>3. k \in Nat
  BY <1>2, FS_CardinalityType
<1>4. q \in [1..k -> S] /\ \A i, j \in 1..k : i # j => q[i] # q[j]
  BY DEF SetToSeqs
<1>5. q \in Seq(Names) /\ Len(q) = k
  BY <1>1, <1>3, <1>4
<1>6. \A i \in 1..k : q[i] \in S /\ seen[q[i]] = h
  BY <1>4 DEF FilesWith
<1>7. 1 \in 1..k
  BY <1>3
<1> QED BY <1>3, <1>4, <1>5, <1>6, <1>7 DEF Group

LEMMA NextGroupPreserves ==
    ASSUME HardLinksInvariant, NEW h \in groups, NextGroup(h)
    PROVE  HardLinksInvariant'
<1>0. /\ pc = "group" /\ groups' = groups \ {h} /\ faults' = faults
      /\ UNCHANGED <<fileVars, scanVars, historyVars>>
      /\ \/ pc' = "aborted" /\ files' = files
         \/ /\ pc' = "remove" /\ files' \in SetToSeqs(FilesWith(h))
            /\ \A n \in FilesWith(h) : Target(n) # Absent
  BY DEF NextGroup
<1>1. /\ TypeOK /\ h \in Blocks /\ h # NoHash /\ Cardinality(FilesWith(h)) > 1
  BY DEF HardLinksInvariant, TypeOK, GroupsHavePeers
<1>2. pc' = "remove" => Group(files') /\ entry[files'[1]] # Absent /\ seen[files'[1]] = h
  <2> SUFFICES ASSUME pc' = "remove"
               PROVE  Group(files') /\ entry[files'[1]] # Absent /\ seen[files'[1]] = h
    OBVIOUS
  <2>1. Group(files') /\ files'[1] \in FilesWith(h) /\ seen[files'[1]] = h
    BY <1>0, <1>1, SortedIsGroup DEF FilesWith
  <2>2. Target(files'[1]) # Absent
    BY <1>0, <2>1
  <2> QED BY <2>1, <2>2, HardLinksAssumption DEF Target, Resolve
<1>3. files' \in Seq(Names)
  BY <1>0, <1>1, <1>2 DEF Group, TypeOK
<1>4. TypeOK'
  BY <1>0, <1>1, <1>3 DEF TypeOK, fileVars, scanVars, historyVars, Inodes, Symlink, Content
<1>5. GroupsHavePeers'
  BY <1>0, QuietStep DEF HardLinksInvariant, GroupsHavePeers
<1>6. GroupInHand'
  <2>1. Group(files)' <=> Group(files')
    BY <1>0 DEF Group, scanVars
  <2> QED BY <1>0, <1>2, <2>1 DEF GroupInHand, Original, fileVars, scanVars
<1>7. AbsentPaid'
  BY <1>0, QuietStep DEF HardLinksInvariant, AbsentPaid
<1>8. ASSUME NEW m \in Names, Safe(m) PROVE Safe(m)'
  <2>1. seen[m] # h
    BY <1>8 DEF Safe
  <2>2. pc' = "remove" => \A i \in 2..Len(files') : seen[files'[i]] = h
    BY <1>2 DEF Group
  <2> QED BY <1>0, <1>8, <2>1, <2>2 DEF Safe, scanVars
<1> QED BY <1>0, <1>4, <1>5, <1>6, <1>7, <1>8, QuietStep DEF HardLinksInvariant

LEMMA EndLinkingPreserves ==
    ASSUME HardLinksInvariant, EndLinking
    PROVE  HardLinksInvariant'
<1>0. /\ pc = "group" /\ pc' = "done" /\ UNCHANGED <<linkVars, faults>>
      /\ UNCHANGED <<fileVars, scanVars, historyVars>>
  BY DEF EndLinking
<1>1. TypeOK'
  BY <1>0 DEF HardLinksInvariant, TypeOK, fileVars, scanVars, linkVars, historyVars,
              Inodes, Symlink, Content
<1>2. GroupsHavePeers' /\ GroupInHand' /\ AbsentPaid'
  BY <1>0, QuietStep
  DEF HardLinksInvariant, GroupsHavePeers, GroupInHand, AbsentPaid, linkVars
<1>3. \A m \in Names : Safe(m) => Safe(m)'
  BY <1>0 DEF Safe, linkVars, scanVars
<1> QED BY <1>0, <1>1, <1>2, <1>3, QuietStep DEF HardLinksInvariant
-----------------------------------------------------------------------------
(***************************************************************************)
(* Removing a duplicate and linking its name anew.                         *)
(***************************************************************************)
LEMMA DuplicateFacts ==
    ASSUME HardLinksInvariant, pc \in {"remove", "link"}
    PROVE  /\ Original \in Names /\ Duplicate \in Names /\ Duplicate # Original
           /\ seen[Original] = seen[Duplicate] /\ seen[Original] # NoHash
           /\ Peers(Original) = Peers(Duplicate)
           /\ entry[Original] # Absent
           /\ Safe(Original) /\ ~Safe(Duplicate)
<1>1. Group(files) /\ entry[Original] # Absent /\ seen[Original] \notin groups
  BY DEF HardLinksInvariant, GroupInHand
<1>2. files \in Seq(Names) /\ 1 \in 1..Len(files) /\ 2 \in 1..Len(files)
  BY <1>1 DEF Group
<1>3. /\ Original \in Names /\ Duplicate \in Names /\ Duplicate # Original
      /\ seen[Original] = seen[Duplicate] /\ seen[Original] # NoHash
  BY <1>1, <1>2 DEF Group, Original, Duplicate
<1>4. Safe(Original)
  <2>1. \A i \in 2..Len(files) : i \in 1..Len(files) /\ i # 1
    BY <1>2
  <2> QED BY <1>1, <1>2, <1>3, <2>1 DEF Safe, Group, Original
<1>5. ~Safe(Duplicate)
  <2>1. 2 \in 2..Len(files)
    BY <1>2
  <2> QED BY <2>1 DEF Safe, Duplicate
<1> QED BY <1>1, <1>3, <1>4, <1>5 DEF Peers

(***************************************************************************)
(* A group without its second file is a group, if there is a third.        *)
(***************************************************************************)
LEMMA GroupShrinks ==
    ASSUME NEW q, Group(q), Len(q) > 2
    PROVE  /\ Group(RemoveAt(q, 2)) /\ RemoveAt(q, 2)[1] = q[1]
           /\ \A i \in 2..Len(RemoveAt(q, 2)) : \E k \in 2..Len(q) : RemoveAt(q, 2)[i] = q[k]
<1> DEFINE r == RemoveAt(q, 2)
           a == SubSeq(q, 1, 1)
           b == SubSeq(q, 3, Len(q))
           Old(i) == IF i = 1 THEN 1 ELSE i + 1
<1>1. q \in Seq(Names) /\ Len(q) \in Nat
  BY DEF Group
<1>2. /\ a \in Seq(Names) /\ Len(a) = 1 /\ a[1] = q[1]
      /\ b \in Seq(Names) /\ Len(b) = Len(q) - 2
      /\ \A i \in 1..(Len(q) - 2) : b[i] = q[i + 2]
  BY <1>1
<1>3. r = a \o b
  BY <1>1 DEF RemoveAt
<1>4. r \in Seq(Names) /\ Len(r) = Len(q) - 1
  BY <1>1, <1>2, <1>3
<1>5. \A i \in 1..Len(r) : Old(i) \in 1..Len(q) /\ r[i] = q[Old(i)]
  <2> SUFFICES ASSUME NEW i \in 1..Len(r)
               PROVE  Old(i) \in 1..Len(q) /\ r[i] = q[Old(i)]
    OBVIOUS
  <2>1. CASE i = 1
    BY <1>1, <1>2, <1>3, <2>1
  <2>2. CASE i # 1
    <3>1. i - 1 \in 1..(Len(q) - 2) /\ i \in 2..(Len(q) - 1)
      BY <1>1, <1>4, <2>2
    <3>2. r[i] = b[i - 1]
      BY <1>1, <1>2, <1>3, <3>1
    <3>3. b[i - 1] = q[(i - 1) + 2]
      BY <1>2, <3>1
    <3> QED BY <1>1, <2>2, <3>1, <3>2, <3>3
  <2> QED BY <2>1, <2>2
<1>10. \A i \in 2..Len(r) : \E k \in 2..Len(q) : r[i] = q[k]
  <2> SUFFICES ASSUME NEW i \in 2..Len(r) PROVE \E k \in 2..Len(q) : r[i] = q[k]
    OBVIOUS
  <2>1. i \in 1..Len(r) /\ i + 1 \in 2..Len(q) /\ Old(i) = i + 1
    BY <1>1, <1>4
  <2> QED BY <1>5, <2>1
<1> HIDE DEF r, a, b
<1>6. \A i, k \in 1..Len(r) : i # k => r[i] # r[k]
  <2> SUFFICES ASSUME NEW i \in 1..Len(r), NEW k \in 1..Len(r), i # k
               PROVE  r[i] # r[k]
    OBVIOUS
  <2>1. Old(i) # Old(k)
    OBVIOUS
  <2> QED BY <1>5, <2>1 DEF Group
<1>7. r[1] = q[1]
  BY <1>1, <1>4, <1>5
<1>8. \A i \in 1..Len(r) : seen[r[i]] = seen[q[1]]
  BY <1>5 DEF Group
<1>9. Group(r) /\ r[1] = q[1]
  BY <1>1, <1>4, <1>6, <1>7, <1>8 DEF Group
<1> QED BY <1>9, <1>10 DEF r

LEMMA NextDuplicateKeeps ==
    ASSUME HardLinksInvariant, pc \in {"remove", "link"}, NextDuplicate, seen' = seen,
           groups' = groups, entry'[Original] # Absent
    PROVE  /\ GroupInHand' /\ files' \in Seq(Names) /\ pc' \in {"remove", "group"}
           /\ \A m : Safe(m) => Safe(m)'
<1>1. Group(files) /\ seen[Original] \notin groups
  BY DEF HardLinksInvariant, GroupInHand
<1>2. CASE Len(files) > 2
  <2>1. files' = RemoveAt(files, 2) /\ pc' = "remove"
    BY <1>2 DEF NextDuplicate
  <2>2. Group(files') /\ files'[1] = files[1]
    BY <1>1, <1>2, <2>1, GroupShrinks
  <2>3. Group(files)'
    BY <2>2 DEF Group
  <2>4. \A i \in 2..Len(files') : \E k \in 2..Len(files) : files'[i] = files[k]
    BY <1>1, <1>2, <2>1, GroupShrinks
  <2>5. \A m : Safe(m) => Safe(m)'
    BY <2>4 DEF Safe
  <2> QED BY <1>1, <2>1, <2>2, <2>3, <2>5 DEF GroupInHand, Original, Group
<1>3. CASE ~(Len(files) > 2)
  BY <1>3 DEF NextDuplicate, GroupInHand, Safe
<1> QED BY <1>2, <1>3

(***************************************************************************)
(* What does not depend on the entries stays when one of them changes; and *)
(* who reads as it should goes on doing so, and goes on vouching.          *)
(***************************************************************************)
LEMMA EntryStep ==
    ASSUME HardLinksInvariant, UNCHANGED <<data, mtime, scanVars, historyVars>>
    PROVE  /\ first' \in Directories'
           /\ \A n : Peers(n)' = Peers(n) /\ LinkAmong(Peers(n))' = LinkAmong(Peers(n))
           /\ \A h : FilesWith(h)' = FilesWith(h)
           /\ \A n \in unread : seen[n] = NoHash
<1> USE DEF scanVars, historyVars
<1>1. first' \in Directories'
  BY DEF HardLinksInvariant, Directories, Symlink, Inodes
<1>2. \A n : Peers(n)' = Peers(n) /\ LinkAmong(Peers(n))' = LinkAmong(Peers(n))
  BY DEF Peers, LinkAmong, Symlink
<1> QED BY <1>1, <1>2 DEF HardLinksInvariant, ScanLeavesAll, FilesWith

LEMMA StillVouches ==
    ASSUME HardLinksInvariant, UNCHANGED <<data, mtime, scanVars, historyVars>>,
           NEW n \in Names, entry[n] # Absent, ~LinkAmong(Peers(n)),
           \A m \in Names : Safe(m) => Safe(m)' /\ entry'[m] = entry[m]
    PROVE  \E m \in Names : /\ m \in Peers(n)' /\ entry[m] = entry[n]
                            /\ m = n \/ Safe(m)
                            /\ entry'[m] = entry[m] => Reads(m)' = expect'[m]
                            /\ Safe(m) => Safe(m)' /\ entry'[m] = entry[m]
<1>1. PICK m \in Names : Vouches(m, n)
  BY DEF HardLinksInvariant, ReadersVouched
<1>2. entry[m] \notin Symlink
  BY <1>1, LeadsToPeer DEF HardLinksInvariant, Vouches
<1>3. entry'[m] = entry[m] => Reads(m)' = expect'[m]
  <2> SUFFICES ASSUME entry'[m] = entry[m] PROVE Reads(m)' = expect'[m]
    OBVIOUS
  <2>1. Target(m) = entry[m] /\ Target(m)' = entry[m]
    BY <1>2 DEF Target, Resolve, Symlink, Inodes
  <2>2. Reads(m)' = Reads(m)
    BY <2>1 DEF Reads
  <2> QED BY <1>1, <2>2 DEF Vouches, historyVars
<1> QED BY <1>1, <1>3, EntryStep DEF Vouches

LEMMA RemovedPreserves ==
    ASSUME HardLinksInvariant, pc = "remove", pc' = "link",
           entry' = [entry EXCEPT ![Duplicate] = Absent],
           UNCHANGED <<files, faults, data, mtime, scanVars, groups, historyVars>>
    PROVE  HardLinksInvariant'
<1>0. /\ Original \in Names /\ Duplicate \in Names /\ Duplicate # Original
      /\ seen[Original] = seen[Duplicate] /\ entry[Original] # Absent
      /\ Original' = Original /\ Duplicate' = Duplicate
  BY DuplicateFacts DEF Original, Duplicate
<1>1. /\ entry \in [Names -> Inodes \cup Symlink \cup {Absent}]
      /\ entry'[Duplicate] = Absent
      /\ \A n \in Names : n # Duplicate => entry'[n] = entry[n]
  BY <1>0 DEF HardLinksInvariant, TypeOK
<1>2. TypeOK'
  BY <1>0, <1>1 DEF HardLinksInvariant, TypeOK, scanVars, historyVars, Inodes, Symlink,
                    Content
<1>3. ScanLeavesAll' /\ EntriesFromPeers'
  BY <1>0, <1>1, EntryStep
  DEF HardLinksInvariant, ScanLeavesAll, EntriesFromPeers, scanVars, historyVars
<1>4. ReadersVouched'
  <2> SUFFICES ASSUME NEW n \in Names, entry'[n] # Absent, ~LinkAmong(Peers(n))
               PROVE  \E m \in Names : Vouches(m, n)'
    BY EntryStep DEF ReadersVouched
  <2>1. entry'[n] = entry[n]
    BY <1>1
  <2>2. \A m \in Names : Safe(m) => Safe(m)' /\ entry'[m] = entry[m]
    BY <1>1, DuplicateFacts DEF Safe, scanVars
  <2> QED BY <2>1, <2>2, StillVouches DEF Vouches
<1>5. GroupsHavePeers' /\ GroupInHand'
  <2>1. Group(files)'
    BY DEF HardLinksInvariant, GroupInHand, Group, scanVars
  <2> QED BY <1>0, <1>1, <2>1, EntryStep
          DEF HardLinksInvariant, GroupsHavePeers, GroupInHand, scanVars
<1>7. AbsentPaid'
  <2>1. AbsentNames' = AbsentNames \cup {Duplicate}
    BY <1>0, <1>1 DEF AbsentNames
  <2>2. Cardinality(AbsentNames') <= Cardinality(AbsentNames) + 1
    BY <2>1, AbsentFinite, FS_AddElement
  <2>3. Cardinality(AbsentNames) <= faults /\ faults \in Nat
    BY AbsentFinite DEF HardLinksInvariant, AbsentPaid, TypeOK
  <2>4. Cardinality(AbsentNames') \in Nat
    <3>1. IsFiniteSet(AbsentNames')
      BY <2>1, AbsentFinite, FS_AddElement
    <3> QED BY <3>1, FS_CardinalityType
  <2> QED BY <1>0, <1>1, <2>2, <2>3, <2>4, AbsentFinite DEF AbsentPaid
<1> QED BY <1>2, <1>3, <1>4, <1>5, <1>7, EntryStep DEF HardLinksInvariant

(***************************************************************************)
(* remove() or create_hard_link() fails: the loop goes on, the name stays  *)
(* as it is.                                                               *)
(***************************************************************************)
LEMMA FailedPreserves ==
    ASSUME HardLinksInvariant, pc \in {"remove", "link"}, Fault, NextDuplicate,
           UNCHANGED <<entry, data, mtime, scanVars, groups, historyVars>>
    PROVE  HardLinksInvariant'
<1>0. entry[Original] # Absent /\ faults' = faults + 1 /\ faults \in Nat
  BY DuplicateFacts DEF Fault, HardLinksInvariant, TypeOK
<1>1. /\ GroupInHand' /\ files' \in Seq(Names) /\ pc' \in {"remove", "group"}
      /\ \A m : Safe(m) => Safe(m)'
  BY <1>0, NextDuplicateKeeps DEF scanVars
<1>2. TypeOK'
  BY <1>0, <1>1 DEF HardLinksInvariant, TypeOK, scanVars, historyVars, Inodes, Symlink,
                    Content
<1>3. GroupsHavePeers'
  BY QuietStep DEF HardLinksInvariant, GroupsHavePeers, fileVars
<1>4. AbsentPaid'
  <2>1. Cardinality(AbsentNames) <= faults + 1
    BY <1>0, AbsentFinite DEF HardLinksInvariant, AbsentPaid
  <2>2. AbsentNames' = AbsentNames
    BY DEF AbsentNames
  <2> QED BY <1>0, <1>1, <2>1, <2>2 DEF AbsentPaid
<1> QED BY <1>1, <1>2, <1>3, <1>4, QuietStep DEF HardLinksInvariant, fileVars

LEMMA RemoveDuplicatePreserves ==
    ASSUME HardLinksInvariant, RemoveDuplicate
    PROVE  HardLinksInvariant'
<1>0. pc = "remove" /\ UNCHANGED <<data, mtime, scanVars, groups, historyVars>>
  BY DEF RemoveDuplicate
<1>1. CASE pc' = "aborted" /\ UNCHANGED <<entry, files, faults>>
  <2>1. TypeOK'
    BY <1>0, <1>1 DEF HardLinksInvariant, TypeOK, scanVars, historyVars, Inodes, Symlink,
                      Content
  <2>2. GroupsHavePeers' /\ GroupInHand' /\ AbsentPaid'
    BY <1>0, <1>1, QuietStep
    DEF HardLinksInvariant, GroupsHavePeers, GroupInHand, AbsentPaid, fileVars
  <2>3. \A m \in Names : Safe(m) => Safe(m)'
    BY <1>0, <1>1 DEF Safe, scanVars
  <2> QED BY <1>0, <1>1, <2>1, <2>2, <2>3, QuietStep DEF HardLinksInvariant, fileVars
<1>2. CASE /\ entry' = [entry EXCEPT ![Duplicate] = Absent] /\ pc' = "link"
           /\ UNCHANGED <<files, faults>>
  BY <1>0, <1>2, RemovedPreserves
<1>3. CASE Fault /\ NextDuplicate /\ UNCHANGED entry
  BY <1>0, <1>3, FailedPreserves
<1> QED BY <1>1, <1>2, <1>3 DEF RemoveDuplicate

(***************************************************************************)
(* The duplicate is linked to the original; who vouches for that vouches   *)
(* for the duplicate now.                                                  *)
(***************************************************************************)
LEMMA LinkedPreserves ==
    ASSUME HardLinksInvariant, pc = "link", NextDuplicate,
           entry' = [entry EXCEPT ![Duplicate] = entry[Original]],
           UNCHANGED <<faults, data, mtime, scanVars, groups, historyVars>>
    PROVE  HardLinksInvariant'
<1>0. /\ Original \in Names /\ Duplicate \in Names /\ Duplicate # Original
      /\ seen[Original] = seen[Duplicate] /\ entry[Original] # Absent
      /\ Peers(Original) = Peers(Duplicate)
  BY DuplicateFacts
<1>1. /\ entry \in [Names -> Inodes \cup Symlink \cup {Absent}]
      /\ entry'[Duplicate] = entry[Original]
      /\ \A n \in Names : n # Duplicate => entry'[n] = entry[n]
  BY <1>0 DEF HardLinksInvariant, TypeOK
<1>2. /\ GroupInHand' /\ files' \in Seq(Names) /\ pc' \in {"remove", "group"}
      /\ \A m : Safe(m) => Safe(m)'
  BY <1>0, <1>1, NextDuplicateKeeps DEF scanVars
<1>3. TypeOK'
  BY <1>0, <1>1, <1>2 DEF HardLinksInvariant, TypeOK, scanVars, historyVars, Inodes,
                          Symlink, Content
<1>4. ScanLeavesAll'
  BY <1>2, EntryStep DEF ScanLeavesAll, scanVars
<1>5. EntriesFromPeers'
  <2> SUFFICES ASSUME NEW n \in Names
               PROVE  entry'[n] = Absent \/ \E m \in Peers(n) : entry'[n] = first[m]
    BY EntryStep DEF EntriesFromPeers, historyVars
  <2>1. CASE n = Duplicate
    BY <1>0, <1>1, <2>1 DEF HardLinksInvariant, EntriesFromPeers
  <2>2. CASE n # Duplicate
    BY <1>1, <2>2 DEF HardLinksInvariant, EntriesFromPeers
  <2> QED BY <2>1, <2>2
<1>6. ReadersVouched'
  <2> SUFFICES ASSUME NEW n \in Names, entry'[n] # Absent, ~LinkAmong(Peers(n))
               PROVE  \E m \in Names : Vouches(m, n)'
    BY EntryStep DEF ReadersVouched
  <2>1. \A m \in Names : Safe(m) => Safe(m)' /\ entry'[m] = entry[m]
    BY <1>1, <1>2, DuplicateFacts
  <2>2. CASE n # Duplicate
    <3>1. entry'[n] = entry[n]
      BY <1>1, <2>2
    <3> QED BY <2>1, <3>1, StillVouches DEF Vouches
  <2>3. CASE n = Duplicate
    <3>1. PICK o \in Names : o = Original
      BY <1>0
    <3>2. entry[o] # Absent /\ ~LinkAmong(Peers(o)) /\ Safe(o)
      BY <1>0, <2>3, <3>1, DuplicateFacts
    <3>3. PICK m \in Names : /\ m \in Peers(o)' /\ entry[m] = entry[o] /\ Safe(m)
                             /\ entry'[m] = entry[m] => Reads(m)' = expect'[m]
      BY <2>1, <3>2, StillVouches
    <3>4. Peers(o)' = Peers(n)'
      BY <1>0, <2>3, <3>1, EntryStep
    <3>5. m \in Peers(n)'
      BY <3>3, <3>4
    <3>6. Safe(m)' /\ entry'[m] = entry[m]
      BY <2>1, <3>3
    <3>7. Reads(m)' = expect'[m]
      BY <3>3, <3>6
    <3>8. entry'[m] = entry'[n]
      BY <1>1, <2>3, <3>1, <3>3, <3>6
    <3> QED BY <3>5, <3>6, <3>7, <3>8 DEF Vouches
  <2> QED BY <2>2, <2>3
<1>7. GroupsHavePeers'
  BY EntryStep DEF HardLinksInvariant, GroupsHavePeers
<1>9. AbsentPaid'
  <2>1. AbsentNames' = AbsentNames \ {Duplicate} /\ Duplicate \in AbsentNames
    BY <1>0, <1>1 DEF AbsentNames, HardLinksInvariant, AbsentPaid
  <2>2. Cardinality(AbsentNames') = Cardinality(AbsentNames) - 1
    BY <2>1, AbsentFinite, FS_RemoveElement
  <2>3. Cardinality(AbsentNames) <= faults + 1 /\ faults \in Nat
    BY DEF HardLinksInvariant, AbsentPaid, TypeOK
  <2> QED BY <1>2, <2>2, <2>3, AbsentFinite DEF AbsentPaid
<1> QED BY <1>2, <1>3, <1>4, <1>5, <1>6, <1>7, <1>9, EntryStep DEF HardLinksInvariant

LEMMA LinkDuplicatePreserves ==
    ASSUME HardLinksInvariant, LinkDuplicate
    PROVE  HardLinksInvariant'
BY LinkedPreserves, FailedPreserves DEF LinkDuplicate
-----------------------------------------------------------------------------
(***************************************************************************)
(* A kill, and writes of other programs.                                   *)
(***************************************************************************)
LEMMA KillPreserves ==
    ASSUME HardLinksInvariant, Kill
    PROVE  HardLinksInvariant'
<1>0. /\ pc' = "killed" /\ faults' = faults + 1 /\ faults \in Nat
      /\ UNCHANGED linkVars /\ UNCHANGED <<fileVars, scanVars, historyVars>>
  BY DEF Kill, Fault, HardLinksInvariant, TypeOK
<1>1. TypeOK'
  BY <1>0 DEF HardLinksInvariant, TypeOK, fileVars, scanVars, linkVars, historyVars,
              Inodes, Symlink, Content
<1>2. GroupsHavePeers' /\ GroupInHand'
  BY <1>0, QuietStep DEF HardLinksInvariant, GroupsHavePeers, GroupInHand, linkVars
<1>3. AbsentPaid'
  <2>1. Cardinality(AbsentNames) <= faults + 1
    BY <1>0, AbsentFinite DEF HardLinksInvariant, AbsentPaid
  <2> QED BY <1>0, <2>1, QuietStep DEF AbsentPaid
<1>4. \A m \in Names : Safe(m) => Safe(m)'
  BY <1>0 DEF Safe, linkVars, scanVars
<1> QED BY <1>0, <1>1, <1>2, <1>3, <1>4, QuietStep DEF HardLinksInvariant

LEMMA WritePreserves ==
    ASSUME HardLinksInvariant, NEW x \in Names, NEW c \in Content, Write(x, c)
    PROVE  HardLinksInvariant'
<1>0. /\ Target(x) # Absent /\ written' = written \cup {Target(x)}
      /\ data' = [data EXCEPT ![Target(x)] = c]
      /\ mtime' = [mtime EXCEPT ![Target(x)] = Now]
      /\ expect' = [m \in Names |-> IF Target(m) = Target(x) THEN c ELSE expect[m]]
      /\ UNCHANGED <<entry, seen, unread, groups, files, pc, faults, first>>
  BY DEF Write, scanVars, linkVars
<1>1. PICK t \in Inodes : t = Target(x)
  BY <1>0, TargetType DEF HardLinksInvariant
<1>2. /\ \A i \in Inodes : data'[i] = IF i = t THEN c ELSE data[i]
      /\ \A m \in Names : expect'[m] = IF Target(m) = t THEN c ELSE expect[m]
      /\ written' = written \cup {t}
  BY <1>0, <1>1 DEF HardLinksInvariant, TypeOK
<1>3. /\ \A m \in Names : Target(m)' = Target(m)
      /\ \A m \in Names : Peers(m)' = Peers(m)
      /\ \A N : LinkAmong(N)' = LinkAmong(N)
  <2>1. \A m : Target(m)' = Target(m) /\ Resolve(first, m)' = Resolve(first, m)
    BY <1>0 DEF Target, Resolve, Symlink, Inodes
  <2>2. \A m : Peers(m)' = Peers(m)
    BY <1>0 DEF Peers
  <2>3. \A N : LinkAmong(N)' = LinkAmong(N)
    BY <1>0 DEF LinkAmong, Symlink
  <2> QED BY <2>1, <2>2, <2>3
<1>4. TypeOK'
  <2>1. mtime' \in [Inodes -> Nat] /\ data' \in [Inodes -> Content]
    BY <1>0, <1>1, HardLinksAssumption DEF HardLinksInvariant, TypeOK
  <2>2. expect' \in [Names -> Content] /\ written' \in SUBSET Inodes
    BY <1>0, <1>2 DEF HardLinksInvariant, TypeOK
  <2> QED BY <1>0, <2>1, <2>2 DEF HardLinksInvariant, TypeOK, Inodes, Symlink, Content
<1>5. ScanLeavesAll'
  <2>1. ASSUME pc = "scan", NEW n \in Names PROVE Reads(n)' = expect'[n]
    <3>1. Target(n) \in Inodes /\ Target(n) # Absent
      BY <2>1, DirectoryResolves, HardLinksAssumption
      DEF HardLinksInvariant, ScanLeavesAll, Target, Inodes
    <3>2. Reads(n) = expect[n]
      BY <2>1 DEF HardLinksInvariant, ScanLeavesAll
    <3> QED BY <1>2, <1>3, <3>1, <3>2 DEF Reads
  <2> QED BY <1>0, <2>1 DEF HardLinksInvariant, ScanLeavesAll
<1>6. EntriesFromPeers'
  BY <1>0, <1>3 DEF HardLinksInvariant, EntriesFromPeers
<1>11. ReadersVouched'
  <2> SUFFICES ASSUME NEW n \in Names, entry[n] # Absent, ~LinkAmong(Peers(n))
               PROVE  \E m \in Names : Vouches(m, n)'
    BY <1>0, <1>3 DEF ReadersVouched
  <2>1. PICK m \in Names : Vouches(m, n)
    BY DEF HardLinksInvariant, ReadersVouched
  <2>2. Target(m) \in Inodes /\ Target(m) # Absent
    <3>1. entry[m] # Absent /\ Peers(m) = Peers(n)
      BY <2>1, PeersOfPeer DEF Vouches
    <3> QED BY <3>1, LeadsToPeer, HardLinksAssumption DEF HardLinksInvariant, Inodes
  <2>3. Reads(m)' = expect'[m]
    BY <1>2, <1>3, <2>1, <2>2 DEF Reads, Vouches
  <2>4. m = n \/ Safe(m)'
    BY <1>0, <2>1 DEF Vouches, Safe
  <2> QED BY <1>0, <1>3, <2>1, <2>3, <2>4 DEF Vouches
<1>12. GroupsHavePeers' /\ GroupInHand' /\ AbsentPaid'
  <2>1. (\A h : FilesWith(h)' = FilesWith(h)) /\ AbsentNames' = AbsentNames
    BY <1>0 DEF FilesWith, AbsentNames
  <2>2. GroupInHand'
    BY <1>0 DEF HardLinksInvariant, GroupInHand, Group, Original
  <2> QED BY <1>0, <2>1, <2>2
          DEF HardLinksInvariant, GroupsHavePeers, AbsentPaid, Duplicate
<1>13. first' \in Directories'
  BY <1>0 DEF HardLinksInvariant, Directories, Symlink, Inodes
<1> QED BY <1>4, <1>5, <1>6, <1>11, <1>12, <1>13 DEF HardLinksInvariant
-----------------------------------------------------------------------------
LEMMA HardLinksNext == HardLinksInvariant /\ [Next]_vars => HardLinksInvariant'
<1> SUFFICES ASSUME HardLinksInvariant, [Next]_vars PROVE HardLinksInvariant'
  OBVIOUS
<1>1. CASE ProgramStep
  BY <1>1, ScanPreserves, ScanEndsPreserves, BeginLinkingPreserves, NextGroupPreserves, EndLinkingPreserves,
     RemoveDuplicatePreserves, LinkDuplicatePreserves DEF ProgramStep
<1>2. CASE Kill
  BY <1>2, KillPreserves
<1>3. CASE \E n \in Names, c \in Content : Write(n, c)
  BY <1>3, WritePreserves
<1>4. CASE UNCHANGED vars
  <2>1. UNCHANGED <<fileVars, scanVars, historyVars>> /\ UNCHANGED <<linkVars, pc, faults>>
    BY <1>4 DEF vars
  <2>2. TypeOK'
    BY <2>1 DEF HardLinksInvariant, TypeOK, fileVars, scanVars, linkVars, historyVars,
                Inodes, Symlink, Content
  <2>3. GroupsHavePeers' /\ GroupInHand' /\ AbsentPaid'
    BY <2>1, QuietStep DEF HardLinksInvariant, GroupsHavePeers, GroupInHand, AbsentPaid,
                           Original, Duplicate, linkVars, fileVars, scanVars
  <2>4. \A m \in Names : Safe(m) => Safe(m)'
    BY <2>1 DEF Safe, linkVars, scanVars
  <2> QED BY <2>1, <2>2, <2>3, <2>4, QuietStep DEF HardLinksInvariant, linkVars
<1> QED BY <1>1, <1>2, <1>3, <1>4 DEF Next

LEMMA HardLinksInvariantHolds == Spec => []HardLinksInvariant
BY InitEstablishes, HardLinksNext, PTL DEF Spec

(***************************************************************************)
(* A name that is there and has no excuse reads as it should: who vouches  *)
(* for it has the same hash, so the full blocks agree, and the tails do.   *)
(***************************************************************************)
LEMMA ReadsAsExpected ==
    ASSUME HardLinksInvariant, NEW n \in Names, entry[n] # Absent, ~Excused(n)
    PROVE  Reads(n) = expect[n]
<1>1. PICK m \in Names : Vouches(m, n)
  BY DEF HardLinksInvariant, ReadersVouched, Excused
<1>2. CASE m = n
  BY <1>1, <1>2 DEF Vouches
<1>3. CASE m # n
  <2>1. seen[m] = seen[n] /\ seen[m] # NoHash /\ m \in Peers(n) /\ n \in Peers(n)
    BY <1>1, <1>3 DEF Vouches, Safe, Peers
  <2>2. expect[m].full = expect[n].full
    BY <2>1 DEF Excused, StaleAmong, Hash
  <2>3. expect[m].tail = expect[n].tail
    BY <2>1, <2>2 DEF Excused, TailsDiffer
  <2>4. expect[m] \in Content /\ expect[n] \in Content
    BY DEF HardLinksInvariant, TypeOK
  <2>5. expect[m] = expect[n]
    BY <2>2, <2>3, <2>4 DEF Content
  <2>6. entry[n] \notin Symlink
    BY LeadsToPeer DEF HardLinksInvariant, Excused
  <2>7. Target(n) = Target(m)
    BY <1>1, <2>6 DEF Vouches, Target, Resolve
  <2> QED BY <1>1, <2>5, <2>7 DEF Vouches, Reads
<1> QED BY <1>2, <1>3

(***************************************************************************)
(* Whichever files there are and whatever fails: of the names without an   *)
(* excuse, no more read something else than before than calls failed or    *)
(* kills came, the one between remove() and create_hard_link() aside       *)
(* (main.cpp:102-119).                                                     *)
(***************************************************************************)
THEOREM LossesArePaid == Spec => []EachLossHasAFault
<1>1. HardLinksInvariant => EachLossHasAFault
  <2> SUFFICES ASSUME HardLinksInvariant PROVE EachLossHasAFault
    OBVIOUS
  <2> DEFINE lost == {n \in Names : Lost(n) /\ ~Excused(n)}
  <2>1. lost \in SUBSET AbsentNames
    BY ReadsAsExpected DEF Lost, AbsentNames
  <2>2. Cardinality(lost) <= Cardinality(AbsentNames) /\ IsFiniteSet(lost)
    BY <2>1, AbsentFinite, FS_Subset
  <2>3. Cardinality(lost) \in Nat
    BY <2>2, FS_CardinalityType
  <2>4. /\ Cardinality(AbsentNames) <= faults + IF pc = "link" THEN 1 ELSE 0
        /\ faults \in Nat
    BY DEF HardLinksInvariant, AbsentPaid, TypeOK
  <2> HIDE DEF lost
  <2>5. Cardinality(lost) <= faults + IF pc = "link" THEN 1 ELSE 0
    BY <2>2, <2>3, <2>4, AbsentFinite
  <2> QED BY <2>5 DEF EachLossHasAFault, lost
<1> QED BY <1>1, HardLinksInvariantHolds, PTL

(***************************************************************************)
(* The variables of HardLinks have their types: among others, what a       *)
(* reader should see of a name is a content, and the sorted files are a    *)
(* sequence of names.                                                      *)
(***************************************************************************)
THEOREM TypeCorrect == Spec => []TypeOK
<1>1. HardLinksInvariant => TypeOK
  BY DEF HardLinksInvariant
<1> QED BY <1>1, HardLinksInvariantHolds, PTL
-----------------------------------------------------------------------------
(***************************************************************************)
(* The oldest file of each hash.                                           *)
(***************************************************************************)
Untouched(N) == ~LinkAmong(N) /\ ~WrittenAmong(N)

(***************************************************************************)
(* The inodes keep what the names they had at the start should read.       *)
(***************************************************************************)
InodesAsExpected ==
    \A n \in Names : Untouched(Peers(n)) => data[first[n]] = expect[n]

GroupsIntact == \A h \in groups : \A n \in FilesWith(h) : entry[n] = first[n]

KeptFor(m, n) == entry[m] = first[m] /\ mtime[first[m]] <= mtime[first[n]]

OlderKept ==
    \A n \in Names :
        seen[n] # NoHash /\ Untouched(Peers(n)) => \E m \in Peers(n) : KeptFor(m, n)

OriginalOldest ==
    pc \in {"remove", "link"} =>
        /\ seen[Original] \notin groups
        /\ Untouched(Peers(Original)) => \A n \in Peers(Original) : KeptFor(Original, n)

OldestInvariant == InodesAsExpected /\ GroupsIntact /\ OlderKept /\ OriginalOldest

(***************************************************************************)
(* While the directory is read, all entries are what they were.            *)
(***************************************************************************)
LEMMA OldestScanned == HardLinksInvariant /\ pc = "scan" => OldestInvariant
<1> SUFFICES ASSUME HardLinksInvariant, pc = "scan" PROVE OldestInvariant
  OBVIOUS
<1>1. /\ entry = first /\ groups = {} /\ TypeOK
      /\ \A n \in Names : Reads(n) = expect[n]
  BY DEF HardLinksInvariant, ScanLeavesAll
<1>2. ASSUME NEW n \in Names, Untouched(Peers(n))
      PROVE  first[n] \in Inodes /\ data[first[n]] = expect[n] /\ KeptFor(n, n)
  <2>1. first[n] \in Inodes
    BY <1>1, <1>2 DEF Peers, Untouched, LinkAmong, TypeOK
  <2>2. Target(n) = first[n] /\ Target(n) # Absent
    BY <1>1, <2>1, HardLinksAssumption DEF Target, Resolve, Inodes
  <2>3. mtime[first[n]] \in Nat
    BY <1>1, <2>1 DEF TypeOK
  <2> QED BY <1>1, <2>1, <2>2, <2>3 DEF Reads, KeptFor
<1>3. InodesAsExpected /\ OlderKept
  BY <1>2 DEF InodesAsExpected, OlderKept, Peers
<1> QED BY <1>1, <1>3 DEF OldestInvariant, GroupsIntact, OriginalOldest

(***************************************************************************)
(* A step that leaves the directory and the hashes alone keeps what does   *)
(* not speak of the group in hand.                                         *)
(***************************************************************************)
LEMMA OldestQuiet ==
    ASSUME OldestInvariant, UNCHANGED <<fileVars, seen, historyVars>>
    PROVE  /\ InodesAsExpected' /\ OlderKept'
           /\ groups' \subseteq groups => GroupsIntact'
           /\ pc \in {"remove", "link"} /\ Original' = Original /\ groups' = groups
                => OriginalOldest'
<1> USE DEF fileVars, historyVars
<1>1. /\ \A n : Peers(n)' = Peers(n)
      /\ \A N : Untouched(N)' <=> Untouched(N)
      /\ \A m, n : KeptFor(m, n)' <=> KeptFor(m, n)
  BY DEF Peers, Untouched, LinkAmong, WrittenAmong, Resolve, Symlink, Inodes, KeptFor
<1>2. InodesAsExpected'
  BY <1>1 DEF OldestInvariant, InodesAsExpected
<1>3. OlderKept'
  BY <1>1 DEF OldestInvariant, OlderKept
<1>4. groups' \subseteq groups => GroupsIntact'
  BY DEF OldestInvariant, GroupsIntact, FilesWith
<1>5. ASSUME pc \in {"remove", "link"}, Original' = Original, groups' = groups
      PROVE  OriginalOldest'
  BY <1>1, <1>5 DEF OldestInvariant, OriginalOldest
<1> QED BY <1>2, <1>3, <1>4, <1>5

(***************************************************************************)
(* sort(): the first of a group that is intact is the oldest of it.        *)
(***************************************************************************)
LEMMA FirstIsOldest ==
    ASSUME HardLinksInvariant, NEW h \in groups, NEW q \in SetToSeqs(FilesWith(h)),
           Sorted(q), \A n \in FilesWith(h) : entry[n] = first[n],
           NEW n \in FilesWith(h), Untouched(FilesWith(h))
    PROVE  q[1] \in FilesWith(h) /\ KeptFor(q[1], n)
<1> DEFINE S == FilesWith(h)
           k == Cardinality(S)
<1>1. S \in SUBSET Names /\ IsFiniteSet(Names)
  BY HardLinksAssumption DEF FilesWith
<1>2. k \in Nat
  BY <1>1, FS_Subset, FS_CardinalityType
<1>3. q \in Injection(1..k, S) /\ q \in [1..k -> S]
  BY DEF SetToSeqs, Injection, IsInjective
<1>4. PICK i \in 1..k : q[i] = n
  <2>1. IsFiniteSet(S)
    BY <1>1, FS_Subset
  <2>2. Cardinality(1..k) = k
    <3> HIDE DEF k
    <3>1. Cardinality(1..k) = IF 1 > k THEN 0 ELSE k - 1 + 1
      BY <1>2, FS_Interval
    <3> QED BY <1>2, <3>1
  <2>3. q \in Surjection(1..k, S)
    BY <1>3, <2>1, <2>2, FS_Injection
  <2> QED BY <2>3 DEF Surjection
<1>5. 1 \in 1..k /\ Len(q) = k
  BY <1>2, <1>3, <1>4
<1>6. \A m \in S : first[m] \in Inodes /\ Target(m) = first[m]
  BY <1>1 DEF Untouched, LinkAmong, HardLinksInvariant, TypeOK, Target, Resolve
<1>7. q[1] \in S /\ entry[q[1]] = first[q[1]]
  BY <1>3, <1>5
<1>8. mtime[first[q[1]]] \in Nat
  BY <1>6, <1>7 DEF HardLinksInvariant, TypeOK
<1>9. mtime[first[q[1]]] <= mtime[first[n]]
  <2>1. CASE i = 1
    BY <1>4, <1>8, <2>1
  <2>2. CASE i # 1
    <3>1. mtime[Target(q[1])] <= mtime[Target(q[i])]
      BY <1>2, <1>4, <1>5, <2>2 DEF Sorted
    <3> QED BY <1>4, <1>6, <1>7, <3>1
  <2> QED BY <2>1, <2>2
<1> QED BY <1>7, <1>9 DEF KeptFor

LEMMA OldestNextGroup ==
    ASSUME HardLinksInvariant, OldestInvariant, NEW h \in groups, NextGroup(h)
    PROVE  OldestInvariant'
<1>0. /\ UNCHANGED <<fileVars, seen, historyVars>> /\ groups' = groups \ {h}
      /\ pc' \in {"aborted", "remove"}
      /\ pc' = "remove" => files' \in SetToSeqs(FilesWith(h)) /\ Sorted(files')
  BY DEF NextGroup, scanVars
<1>1. CASE pc' = "aborted"
  BY <1>0, <1>1, OldestQuiet DEF OldestInvariant, OriginalOldest
<1>2. CASE pc' = "remove"
  <2>1. /\ h \in Blocks /\ h # NoHash /\ Cardinality(FilesWith(h)) > 1
        /\ \A n \in FilesWith(h) : entry[n] = first[n]
    BY DEF HardLinksInvariant, TypeOK, GroupsHavePeers, OldestInvariant, GroupsIntact
  <2>2. Original' \in FilesWith(h)
    BY <1>0, <1>2, <2>1, SortedIsGroup DEF HardLinksInvariant, Original
  <2>3. PICK o \in FilesWith(h) : o = Original'
    BY <2>2
  <2>4. seen'[o] = h /\ Peers(o)' = FilesWith(h)
    BY <1>0, <2>3 DEF FilesWith, Peers
  <2>5. ASSUME Untouched(FilesWith(h)), NEW n \in FilesWith(h) PROVE KeptFor(o, n)
    BY <1>0, <1>2, <2>1, <2>3, <2>5, FirstIsOldest DEF Original
  <2>6. /\ Untouched(Peers(o))' => Untouched(FilesWith(h))
        /\ \A n : KeptFor(o, n) => KeptFor(o, n)'
    BY <1>0, <2>4 DEF Untouched, LinkAmong, WrittenAmong, Resolve, Symlink, Inodes,
                      KeptFor, fileVars, historyVars
  <2>7. OriginalOldest'
    BY <1>0, <2>3, <2>4, <2>5, <2>6 DEF OriginalOldest
  <2> QED BY <1>0, <2>7, OldestQuiet DEF OldestInvariant
<1> QED BY <1>0, <1>1, <1>2
-----------------------------------------------------------------------------
(***************************************************************************)
(* Removing and linking changes one entry, that of a duplicate: of all     *)
(* files of its hash the original is the oldest, and no group to come is   *)
(* of its hash.                                                            *)
(***************************************************************************)
LEMMA OldestOneEntry ==
    ASSUME HardLinksInvariant, OldestInvariant, pc \in {"remove", "link"},
           NEW x, entry' = [entry EXCEPT ![Duplicate] = x],
           UNCHANGED <<data, mtime, scanVars, groups, historyVars>>,
           x = Absent \/ entry[Duplicate] = Absent,
           pc' \in {"remove", "link"} => Original' = Original
    PROVE  OldestInvariant'
<1>0. /\ Original \in Names /\ Duplicate \in Names /\ Duplicate # Original
      /\ seen[Original] = seen[Duplicate] /\ Peers(Original) = Peers(Duplicate)
      /\ seen[Original] \notin groups
  BY DuplicateFacts DEF OldestInvariant, OriginalOldest
<1>1. \A n \in Names : n # Duplicate => entry'[n] = entry[n]
  BY <1>0 DEF HardLinksInvariant, TypeOK
<1>2. /\ \A n : Peers(n)' = Peers(n)
      /\ \A N : Untouched(N)' <=> Untouched(N)
      /\ \A m \in Names : \A n : m # Duplicate => (KeptFor(m, n)' <=> KeptFor(m, n))
  BY <1>1 DEF Peers, Untouched, LinkAmong, WrittenAmong, Resolve, Symlink, Inodes, KeptFor,
              scanVars, historyVars
<1>3. InodesAsExpected'
  BY <1>2 DEF OldestInvariant, InodesAsExpected, historyVars
<1>4. GroupsIntact'
  BY <1>0, <1>1 DEF OldestInvariant, GroupsIntact, FilesWith, scanVars, historyVars
<1>5. OriginalOldest'
  BY <1>0, <1>2 DEF OldestInvariant, OriginalOldest, scanVars
<1>6. OlderKept'
  <2> SUFFICES ASSUME NEW n \in Names, seen[n] # NoHash, Untouched(Peers(n))
               PROVE  \E m \in Peers(n) : KeptFor(m, n)'
    BY <1>2 DEF OlderKept, scanVars
  <2>1. CASE n \in Peers(Original)
    <3>1. Peers(n) = Peers(Original) /\ Original \in Peers(n)
      BY <1>0, <2>1 DEF Peers
    <3>2. KeptFor(Original, n)
      BY <2>1, <3>1 DEF OldestInvariant, OriginalOldest
    <3> QED BY <1>0, <1>2, <3>1, <3>2
  <2>2. CASE n \notin Peers(Original)
    <3>1. PICK m \in Peers(n) : KeptFor(m, n)
      BY DEF OldestInvariant, OlderKept
    <3>2. m \in Names /\ m # Duplicate
      BY <1>0, <2>2 DEF Peers
    <3> QED BY <1>2, <3>1, <3>2
  <2> QED BY <2>1, <2>2
<1> QED BY <1>3, <1>4, <1>5, <1>6 DEF OldestInvariant

LEMMA OriginalStays ==
    ASSUME HardLinksInvariant, pc \in {"remove", "link"}, NextDuplicate
    PROVE  pc' \in {"remove", "link"} => Original' = Original
<1> SUFFICES ASSUME pc' \in {"remove", "link"} PROVE Original' = Original
  OBVIOUS
<1>1. Group(files)
  BY DEF HardLinksInvariant, GroupInHand
<1>2. Len(files) > 2 /\ files' = RemoveAt(files, 2)
  BY DEF NextDuplicate
<1> QED BY <1>1, <1>2, GroupShrinks DEF Original

LEMMA OldestRemoveDuplicate ==
    ASSUME HardLinksInvariant, OldestInvariant, RemoveDuplicate
    PROVE  OldestInvariant'
<1>0. pc = "remove" /\ UNCHANGED <<data, mtime, scanVars, groups, historyVars>>
  BY DEF RemoveDuplicate
<1>1. CASE entry' = [entry EXCEPT ![Duplicate] = Absent] /\ UNCHANGED files
  BY <1>0, <1>1, OldestOneEntry DEF Original
<1>2. CASE NextDuplicate /\ UNCHANGED entry
  <2>1. CASE pc' \in {"remove", "link"}
    BY <1>0, <1>2, <2>1, OriginalStays, OldestQuiet
    DEF OldestInvariant, fileVars, scanVars
  <2>2. CASE pc' \notin {"remove", "link"}
    BY <1>0, <1>2, <2>2, OldestQuiet
    DEF OldestInvariant, OriginalOldest, fileVars, scanVars
  <2> QED BY <2>1, <2>2
<1>3. CASE pc' = "aborted" /\ UNCHANGED entry
  BY <1>0, <1>3, OldestQuiet DEF OldestInvariant, OriginalOldest, fileVars, scanVars
<1> QED BY <1>1, <1>2, <1>3 DEF RemoveDuplicate

LEMMA OldestLinkDuplicate ==
    ASSUME HardLinksInvariant, OldestInvariant, LinkDuplicate
    PROVE  OldestInvariant'
<1>0. /\ pc = "link" /\ UNCHANGED <<data, mtime, scanVars, groups, historyVars>>
      /\ NextDuplicate /\ entry[Duplicate] = Absent
  BY DEF LinkDuplicate, HardLinksInvariant, AbsentPaid
<1>1. CASE entry' = [entry EXCEPT ![Duplicate] = entry[Original]]
  BY <1>0, <1>1, OriginalStays, OldestOneEntry
<1>2. CASE UNCHANGED entry
  <2>1. CASE pc' \in {"remove", "link"}
    BY <1>0, <1>2, <2>1, OriginalStays, OldestQuiet
    DEF OldestInvariant, fileVars, scanVars
  <2>2. CASE pc' \notin {"remove", "link"}
    BY <1>0, <1>2, <2>2, OldestQuiet
    DEF OldestInvariant, OriginalOldest, fileVars, scanVars
  <2> QED BY <2>1, <2>2
<1> QED BY <1>1, <1>2 DEF LinkDuplicate

(***************************************************************************)
(* A write to an inode changes what all its names should read; it is newer *)
(* than before, but then its files are not untouched.                      *)
(***************************************************************************)
LEMMA OldestWrite ==
    ASSUME HardLinksInvariant, OldestInvariant, NEW x \in Names, NEW c \in Content,
           Write(x, c)
    PROVE  OldestInvariant'
<1>0. /\ Target(x) # Absent /\ written' = written \cup {Target(x)}
      /\ data' = [data EXCEPT ![Target(x)] = c]
      /\ mtime' = [mtime EXCEPT ![Target(x)] = Now]
      /\ expect' = [m \in Names |-> IF Target(m) = Target(x) THEN c ELSE expect[m]]
      /\ UNCHANGED <<entry, seen, groups, files, pc, first>>
  BY DEF Write, scanVars, linkVars
<1>1. PICK t \in Inodes : t = Target(x)
  BY <1>0, TargetType DEF HardLinksInvariant
<1>2. /\ \A i \in Inodes : i # t => data'[i] = data[i] /\ mtime'[i] = mtime[i]
      /\ \A m \in Names : Target(m) # t => expect'[m] = expect[m]
      /\ written' = written \cup {t}
  BY <1>0, <1>1 DEF HardLinksInvariant, TypeOK
<1>3. \A n : Peers(n)' = Peers(n)
  BY <1>0 DEF Peers
<1>4. ASSUME NEW n \in Names, Untouched(Peers(n))'
      PROVE  /\ Untouched(Peers(n))
             /\ \A m \in Peers(n) : first[m] \in Inodes /\ first[m] # t
             /\ \A m, k \in Peers(n) : KeptFor(m, k) => KeptFor(m, k)'
  <2>1. \A m \in Peers(n) : /\ first[m] \in Inodes /\ Resolve(first, m) = first[m]
                            /\ first[m] \notin written'
    BY <1>0, <1>3, <1>4 DEF Untouched, LinkAmong, WrittenAmong, Peers, Resolve,
                            HardLinksInvariant, TypeOK, Symlink, Inodes
  <2>2. Untouched(Peers(n))
    BY <1>0, <1>3, <1>4, <2>1 DEF Untouched, LinkAmong, WrittenAmong, Symlink
  <2>3. \A m \in Peers(n) : mtime'[first[m]] = mtime[first[m]]
    BY <1>2, <2>1
  <2> QED BY <1>0, <1>2, <2>1, <2>2, <2>3 DEF KeptFor
<1>5. InodesAsExpected'
  <2> SUFFICES ASSUME NEW n \in Names, Untouched(Peers(n))'
               PROVE  data'[first[n]] = expect'[n]
    BY <1>0 DEF InodesAsExpected
  <2>1. /\ \A m \in Peers(n) : first[m] \in Inodes /\ first[m] # t
        /\ Untouched(Peers(n))
    BY <1>4
  <2>2. n \in Peers(n)
    BY DEF Peers
  <2>3. Target(n) # t
    <3>1. CASE entry[n] = Absent
      BY <3>1, HardLinksAssumption DEF Target, Resolve, Inodes
    <3>2. CASE entry[n] # Absent
      BY <2>1, <3>2, LeadsToPeer DEF Untouched, HardLinksInvariant
    <3> QED BY <3>1, <3>2
  <2> QED BY <1>2, <2>1, <2>2, <2>3 DEF OldestInvariant, InodesAsExpected
<1>6. OlderKept'
  <2> SUFFICES ASSUME NEW n \in Names, seen[n] # NoHash, Untouched(Peers(n))'
               PROVE  \E m \in Peers(n) : KeptFor(m, n)'
    BY <1>0, <1>3 DEF OlderKept
  <2>1. PICK m \in Peers(n) : KeptFor(m, n)
    BY <1>4 DEF OldestInvariant, OlderKept
  <2> QED BY <1>4, <2>1 DEF Peers
<1>7. GroupsIntact'
  BY <1>0 DEF OldestInvariant, GroupsIntact, FilesWith
<1>8. OriginalOldest'
  <2>1. CASE pc \in {"remove", "link"}
    <3>1. PICK o \in Names : o = Original /\ o = Original' /\ o \in Peers(o)
      BY <1>0, <2>1, DuplicateFacts DEF Peers, Original
    <3>2. /\ seen'[o] = seen[o] /\ seen[o] \notin groups'
          /\ Untouched(Peers(o)) => \A n \in Peers(o) : KeptFor(o, n)
      BY <1>0, <2>1, <3>1 DEF OldestInvariant, OriginalOldest
    <3>3. Untouched(Peers(o))' => \A n \in Peers(o) : KeptFor(o, n)'
      BY <1>4, <3>1, <3>2
    <3> QED BY <1>3, <3>1, <3>2, <3>3 DEF OriginalOldest
  <2>2. CASE pc \notin {"remove", "link"}
    BY <1>0, <2>2 DEF OriginalOldest
  <2> QED BY <2>1, <2>2
<1> QED BY <1>5, <1>6, <1>7, <1>8 DEF OldestInvariant

LEMMA OldestNext ==
    HardLinksInvariant /\ HardLinksInvariant' /\ OldestInvariant /\ [Next]_vars
        => OldestInvariant'
<1> SUFFICES ASSUME HardLinksInvariant, HardLinksInvariant', OldestInvariant, [Next]_vars
             PROVE  OldestInvariant'
  OBVIOUS
<1>1. CASE ScanEnds \/ \E n \in Names : Scan(n)
  <2>1. pc' = "scan"
    BY <1>1 DEF Scan, ScanEnds
  <2>2. (HardLinksInvariant /\ pc = "scan" => OldestInvariant)'
    BY OldestScanned, PTL
  <2> QED BY <2>1, <2>2
<1>2. CASE BeginLinking
  <2>1. /\ UNCHANGED <<fileVars, seen, historyVars>> /\ pc' = "group" /\ entry = first
    BY <1>2 DEF BeginLinking, scanVars, HardLinksInvariant, ScanLeavesAll
  <2>2. GroupsIntact' /\ OriginalOldest'
    BY <2>1 DEF GroupsIntact, OriginalOldest, FilesWith, fileVars, historyVars
  <2> QED BY <2>1, <2>2, OldestQuiet DEF OldestInvariant
<1>3. CASE \E h \in groups : NextGroup(h)
  BY <1>3, OldestNextGroup
<1>4. CASE EndLinking \/ Kill
  BY <1>4, OldestQuiet
  DEF EndLinking, Kill, OldestInvariant, OriginalOldest, linkVars, scanVars
<1>5. CASE RemoveDuplicate
  BY <1>5, OldestRemoveDuplicate
<1>6. CASE LinkDuplicate
  BY <1>6, OldestLinkDuplicate
<1>7. CASE \E n \in Names, c \in Content : Write(n, c)
  BY <1>7, OldestWrite
<1>8. CASE UNCHANGED vars
  <2>1. UNCHANGED <<fileVars, seen, historyVars>> /\ UNCHANGED <<groups, files, pc>>
    BY <1>8 DEF vars, scanVars, linkVars
  <2>2. OriginalOldest'
    BY <2>1, OldestQuiet DEF OldestInvariant, OriginalOldest, Original
  <2> QED BY <2>1, <2>2, OldestQuiet DEF OldestInvariant
<1> QED BY <1>1, <1>2, <1>3, <1>4, <1>5, <1>6, <1>7, <1>8 DEF Next, ProgramStep

(***************************************************************************)
(* Whatever fails, and whenever the program is killed, the oldest file of  *)
(* each hash reads as before, whole, symbolic links and writes aside:      *)
(* sort() puts it first, nothing is removed before, and the first is never *)
(* removed (main.cpp:96-119).                                              *)
(***************************************************************************)
THEOREM OldestFileSurvives == Spec => []OriginalSurvives
<1>1. HardLinksInvariant /\ OldestInvariant => OriginalSurvives
  <2> SUFFICES ASSUME HardLinksInvariant, OldestInvariant, NEW n \in Names,
                      seen[n] # NoHash, ~LinkAmong(Peers(n)), ~WrittenAmong(Peers(n))
               PROVE  \E m \in Peers(n) : ~Lost(m) /\ mtime[first[m]] <= mtime[first[n]]
    BY DEF OriginalSurvives
  <2>1. PICK m \in Peers(n) : KeptFor(m, n)
    BY DEF OldestInvariant, OlderKept, Untouched
  <2>2. m \in Names /\ entry[m] = first[m] /\ first[m] \notin Symlink
    BY <2>1 DEF KeptFor, Peers, LinkAmong
  <2>3. first[m] \in Inodes /\ Target(m) = first[m] /\ first[m] \notin written
    BY <2>2 DEF HardLinksInvariant, TypeOK, Target, Resolve, WrittenAmong
  <2>4. Reads(m) = data[first[m]]
    BY <2>3, HardLinksAssumption DEF Reads, Inodes
  <2>5. data[first[m]] = expect[m]
    BY <2>2, PeersOfPeer DEF OldestInvariant, InodesAsExpected, Untouched
  <2> QED BY <2>1, <2>4, <2>5 DEF KeptFor, Lost
<1>2. Init => pc = "scan"
  BY DEF Init
<1> QED BY <1>1, <1>2, HardLinksInvariantHolds, OldestScanned, OldestNext, PTL DEF Spec
=============================================================================
