------------------------------ MODULE HardLinks -----------------------------
(***************************************************************************)
(* unix_lab3/main.cpp: hashes the files of a directory and replaces all    *)
(* but the oldest file of each hash by hard links to the oldest.           *)
(*                                                                         *)
(* A directory entry is a name of an inode or a symbolic link.  Other      *)
(* programs may write to the files while this one runs, calls may fail,    *)
(* and the program may be killed between removing a duplicate and linking  *)
(* its name anew.  The statistics it prints are left out.                  *)
(***************************************************************************)
EXTENDS Naturals, Sequences, FiniteSets, SequencesExt

CONSTANTS Names,
          Blocks,      \* what the full 4096-byte blocks of a file may hold
          Tails,       \* what its last, partial block may hold
          Times, Now,  \* modification times before the run, and during it
          Absent, NoHash,
          MaxFaults, MaxWrites

VARIABLES entry,    \* entry[n]: an inode, a symbolic link, or Absent
          data,     \* data[i]: content of inode i
          mtime,    \* mtime[i]: its last_write_time
          seen,     \* hashMap, as seen[n]: the hash recorded for n
          unread,   \* names the directory iterator has not come to
          groups,   \* hashes createHardLinks has still to go through
          files,    \* the sorted files of the current one from the original on
          pc,
          faults,
          first, expect, written   \* history, see below

Inodes == Names
Content == [full : Blocks, tail : Tails]
Symlink == [to : Names]

ASSUME HardLinksAssumption ==
    /\ IsFiniteSet(Names) /\ Times \subseteq Nat /\ Now \in Nat
    /\ NoHash \notin Blocks /\ NoHash \notin Content
    /\ Absent \notin Names \cup Symlink
    /\ Symlink \cap Names = {}
    /\ MaxFaults \in Nat /\ MaxWrites \in Nat

fileVars == <<entry, data, mtime>>
scanVars == <<seen, unread>>
linkVars == <<groups, files>>
historyVars == <<first, expect, written>>
vars == <<fileVars, scanVars, linkVars, pc, faults, historyVars>>
-----------------------------------------------------------------------------
(***************************************************************************)
(* The inode a path leads to, symbolic links followed; Absent if it does   *)
(* not lead anywhere.                                                      *)
(***************************************************************************)
Resolve(e, n) ==
    IF e[n] \in Symlink
    THEN IF e[e[n].to] \in Inodes THEN e[e[n].to] ELSE Absent
    ELSE e[n]

Target(n) == Resolve(entry, n)
Reads(n) == IF Target(n) = Absent THEN Absent ELSE data[Target(n)]

(***************************************************************************)
(* calculateSHA1: file.read() of the last, partial block fails, and the    *)
(* loop ends before it is hashed.  (SizeOnly is a slip.)                   *)
(***************************************************************************)
SizeOnly(c) == "size"

Hash(c) == c.full

(***************************************************************************)
(* Files and symbolic links to files.  first and expect remember the       *)
(* entries and what a reader of each name should see.                      *)
(***************************************************************************)
Directories ==
    {e \in [Names -> Inodes \cup Symlink] :
        \A n \in Names : IF e[n] \in Symlink THEN e[e[n].to] \in Inodes
                         ELSE e[e[n]] = e[n]}

Init ==
    /\ entry \in Directories
    /\ data \in [Inodes -> Content]
    /\ mtime \in [Inodes -> Times]
    /\ seen = [n \in Names |-> NoHash]
    /\ unread = Names
    /\ groups = {} /\ files = <<>>
    /\ pc = "scan"
    /\ faults = 0
    /\ first = entry
    /\ expect = [n \in Names |-> Reads(n)]
    /\ written = {}

Fault == faults < MaxFaults /\ faults' = faults + 1

(***************************************************************************)
(* One file of scanDirectory: hashed and recorded; skipped because it      *)
(* cannot be opened; or hashed as far as it could be read, because a read  *)
(* that fails ends the loop like the end of the file does.                 *)
(***************************************************************************)
Scan(n) ==
    /\ pc = "scan"
    /\ n \in unread
    /\ unread' = unread \ {n}
    /\ \/ seen' = [seen EXCEPT ![n] = Hash(Reads(n))] /\ UNCHANGED faults
       \/ UNCHANGED seen /\ Fault
       \/ (\E h \in Blocks : seen' = [seen EXCEPT ![n] = h]) /\ Fault
    /\ UNCHANGED <<fileVars, linkVars, pc, historyVars>>

(***************************************************************************)
(* The directory iterator throws: the outer catch ends the scan, and the   *)
(* files found so far are linked.                                          *)
(***************************************************************************)
ScanEnds ==
    /\ pc = "scan" /\ unread # {}
    /\ unread' = {}
    /\ Fault
    /\ UNCHANGED <<fileVars, linkVars, seen, pc, historyVars>>

FilesWith(h) == {n \in Names : seen[n] = h}

BeginLinking ==
    /\ pc = "scan" /\ unread = {}
    /\ groups' = {h \in {seen[n] : n \in Names} \ {NoHash} : Cardinality(FilesWith(h)) > 1}
    /\ pc' = "group"
    /\ UNCHANGED <<fileVars, scanVars, files, faults, historyVars>>

(***************************************************************************)
(* sort() by last_write_time, which throws for a path that leads nowhere;  *)
(* nothing catches that.  NewestFirst is a slip: the comparison the other  *)
(* way round.                                                              *)
(***************************************************************************)
NewestFirst(q) ==
    \A i, k \in 1..Len(q) : i < k => mtime[Target(q[i])] >= mtime[Target(q[k])]

Sorted(q) ==
    \A i, k \in 1..Len(q) : i < k => mtime[Target(q[i])] <= mtime[Target(q[k])]

NextGroup(h) ==
    /\ pc = "group" /\ h \in groups
    /\ groups' = groups \ {h}
    /\ IF \E n \in FilesWith(h) : Target(n) = Absent
       THEN pc' = "aborted" /\ UNCHANGED files
       ELSE /\ files' \in {q \in SetToSeqs(FilesWith(h)) : Sorted(q)}
            /\ pc' = "remove"
    /\ UNCHANGED <<fileVars, scanVars, faults, historyVars>>

EndLinking ==
    /\ pc = "group" /\ groups = {}
    /\ pc' = "done"
    /\ UNCHANGED <<fileVars, scanVars, linkVars, faults, historyVars>>

(***************************************************************************)
(* files[1] is the original, files[2] the duplicate in hand.  Afterwards   *)
(* the loop goes on with the next duplicate or the next group.  StopsShort *)
(* is a slip: the last duplicate is left out.                              *)
(***************************************************************************)
Original == files[1]
Duplicate == files[2]

StopsShort ==
    /\ files' = IF Len(files) > 3 THEN RemoveAt(files, 2) ELSE <<>>
    /\ pc' = IF Len(files) > 3 THEN "remove" ELSE "group"

NextDuplicate ==
    /\ files' = IF Len(files) > 2 THEN RemoveAt(files, 2) ELSE <<>>
    /\ pc' = IF Len(files) > 2 THEN "remove" ELSE "group"

(***************************************************************************)
(* file_size() throws where nothing catches it; remove() where it is       *)
(* caught.                                                                 *)
(***************************************************************************)
RemoveDuplicate ==
    /\ pc = "remove"
    /\ IF Target(Duplicate) = Absent
       THEN pc' = "aborted" /\ UNCHANGED <<entry, files, faults>>
       ELSE \/ /\ entry' = [entry EXCEPT ![Duplicate] = Absent]
               /\ pc' = "link"
               /\ UNCHANGED <<files, faults>>
            \/ Fault /\ NextDuplicate /\ UNCHANGED entry
    /\ UNCHANGED <<data, mtime, scanVars, groups, historyVars>>

(***************************************************************************)
(* create_hard_link links the directory entry itself: the original may be  *)
(* a symbolic link, and then so is the new name.                           *)
(***************************************************************************)
LinkDuplicate ==
    /\ pc = "link"
    /\ \/ entry' = [entry EXCEPT ![Duplicate] = entry[Original]] /\ UNCHANGED faults
       \/ UNCHANGED entry /\ Fault
    /\ NextDuplicate
    /\ UNCHANGED <<data, mtime, scanVars, groups, historyVars>>

Kill ==
    /\ pc \notin {"done", "aborted", "killed"}
    /\ pc' = "killed"
    /\ Fault
    /\ UNCHANGED <<fileVars, scanVars, linkVars, historyVars>>

(***************************************************************************)
(* Another program writes to a file in place: every name of it reads that. *)
(***************************************************************************)
Write(n, c) ==
    /\ Target(n) # Absent
    /\ written' = written \cup {Target(n)}
    /\ Cardinality(written') <= MaxWrites
    /\ data' = [data EXCEPT ![Target(n)] = c]
    /\ mtime' = [mtime EXCEPT ![Target(n)] = Now]
    /\ expect' = [m \in Names |-> IF Target(m) = Target(n) THEN c ELSE expect[m]]
    /\ UNCHANGED <<entry, scanVars, linkVars, pc, faults, first>>

ProgramStep ==
    \/ \E n \in Names : Scan(n)
    \/ ScanEnds
    \/ BeginLinking
    \/ \E h \in groups : NextGroup(h)
    \/ EndLinking
    \/ RemoveDuplicate
    \/ LinkDuplicate

Next ==
    \/ ProgramStep
    \/ Kill
    \/ \E n \in Names, c \in Content : Write(n, c)

Spec == Init /\ [][Next]_vars
-----------------------------------------------------------------------------
TypeOK ==
    /\ entry \in [Names -> Inodes \cup Symlink \cup {Absent}]
    /\ data \in [Inodes -> Content]
    /\ mtime \in [Inodes -> Nat]
    /\ seen \in [Names -> Blocks \cup {NoHash}]
    /\ unread \in SUBSET Names
    /\ groups \in SUBSET Blocks
    /\ files \in Seq(Names)
    /\ pc \in {"scan", "group", "remove", "link", "done", "aborted", "killed"}
    /\ faults \in Nat
    /\ first \in [Names -> Inodes \cup Symlink]
    /\ expect \in [Names -> Content]
    /\ written \in SUBSET Inodes

Peers(n) == {m \in Names : seen[m] = seen[n]}
Lost(n) == Reads(n) # expect[n]

LinkAmong(N) == \E m \in N : first[m] \in Symlink
WrittenAmong(N) == \E m \in N : Resolve(first, m) \in written

(***************************************************************************)
(* What the program cannot cope with: a symbolic link among the files, a   *)
(* hash that is not that of what a file should read as, because it could   *)
(* be read in part only or was written to since, and files that differ     *)
(* only in a last partial block, which is not hashed.                      *)
(***************************************************************************)
StaleAmong(N) == \E m \in N : seen[m] \notin {NoHash, Hash(expect[m])}
TailsDiffer(n) ==
    \E m \in Peers(n) : expect[m].full = expect[n].full /\ expect[m].tail # expect[n].tail

Excused(n) == LinkAmong(Peers(n)) \/ StaleAmong(Peers(n)) \/ TailsDiffer(n)

(***************************************************************************)
(* Replacing duplicates changes what no name reads ("Замена дубликатов на  *)
(* жёсткие ссылки", main.cpp:83): a name that reads something else than    *)
(* before costs a failed call or a kill of its own, one file each, or has  *)
(* one of the three excuses above.  That a file was written to is none.    *)
(***************************************************************************)
EachLossHasAFault ==
    Cardinality({n \in Names : Lost(n) /\ ~Excused(n)})
        <= faults + IF pc = "link" THEN 1 ELSE 0

(***************************************************************************)
(* The oldest file of a hash is kept as it was, whole, whatever fails and  *)
(* whenever the program is killed ("старший файл будет оригиналом",        *)
(* main.cpp:96): for each file that was hashed there is one of its hash,   *)
(* and no newer than it, under whose name one still reads all that should  *)
(* be there.  So where equal hashes mean equal contents, each content      *)
(* survives; and where tails differ, that of the oldest file does.         *)
(* Symbolic links and writes are aside.                                    *)
(***************************************************************************)
OriginalSurvives ==
    \A n \in Names :
        seen[n] # NoHash /\ ~LinkAmong(Peers(n)) /\ ~WrittenAmong(Peers(n)) =>
            \E m \in Peers(n) : ~Lost(m) /\ mtime[first[m]] <= mtime[first[n]]

(***************************************************************************)
(* What the program is for ("Остальные заменяются на жёсткие ссылки",      *)
(* main.cpp:106): after a run that ends undisturbed all names of one hash  *)
(* are the entry that one of them was, and if nobody wrote meanwhile, none *)
(* of the others was older.  So this is what becomes of files that differ  *)
(* only in their tails, and of a symbolic link that is sorted first.       *)
(***************************************************************************)
OneFilePerHash ==
    pc = "done" /\ faults = 0 =>
        \A n \in Names : \E o \in Peers(n) : \A m \in Peers(n) :
            /\ entry[m] = first[o]
            /\ written = {} => mtime[Resolve(first, o)] <= mtime[Resolve(first, m)]
=============================================================================
