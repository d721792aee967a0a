------------------------------ MODULE LabProofs ------------------------------
(***************************************************************************)
(* What is proved of three small programs: that the containers of          *)
(* unix_lab2 (SharedFiles) never use one name at a time and each finds in  *)
(* its file what it wrote; that the threads of os_lab1 (EventMonitor)      *)
(* never wait together and the slot neither loses nor repeats an event;    *)
(* that the server of os_lab2 (SighupServer) blocks nowhere but in pselect *)
(* and reports no signal twice.  The programs share nothing.               *)
(***************************************************************************)
EXTENDS SharedFiles, EventMonitor, SighupServer, SequenceTheorems, FiniteSetTheorems, TLAPS

(***************************************************************************)
(* SharedFiles, for any number of containers, rounds and crashes.          *)
(*                                                                         *)
(* A container that writes or removes its file holds no lock, so the proof *)
(* cannot rest on mutual exclusion alone: it needs that whoever is in the  *)
(* critical section holds the lock, that the name it found free stays free *)
(* until it creates the file, and that everybody else's file exists.       *)
(***************************************************************************)
LEMMA InitEstablishes == Init => SharedFilesInvariant
  BY DEF Init, SharedFilesInvariant, TypeOK, LockHeld, OwnContent, NameExclusive,
         Holds, InCriticalSection

(***************************************************************************)
(* Commands that do not touch the volume.                                  *)
(***************************************************************************)
LEMMA FlockPreserves ==
  ASSUME SharedFilesInvariant, NEW c \in Containers, Flock(c)
  PROVE  SharedFilesInvariant'
<1> USE DEF Flock, Step, Holds, InCriticalSection, Exists
<1>1. TypeOK'
  BY DEF SharedFilesInvariant, TypeOK, ReadableFile
<1>2. LockHeld'
  BY SharedFilesAssumption DEF SharedFilesInvariant, TypeOK, LockHeld
<1>3. OwnContent'
  BY DEF SharedFilesInvariant, TypeOK, OwnContent
<1>4. NameExclusive'
  BY DEF SharedFilesInvariant, TypeOK, NameExclusive
<1> QED BY <1>1, <1>2, <1>3, <1>4 DEF SharedFilesInvariant

LEMMA NameTakenPreserves ==
  ASSUME SharedFilesInvariant, NEW c \in Containers, NameTaken(c)
  PROVE  SharedFilesInvariant'
<1> USE DEF NameTaken, Step, Holds, InCriticalSection, Exists
<1>1. TypeOK'
  BY DEF SharedFilesInvariant, TypeOK, ReadableFile
<1>2. LockHeld'
  BY DEF SharedFilesInvariant, TypeOK, LockHeld
<1>3. OwnContent'
  BY DEF SharedFilesInvariant, TypeOK, OwnContent
<1>4. NameExclusive'
  BY DEF SharedFilesInvariant, TypeOK, NameExclusive
<1> QED BY <1>1, <1>2, <1>3, <1>4 DEF SharedFilesInvariant

LEMMA NameFreePreserves ==
  ASSUME SharedFilesInvariant, NEW c \in Containers, NameFree(c)
  PROVE  SharedFilesInvariant'
<1> USE DEF NameFree, Step, Holds, InCriticalSection, Exists
<1>1. TypeOK'
  BY DEF SharedFilesInvariant, TypeOK, ReadableFile
<1>2. LockHeld'
  BY DEF SharedFilesInvariant, TypeOK, LockHeld
<1>3. OwnContent'
  BY DEF SharedFilesInvariant, TypeOK, OwnContent
<1>4. NameExclusive'
  BY DEF SharedFilesInvariant, TypeOK, NameExclusive
<1> QED BY <1>1, <1>2, <1>3, <1>4 DEF SharedFilesInvariant

LEMMA UnlockPreserves ==
  ASSUME SharedFilesInvariant, NEW c \in Containers, Unlock(c)
  PROVE  SharedFilesInvariant'
<1> USE DEF Unlock, Step, Holds, InCriticalSection, Exists
<1>1. TypeOK'
  BY DEF SharedFilesInvariant, TypeOK, ReadableFile
<1>2. LockHeld'
  BY DEF SharedFilesInvariant, TypeOK, LockHeld
<1>3. OwnContent'
  BY DEF SharedFilesInvariant, TypeOK, OwnContent
<1>4. NameExclusive'
  BY DEF SharedFilesInvariant, TypeOK, NameExclusive
<1> QED BY <1>1, <1>2, <1>3, <1>4 DEF SharedFilesInvariant

LEMMA CrashPreserves ==
  ASSUME SharedFilesInvariant, NEW c \in Containers, Crash(c)
  PROVE  SharedFilesInvariant'
<1> USE DEF Crash, Holds, InCriticalSection, Exists
<1>1. TypeOK'
  BY DEF SharedFilesInvariant, TypeOK, ReadableFile
<1>2. LockHeld'
  BY DEF SharedFilesInvariant, TypeOK, LockHeld
<1>3. OwnContent'
  BY DEF SharedFilesInvariant, TypeOK, OwnContent
<1>4. NameExclusive'
  BY DEF SharedFilesInvariant, TypeOK, NameExclusive
<1> QED BY <1>1, <1>2, <1>3, <1>4 DEF SharedFilesInvariant

LEMMA StartPreserves ==
  ASSUME SharedFilesInvariant, NEW c \in Containers, Start(c)
  PROVE  SharedFilesInvariant'
<1> USE DEF Start, Step, Holds, InCriticalSection, Exists
<1>1. TypeOK'
  BY DEF SharedFilesInvariant, TypeOK, ReadableFile
<1>2. LockHeld'
  BY DEF SharedFilesInvariant, TypeOK, LockHeld
<1>3. OwnContent'
  BY DEF SharedFilesInvariant, TypeOK, OwnContent
<1>4. NameExclusive'
  BY DEF SharedFilesInvariant, TypeOK, NameExclusive
<1> QED BY <1>1, <1>2, <1>3, <1>4 DEF SharedFilesInvariant

(***************************************************************************)
(* A redirection adds its file to the volume and leaves the others alone.  *)
(***************************************************************************)
LEMMA WriteLemma ==
  ASSUME NEW n, NEW lines, Write(n, lines)
  PROVE  /\ DOMAIN files' = DOMAIN files \cup {n}
         /\ files'[n] = lines
         /\ \A m \in DOMAIN files : m # n => files'[m] = files[m]
  BY DEF Write

LEMMA RemoveLemma ==
  ASSUME NEW n, Remove(n)
  PROVE  /\ DOMAIN files' = DOMAIN files \ {n}
         /\ \A m \in DOMAIN files' : files'[m] = files[m]
  BY DEF Remove

(***************************************************************************)
(* Create is where exclusion comes from: the name is free, and each other  *)
(* holder's file exists, so it has another name.                           *)
(***************************************************************************)
LEMMA CreatePreserves ==
  ASSUME SharedFilesInvariant, NEW c \in Containers, Create(c)
  PROVE  SharedFilesInvariant'
<1> USE DEF Step, Holds, InCriticalSection, Exists
<1>1. /\ name[c] \in Nat /\ name[c] \notin DOMAIN files
      /\ DOMAIN files' = DOMAIN files \cup {name[c]}
      /\ files'[name[c]] = <<>>
      /\ \A m \in DOMAIN files : m # name[c] => files'[m] = files[m]
  BY WriteLemma DEF Create, SharedFilesInvariant, TypeOK, LockHeld
<1>2. TypeOK'
  <2>1. ReadableFile(<<>>)
    BY DEF ReadableFile
  <2>2. \A n \in DOMAIN files' : ReadableFile(files'[n])
    BY <1>1, <2>1 DEF SharedFilesInvariant, TypeOK
  <2> QED BY <1>1, <2>2 DEF Create, SharedFilesInvariant, TypeOK, ReadableFile
<1>3. LockHeld'
  BY <1>1 DEF Create, SharedFilesInvariant, TypeOK, LockHeld
<1>4. OwnContent'
  BY <1>1 DEF Create, SharedFilesInvariant, TypeOK, OwnContent
<1>5. NameExclusive'
  BY <1>1 DEF Create, SharedFilesInvariant, TypeOK, OwnContent, NameExclusive
<1> QED BY <1>2, <1>3, <1>4, <1>5 DEF SharedFilesInvariant

LEMMA WriteIdPreserves ==
  ASSUME SharedFilesInvariant, NEW c \in Containers, WriteId(c)
  PROVE  SharedFilesInvariant'
<1> USE DEF Step, Holds, InCriticalSection, Exists
<1>1. /\ name[c] \in DOMAIN files
      /\ DOMAIN files' = DOMAIN files
      /\ files'[name[c]] = <<c>>
      /\ \A m \in DOMAIN files : m # name[c] => files'[m] = files[m]
  <2>1. name[c] \in DOMAIN files
    BY DEF WriteId, SharedFilesInvariant, OwnContent
  <2>2. Write(name[c], <<c>>)
    BY DEF WriteId
  <2> QED BY <2>1, <2>2 DEF Write
<1>2. TypeOK'
  <2>1. ReadableFile(<<c>>)
    BY DEF ReadableFile
  <2>2. \A n \in DOMAIN files' : ReadableFile(files'[n])
    BY <1>1, <2>1 DEF SharedFilesInvariant, TypeOK
  <2> QED BY <1>1, <2>2 DEF WriteId, SharedFilesInvariant, TypeOK, ReadableFile
<1>3. LockHeld'
  BY <1>1 DEF WriteId, SharedFilesInvariant, TypeOK, LockHeld
<1>4. OwnContent'
  BY <1>1 DEF WriteId, SharedFilesInvariant, TypeOK, OwnContent, NameExclusive
<1>5. NameExclusive'
  BY DEF WriteId, SharedFilesInvariant, TypeOK, NameExclusive
<1> QED BY <1>2, <1>3, <1>4, <1>5 DEF SharedFilesInvariant

LEMMA AppendPair ==
  ASSUME NEW x, NEW y
  PROVE  Append(<<x>>, y) = <<x, y>>
<1>1. /\ <<x>> \in Seq({x, y})
      /\ <<x, y>> \in Seq({x, y})
      /\ Append(<<x>>, y) \in Seq({x, y})
  OBVIOUS
<1>2. /\ Len(<<x, y>>) = Len(Append(<<x>>, y))
      /\ \A k \in 1..Len(<<x, y>>) : <<x, y>>[k] = Append(<<x>>, y)[k]
  BY <1>1
<1> QED BY <1>1, <1>2, SeqEqual

LEMMA WriteSeqPreserves ==
  ASSUME SharedFilesInvariant, NEW c \in Containers, WriteSeq(c)
  PROVE  SharedFilesInvariant'
<1> USE DEF Step, Holds, InCriticalSection, Exists
<1>1. /\ name[c] \in DOMAIN files
      /\ files[name[c]] = <<c>>
      /\ seq[c] \in Nat
  BY DEF WriteSeq, SharedFilesInvariant, TypeOK, OwnContent
<1>2. Append(<<c>>, seq[c]) = <<c, seq[c]>>
  BY <1>1, AppendPair
<1>3. /\ DOMAIN files' = DOMAIN files
      /\ files'[name[c]] = <<c, seq[c]>>
      /\ \A m \in DOMAIN files : m # name[c] => files'[m] = files[m]
  BY <1>1, <1>2 DEF WriteSeq, Write
<1>4. TypeOK'
  <2>1. ReadableFile(<<c, seq[c]>>)
    BY <1>1 DEF ReadableFile
  <2>2. \A n \in DOMAIN files' : ReadableFile(files'[n])
    BY <1>3, <2>1 DEF SharedFilesInvariant, TypeOK
  <2> QED BY <1>3, <2>2 DEF WriteSeq, SharedFilesInvariant, TypeOK, ReadableFile
<1>5. LockHeld'
  BY <1>3 DEF WriteSeq, SharedFilesInvariant, TypeOK, LockHeld
<1>6. OwnContent'
  BY <1>3 DEF WriteSeq, SharedFilesInvariant, TypeOK, OwnContent, NameExclusive
<1>7. NameExclusive'
  BY DEF WriteSeq, SharedFilesInvariant, TypeOK, NameExclusive
<1> QED BY <1>4, <1>5, <1>6, <1>7 DEF SharedFilesInvariant

LEMMA RmPreserves ==
  ASSUME SharedFilesInvariant, NEW c \in Containers, Rm(c)
  PROVE  SharedFilesInvariant'
<1> USE DEF Step, Holds, InCriticalSection, Exists
<1>1. /\ DOMAIN files' = DOMAIN files \ {name[c]}
      /\ \A m \in DOMAIN files' : files'[m] = files[m]
  BY RemoveLemma DEF Rm
<1>2. TypeOK'
  BY <1>1 DEF Rm, SharedFilesInvariant, TypeOK, ReadableFile
<1>3. LockHeld'
  BY <1>1 DEF Rm, SharedFilesInvariant, TypeOK, LockHeld
<1>4. OwnContent'
  BY <1>1 DEF Rm, SharedFilesInvariant, TypeOK, OwnContent, NameExclusive
<1>5. NameExclusive'
  BY DEF Rm, SharedFilesInvariant, TypeOK, NameExclusive
<1> QED BY <1>2, <1>3, <1>4, <1>5 DEF SharedFilesInvariant

LEMMA NextPreserves ==
  SharedFilesInvariant /\ [Next]_vars => SharedFilesInvariant'
<1> SUFFICES ASSUME SharedFilesInvariant, [Next]_vars PROVE SharedFilesInvariant'
  OBVIOUS
<1>1. ASSUME NEW c \in Containers, Run(c) PROVE SharedFilesInvariant'
  BY <1>1, FlockPreserves, NameTakenPreserves, NameFreePreserves, CreatePreserves,
     UnlockPreserves, WriteIdPreserves, WriteSeqPreserves, RmPreserves DEF Run
<1>2. CASE UNCHANGED vars
  BY <1>2 DEF vars, SharedFilesInvariant, TypeOK, ReadableFile, LockHeld, OwnContent,
     NameExclusive, Holds, InCriticalSection, Exists
<1> QED BY <1>1, <1>2, CrashPreserves, StartPreserves DEF Next

(***************************************************************************)
(* The invariant holds throughout.                                         *)
(***************************************************************************)
THEOREM SharedFilesInvariantHolds == Spec => []SharedFilesInvariant
  BY InitEstablishes, NextPreserves, PTL DEF Spec

(***************************************************************************)
(* No two containers use one name at a time (entrypoint.sh:26-66), for any *)
(* number of containers and crashes.                                       *)
(***************************************************************************)
THEOREM NamesExclusive == Spec => []NameExclusive
<1>1. SharedFilesInvariant => NameExclusive
  BY DEF SharedFilesInvariant
<1> QED BY <1>1, SharedFilesInvariantHolds, PTL

(***************************************************************************)
(* A container's file holds what it wrote until it removes it              *)
(* (entrypoint.sh:53-62), though it writes without the lock.               *)
(***************************************************************************)
THEOREM ContentsOwn == Spec => []OwnContent
<1>1. SharedFilesInvariant => OwnContent
  BY DEF SharedFilesInvariant
<1> QED BY <1>1, SharedFilesInvariantHolds, PTL

(***************************************************************************)
(* Every file is readable at any moment of its writing (entrypoint.sh:38-56). *)
(***************************************************************************)
THEOREM TypeCorrect == Spec => []TypeOK
<1>1. SharedFilesInvariant => TypeOK
  BY DEF SharedFilesInvariant
<1> QED BY <1>1, SharedFilesInvariantHolds, PTL
-----------------------------------------------------------------------------
(***************************************************************************)
(* NamesBounded rests on counting: files against holders and crashes, and  *)
(* names that vanished under a scan against containers without a file.     *)
(***************************************************************************)
LEMMA FiniteGroup ==
  ASSUME NEW S, S \subseteq Containers
  PROVE  /\ IsFiniteSet(S) /\ Cardinality(S) \in Nat
         /\ Cardinality(S) <= Cardinality(Containers)
  BY SharedFilesAssumption, FS_Subset, FS_CardinalityType

LEMMA DisjointUnion ==
  ASSUME NEW S, NEW T, IsFiniteSet(S), IsFiniteSet(T), S \cap T = {}
  PROVE  /\ IsFiniteSet(S \cup T)
         /\ Cardinality(S \cup T) = Cardinality(S) + Cardinality(T)
<1>1. Cardinality(S \cap T) = 0
  BY FS_EmptySet
<1>2. Cardinality(S) \in Nat /\ Cardinality(T) \in Nat
  BY FS_CardinalityType
<1>3. /\ IsFiniteSet(S \cup T)
      /\ Cardinality(S \cup T) = Cardinality(S) + Cardinality(T) - Cardinality(S \cap T)
  BY FS_Union
<1> QED BY <1>1, <1>2, <1>3

LEMMA OneMore ==
  ASSUME NEW S, NEW x, IsFiniteSet(S)
  PROVE  /\ IsFiniteSet(S \cup {x}) /\ Cardinality(S \cup {x}) \in Nat
         /\ Cardinality(S \cup {x}) <= Cardinality(S) + 1
<1>1. Cardinality(S) \in Nat
  BY FS_CardinalityType
<1>2. /\ IsFiniteSet(S \cup {x})
      /\ Cardinality(S \cup {x}) = IF x \in S THEN Cardinality(S) ELSE Cardinality(S) + 1
  BY FS_AddElement
<1> QED BY <1>1, <1>2

LEMMA OneLess ==
  ASSUME NEW S, NEW x, IsFiniteSet(S)
  PROVE  /\ IsFiniteSet(S \ {x}) /\ Cardinality(S \ {x}) \in Nat
         /\ Cardinality(S \ {x}) >= Cardinality(S) - 1
<1>1. Cardinality(S) \in Nat
  BY FS_CardinalityType
<1>2. /\ IsFiniteSet(S \ {x})
      /\ Cardinality(S \ {x}) = IF x \in S THEN Cardinality(S) - 1 ELSE Cardinality(S)
  BY FS_RemoveElement
<1>3. Cardinality(S \ {x}) \in Nat
  BY <1>2, FS_CardinalityType
<1> QED BY <1>1, <1>2, <1>3

LEMMA VanishedFinite ==
  ASSUME TypeOK, NEW c \in Containers
  PROVE  IsFiniteSet(Vanished(c)) /\ Cardinality(Vanished(c)) \in Nat
<1>1. name[c] - 1 \in Int
  BY DEF TypeOK
<1>2. IsFiniteSet(1..(name[c] - 1))
  BY <1>1, FS_Interval
<1>3. Vanished(c) \in SUBSET (1..(name[c] - 1))
  BY DEF Vanished
<1> QED BY <1>2, <1>3, FS_Subset, FS_CardinalityType

LEMMA NamesInit == Init => NamesInvariant
<1> SUFFICES ASSUME Init PROVE NamesInvariant
  OBVIOUS
<1>1. DOMAIN files = {}
  BY DEF Init
<1>2. Cardinality(Holders) \in Nat
  BY FiniteGroup DEF Holders
<1>3. FilesAccounted
  BY <1>1, <1>2, FS_EmptySet DEF FilesAccounted, Init
<1>4. NamesBounded /\ ScansAccounted
  BY <1>1 DEF NamesBounded, ScansAccounted, Init
<1> QED BY <1>3, <1>4 DEF NamesInvariant

(***************************************************************************)
(* A step that changes neither the names on the volume nor who holds one.  *)
(* A scan starts at 1 or steps over a name that is taken.                  *)
(***************************************************************************)
LEMMA QuietNames ==
  ASSUME NamesInvariant,
         DOMAIN files' = DOMAIN files,
         \A c \in Containers : Holds(c)' <=> Holds(c),
         crashes' = crashes,
         \A c \in Containers :
             /\ name'[c] > 0
             /\ cmd'[c] \in {"scan", "create"} =>
                    \/ cmd[c] \in {"scan", "create"} /\ Vanished(c)' = Vanished(c)
                    \/ Vanished(c)' = {}
  PROVE  NamesInvariant'
<1>1. Holders' = Holders
  BY DEF Holders
<1>2. ASSUME NEW c \in Containers PROVE Idle(c)' = Idle(c)
  BY DEF Idle
<1>3. NamesBounded'
  BY DEF NamesInvariant, NamesBounded
<1>4. FilesAccounted'
  BY <1>1 DEF NamesInvariant, FilesAccounted
<1>5. ASSUME NEW c \in Containers, cmd'[c] \in {"scan", "create"}
      PROVE  Cardinality(Vanished(c)') <= Cardinality(Idle(c)')
  <2>1. Cardinality(Idle(c)) \in Nat
    BY FiniteGroup DEF Idle
  <2>2. CASE cmd[c] \in {"scan", "create"} /\ Vanished(c)' = Vanished(c)
    BY <2>2, <1>2 DEF NamesInvariant, ScansAccounted
  <2>3. CASE Vanished(c)' = {}
    BY <2>1, <2>3, <1>2, FS_EmptySet
  <2> QED BY <1>5, <2>2, <2>3
<1>6. ScansAccounted'
  BY <1>5 DEF ScansAccounted
<1> QED BY <1>3, <1>4, <1>6 DEF NamesInvariant

LEMMA QuietRunNames ==
  ASSUME SharedFilesInvariant, NamesInvariant, NEW c \in Containers,
         Flock(c) \/ NameTaken(c) \/ NameFree(c) \/ Unlock(c) \/ Start(c)
  PROVE  NamesInvariant'
<1> USE DEF Flock, NameTaken, NameFree, Unlock, Start, Step, Exists
<1>1. DOMAIN files' = DOMAIN files /\ crashes' = crashes
  OBVIOUS
<1>2. \A d \in Containers : Holds(d)' <=> Holds(d)
  BY DEF SharedFilesInvariant, TypeOK, Holds
<1>3. ASSUME NEW d \in Containers
      PROVE  /\ name'[d] > 0
             /\ cmd'[d] \in {"scan", "create"} =>
                    \/ cmd[d] \in {"scan", "create"} /\ Vanished(d)' = Vanished(d)
                    \/ Vanished(d)' = {}
  <2>1. name \in [Containers -> Nat] /\ name[d] > 0
    BY DEF SharedFilesInvariant, TypeOK, NamesInvariant, ScansAccounted
  <2>2. CASE Flock(c)
    BY <2>1, <2>2 DEF SharedFilesInvariant, TypeOK, Vanished
  <2>3. CASE NameTaken(c)
    <3>1. CASE d = c
      <4>1. name'[c] = name[c] + 1 /\ name[c] \in DOMAIN files /\ cmd[c] = "scan"
        BY <2>1, <2>3
      <4>2. 1..(name'[c] - 1) = 1..(name[c] - 1) \cup {name[c]}
        BY <2>1, <4>1, <3>1
      <4>3. Vanished(c)' = Vanished(c)
        BY <1>1, <4>1, <4>2 DEF Vanished
      <4> QED BY <2>1, <3>1, <4>1, <4>3
    <3>2. CASE d # c
      BY <2>1, <2>3, <3>2 DEF SharedFilesInvariant, TypeOK, Vanished
    <3> QED BY <3>1, <3>2
  <2>4. CASE NameFree(c) \/ Unlock(c) \/ Start(c)
    BY <2>1, <2>4 DEF SharedFilesInvariant, TypeOK, Vanished
  <2> QED BY <2>2, <2>3, <2>4
<1> QED BY <1>1, <1>2, <1>3, QuietNames

(***************************************************************************)
(* printf into a file that is there.                                       *)
(***************************************************************************)
LEMMA WriteNames ==
  ASSUME SharedFilesInvariant, NamesInvariant, NEW c \in Containers,
         WriteId(c) \/ WriteSeq(c)
  PROVE  NamesInvariant'
<1> USE DEF WriteId, WriteSeq, Step
<1>1. name[c] \in DOMAIN files
  BY DEF SharedFilesInvariant, OwnContent, Holds, Exists
<1>2. DOMAIN files' = DOMAIN files
  BY <1>1 DEF Write, Exists
<1>3. crashes' = crashes /\ name' = name
  OBVIOUS
<1>4. \A d \in Containers : Holds(d)' <=> Holds(d)
  BY DEF SharedFilesInvariant, TypeOK, Holds
<1>5. \A d \in Containers : name'[d] > 0
  BY <1>3 DEF NamesInvariant, ScansAccounted
<1>6. \A d \in Containers : cmd'[d] \in {"scan", "create"} => cmd[d] \in {"scan", "create"}
  BY DEF SharedFilesInvariant, TypeOK
<1>7. \A d \in Containers : Vanished(d)' = Vanished(d)
  BY <1>2, <1>3 DEF Vanished
<1> QED BY <1>2, <1>3, <1>4, <1>5, <1>6, <1>7, QuietNames

(***************************************************************************)
(* The name a scan has come to is at most one above the names taken then,  *)
(* and those are accounted for by the other containers and the crashes.    *)
(***************************************************************************)
LEMMA FoundNameBounded ==
  ASSUME SharedFilesInvariant, NamesInvariant, NEW c \in Containers,
         cmd[c] = "create"
  PROVE  name[c] \in 1..(Cardinality(Containers) + crashes)
<1> DEFINE n == name[c] - 1
           F == DOMAIN files
<1>1. n \in Nat /\ crashes \in Nat
  BY DEF SharedFilesInvariant, TypeOK, NamesInvariant, ScansAccounted
<1>2. IsFiniteSet(1..n) /\ Cardinality(1..n) = n
  <2> HIDE DEF n
  <2>1. 1 \in Int /\ n \in Int /\ (IF 1 > n THEN 0 ELSE n - 1 + 1) = n
    BY <1>1
  <2> QED BY <2>1, FS_Interval
<1>3. IsFiniteSet(F) /\ Cardinality(F) \in Nat
      /\ Cardinality(F) <= Cardinality(Holders) + crashes
  BY FS_CardinalityType DEF NamesInvariant, FilesAccounted
<1>4. /\ IsFiniteSet(Vanished(c)) /\ Cardinality(Vanished(c)) \in Nat
      /\ Cardinality(Vanished(c)) <= Cardinality(Idle(c))
  BY VanishedFinite DEF SharedFilesInvariant, NamesInvariant, ScansAccounted
<1>5. n <= Cardinality(Vanished(c)) + Cardinality(F)
  <2>1. Vanished(c) \cap F = {}
    BY DEF Vanished
  <2>2. /\ IsFiniteSet(Vanished(c) \cup F)
        /\ Cardinality(Vanished(c) \cup F) = Cardinality(Vanished(c)) + Cardinality(F)
    BY <2>1, <1>3, <1>4, DisjointUnion
  <2>3. (1..n) \in SUBSET (Vanished(c) \cup F)
    BY DEF Vanished
  <2>4. Cardinality(1..n) <= Cardinality(Vanished(c) \cup F)
    BY <2>2, <2>3, FS_Subset
  <2> QED BY <1>2, <2>2, <2>4
<1>6. Cardinality(Idle(c)) + Cardinality(Holders) <= Cardinality(Containers) - 1
  <2>1. /\ IsFiniteSet(Idle(c)) /\ Cardinality(Idle(c)) \in Nat
        /\ IsFiniteSet(Holders) /\ Cardinality(Holders) \in Nat
    BY FiniteGroup DEF Idle, Holders
  <2>2. Idle(c) \cap Holders = {}
    BY DEF Idle, Holders
  <2>3. /\ IsFiniteSet(Idle(c) \cup Holders)
        /\ Cardinality(Idle(c) \cup Holders) = Cardinality(Idle(c)) + Cardinality(Holders)
    BY <2>1, <2>2, DisjointUnion
  <2>4. (Idle(c) \cup Holders) \in SUBSET (Containers \ {c})
    BY DEF Idle, Holders, Holds
  <2>5. /\ IsFiniteSet(Containers \ {c})
        /\ Cardinality(Containers \ {c}) = Cardinality(Containers) - 1
    BY SharedFilesAssumption, FS_RemoveElement
  <2>6. Cardinality(Idle(c) \cup Holders) <= Cardinality(Containers \ {c})
    BY <2>4, <2>5, FS_Subset
  <2> QED BY <2>3, <2>5, <2>6
<1>7. /\ Cardinality(Idle(c)) \in Nat /\ Cardinality(Holders) \in Nat
      /\ Cardinality(Containers) \in Nat
  BY FiniteGroup DEF Idle, Holders
<1>8. n <= Cardinality(Containers) - 1 + crashes
  BY <1>1, <1>3, <1>4, <1>5, <1>6, <1>7
<1>9. name[c] \in Nat /\ name[c] = n + 1
  BY DEF SharedFilesInvariant, TypeOK
<1> HIDE DEF n
<1> QED BY <1>1, <1>7, <1>8, <1>9

LEMMA CreateNames ==
  ASSUME SharedFilesInvariant, NamesInvariant, NEW c \in Containers, Create(c)
  PROVE  NamesInvariant'
<1> USE DEF Create, Step
<1>1. DOMAIN files' = DOMAIN files \cup {name[c]} /\ crashes' = crashes /\ name' = name
  BY DEF Write
<1>2. NamesBounded'
  BY <1>1, FoundNameBounded DEF NamesInvariant, NamesBounded
<1>3. Holders' = Holders \cup {c} /\ c \notin Holders
  BY DEF SharedFilesInvariant, TypeOK, Holders, Holds
<1>4. FilesAccounted'
  <2>1. /\ IsFiniteSet(Holders) /\ Cardinality(Holders) \in Nat
        /\ crashes \in Nat
    BY FiniteGroup DEF Holders, SharedFilesInvariant, TypeOK
  <2>2. Cardinality(Holders') = Cardinality(Holders) + 1
    BY <1>3, <2>1, FS_AddElement
  <2>3. /\ IsFiniteSet(DOMAIN files) /\ Cardinality(DOMAIN files) \in Nat
        /\ Cardinality(DOMAIN files) <= Cardinality(Holders) + crashes
    BY FS_CardinalityType DEF NamesInvariant, FilesAccounted
  <2>4. /\ IsFiniteSet(DOMAIN files')
        /\ Cardinality(DOMAIN files') <= Cardinality(DOMAIN files) + 1
    BY <1>1, <2>3, OneMore
  <2>5. Cardinality(DOMAIN files') \in Nat
    BY <2>4, FS_CardinalityType
  <2> QED BY <1>1, <2>1, <2>2, <2>3, <2>4, <2>5 DEF FilesAccounted
<1>5. \A d \in Containers : cmd'[d] \notin {"scan", "create"}
  BY DEF SharedFilesInvariant, TypeOK, LockHeld, InCriticalSection
<1>6. ScansAccounted'
  BY <1>1, <1>5 DEF NamesInvariant, ScansAccounted
<1> QED BY <1>2, <1>4, <1>6 DEF NamesInvariant

LEMMA RmNames ==
  ASSUME SharedFilesInvariant, NamesInvariant, NEW c \in Containers, Rm(c)
  PROVE  NamesInvariant'
<1> USE DEF Rm, Step
<1>1. DOMAIN files' = DOMAIN files \ {name[c]} /\ crashes' = crashes /\ name' = name
  BY DEF Remove
<1>2. name[c] \in DOMAIN files
  BY DEF SharedFilesInvariant, OwnContent, Holds, Exists
<1>3. NamesBounded'
  BY <1>1 DEF NamesInvariant, NamesBounded
<1>4. Holders' = Holders \ {c} /\ c \in Holders
  BY DEF SharedFilesInvariant, TypeOK, Holders, Holds
<1>5. FilesAccounted'
  <2>1. /\ IsFiniteSet(Holders) /\ Cardinality(Holders) \in Nat
        /\ crashes \in Nat
    BY FiniteGroup DEF Holders, SharedFilesInvariant, TypeOK
  <2>2. Cardinality(Holders') = Cardinality(Holders) - 1
    BY <1>4, <2>1, FS_RemoveElement
  <2>3. /\ IsFiniteSet(DOMAIN files) /\ Cardinality(DOMAIN files) \in Nat
        /\ Cardinality(DOMAIN files) <= Cardinality(Holders) + crashes
    BY FS_CardinalityType DEF NamesInvariant, FilesAccounted
  <2>4. /\ IsFiniteSet(DOMAIN files')
        /\ Cardinality(DOMAIN files') = Cardinality(DOMAIN files) - 1
    BY <1>1, <1>2, <2>3, FS_RemoveElement
  <2> QED BY <1>1, <2>1, <2>2, <2>3, <2>4 DEF FilesAccounted
<1>6. ASSUME NEW d \in Containers, cmd'[d] \in {"scan", "create"}
      PROVE  Cardinality(Vanished(d)') <= Cardinality(Idle(d)')
  <2>1. d # c /\ cmd[d] \in {"scan", "create"}
    BY <1>6 DEF SharedFilesInvariant, TypeOK
  <2>2. Idle(d)' = Idle(d) \cup {c} /\ c \notin Idle(d)
    BY <2>1 DEF SharedFilesInvariant, TypeOK, Idle, Holds
  <2>3. IsFiniteSet(Idle(d)) /\ Cardinality(Idle(d)) \in Nat
    BY FiniteGroup DEF Idle
  <2>4. Cardinality(Idle(d)') = Cardinality(Idle(d)) + 1
    BY <2>2, <2>3, FS_AddElement
  <2>5. /\ IsFiniteSet(Vanished(d)) /\ Cardinality(Vanished(d)) \in Nat
        /\ Cardinality(Vanished(d)) <= Cardinality(Idle(d))
    BY <2>1, VanishedFinite DEF SharedFilesInvariant, NamesInvariant, ScansAccounted
  <2>6. Vanished(d)' \in SUBSET (Vanished(d) \cup {name[c]})
    BY <1>1 DEF Vanished
  <2>7. /\ IsFiniteSet(Vanished(d) \cup {name[c]})
        /\ Cardinality(Vanished(d) \cup {name[c]}) <= Cardinality(Vanished(d)) + 1
    BY <2>5, OneMore
  <2>8. /\ Cardinality(Vanished(d)') <= Cardinality(Vanished(d) \cup {name[c]})
        /\ Cardinality(Vanished(d)') \in Nat
        /\ Cardinality(Vanished(d) \cup {name[c]}) \in Nat
    BY <2>6, <2>7, FS_Subset, FS_CardinalityType
  <2> QED BY <2>3, <2>4, <2>5, <2>7, <2>8
<1>7. ScansAccounted'
  BY <1>1, <1>6 DEF NamesInvariant, ScansAccounted
<1> QED BY <1>3, <1>5, <1>7 DEF NamesInvariant

(***************************************************************************)
(* A killed holder leaves its file: one holder less, one crash more.       *)
(***************************************************************************)
LEMMA CrashNames ==
  ASSUME SharedFilesInvariant, NamesInvariant, NEW c \in Containers, Crash(c)
  PROVE  NamesInvariant'
<1> USE DEF Crash
<1>1. /\ DOMAIN files' = DOMAIN files /\ name' = name
      /\ crashes \in Nat /\ crashes' = crashes + 1
  BY DEF SharedFilesInvariant, TypeOK
<1>2. Cardinality(Containers) \in Nat
  BY FiniteGroup
<1>3. NamesBounded'
  BY <1>1, <1>2 DEF NamesInvariant, NamesBounded
<1>4. Holders' = Holders \ {c}
  BY DEF SharedFilesInvariant, TypeOK, Holders, Holds
<1>5. FilesAccounted'
  <2>1. IsFiniteSet(Holders) /\ Cardinality(Holders) \in Nat
    BY FiniteGroup DEF Holders
  <2>2. /\ Cardinality(Holders') >= Cardinality(Holders) - 1
        /\ Cardinality(Holders') \in Nat
    BY <1>4, <2>1, OneLess
  <2>3. /\ IsFiniteSet(DOMAIN files) /\ Cardinality(DOMAIN files) \in Nat
        /\ Cardinality(DOMAIN files) <= Cardinality(Holders) + crashes
    BY FS_CardinalityType DEF NamesInvariant, FilesAccounted
  <2>4. Cardinality(DOMAIN files) <= Cardinality(Holders') + (crashes + 1)
    BY <1>1, <2>1, <2>2, <2>3
  <2> QED BY <1>1, <2>3, <2>4 DEF FilesAccounted
<1>6. ASSUME NEW d \in Containers, cmd'[d] \in {"scan", "create"}
      PROVE  Cardinality(Vanished(d)') <= Cardinality(Idle(d)')
  <2>1. d # c /\ cmd[d] \in {"scan", "create"}
    BY <1>6 DEF SharedFilesInvariant, TypeOK
  <2>2. Vanished(d)' = Vanished(d)
    BY <1>1 DEF Vanished
  <2>3. Idle(d) \in SUBSET (Idle(d)')
    BY DEF SharedFilesInvariant, TypeOK, Idle, Holds
  <2>4. /\ IsFiniteSet(Idle(d)') /\ Cardinality(Idle(d)') \in Nat
        /\ Cardinality(Idle(d)) \in Nat
    BY FiniteGroup DEF Idle
  <2>5. Cardinality(Idle(d)) <= Cardinality(Idle(d)')
    BY <2>3, <2>4, FS_Subset
  <2>6. /\ Cardinality(Vanished(d)) <= Cardinality(Idle(d))
        /\ Cardinality(Vanished(d)) \in Nat
    BY <2>1, VanishedFinite DEF SharedFilesInvariant, NamesInvariant, ScansAccounted
  <2> QED BY <2>2, <2>4, <2>5, <2>6
<1>7. ScansAccounted'
  BY <1>1, <1>6 DEF NamesInvariant, ScansAccounted
<1> QED BY <1>3, <1>5, <1>7 DEF NamesInvariant

LEMMA NamesNext ==
  ASSUME SharedFilesInvariant, NamesInvariant, [Next]_vars
  PROVE  NamesInvariant'
<1>1. ASSUME NEW c \in Containers, Run(c) PROVE NamesInvariant'
  BY <1>1, QuietRunNames, WriteNames, CreateNames, RmNames DEF Run
<1>2. CASE UNCHANGED vars
  BY <1>2 DEF vars, NamesInvariant, NamesBounded, FilesAccounted, ScansAccounted,
     Holders, Holds, Vanished, Idle
<1> QED BY <1>1, <1>2, CrashNames, QuietRunNames DEF Next

(***************************************************************************)
(* However many containers run and are killed, the names in use stay among *)
(* the first ones (entrypoint.sh:33-43): the scan is never driven beyond   *)
(* them by files that vanish under it (entrypoint.sh:62).                  *)
(***************************************************************************)
THEOREM NamesStayLow == Spec => []NamesBounded
<1>1. NamesInvariant => NamesBounded
  BY DEF NamesInvariant
<1>2. SharedFilesInvariant /\ NamesInvariant /\ [Next]_vars => NamesInvariant'
  BY NamesNext
<1> QED
  BY <1>1, <1>2, NamesInit, SharedFilesInvariantHolds, PTL DEF Spec
-----------------------------------------------------------------------------
(***************************************************************************)
(* EventMonitor, for any number of events.                                 *)
(***************************************************************************)
LEMMA MonitorInitEstablishes == MonitorInit => MonitorInvariant
<1> SUFFICES ASSUME MonitorInit PROVE MonitorInvariant
  OBVIOUS
<1>1. MonitorTypeOK
  <2>1. event \in 0..EventCount /\ ev \in 0..EventCount /\ i \in 1..(EventCount + 1)
    BY CountAssumption DEF MonitorInit, NoEvent
  <2>2. /\ sent \in Seq(Nat) /\ received \in Seq(Nat)
        /\ waitSet \subseteq {"producer", "consumer"}
    BY DEF MonitorInit
  <2>3. /\ hasEvent \in BOOLEAN /\ isShutdown \in BOOLEAN /\ producerDone \in BOOLEAN
        /\ ppc = "make" /\ cpc = "wait" /\ mpc = "joinProducer"
    BY DEF MonitorInit
  <2> QED BY <2>1, <2>2, <2>3 DEF MonitorTypeOK
<1>2. WaitersHaveReason /\ InOrder
  BY DEF MonitorInit, WaitersHaveReason, InOrder
<1>3. ThreadsInStep
  BY DEF MonitorInit, ThreadsInStep
<1> QED BY <1>1, <1>2, <1>3 DEF MonitorInvariant

(***************************************************************************)
(* Steps of the producer.                                                  *)
(***************************************************************************)
LEMMA MakeEventPreserves ==
  ASSUME MonitorInvariant, MakeEvent
  PROVE  MonitorInvariant'
<1> USE
    DEF MakeEvent, monitorVars, consumerVars
<1>1. MonitorTypeOK'
  BY DEF MonitorInvariant, MonitorTypeOK
<1>2. WaitersHaveReason' /\ InOrder'
  BY DEF MonitorInvariant, WaitersHaveReason, InOrder
<1>3. ThreadsInStep'
  BY CountAssumption DEF MonitorInvariant, MonitorTypeOK, ThreadsInStep
<1> QED BY <1>1, <1>2, <1>3 DEF MonitorInvariant

LEMMA ProducerThrowsPreserves ==
  ASSUME MonitorInvariant, ProducerThrows
  PROVE  MonitorInvariant'
  BY CountAssumption DEF ProducerThrows, monitorVars, consumerVars,
                         MonitorInvariant, MonitorTypeOK, WaitersHaveReason,
                         InOrder, ThreadsInStep

LEMMA SendBlocksPreserves ==
  ASSUME MonitorInvariant, SendBlocks
  PROVE  MonitorInvariant'
  BY CountAssumption DEF SendBlocks, producerVars, consumerVars, MonitorInvariant,
                         MonitorTypeOK, WaitersHaveReason, InOrder, ThreadsInStep

(***************************************************************************)
(* The acting thread is not in the wait set, so notify_one leaves nobody   *)
(* there.                                                                  *)
(***************************************************************************)
LEMMA NotifyOneWakesTheOther ==
  ASSUME NEW t, waitSet \subseteq {t}, NotifyOne
  PROVE  waitSet' = {}
  BY DEF NotifyOne

LEMMA SendEventPreserves ==
  ASSUME MonitorInvariant, SendEvent
  PROVE  MonitorInvariant'
<1>1. Put /\ ~isShutdown /\ ~hasEvent /\ ppc = "send"
      /\ UNCHANGED <<isShutdown, consumerVars, mpc>>
  BY DEF SendEvent, MonitorInvariant, ThreadsInStep
<1>2. waitSet' = {}
  <2>1. waitSet \subseteq {"consumer"}
    BY DEF SendEvent, MonitorInvariant, MonitorTypeOK
  <2> QED BY <1>1, <2>1, NotifyOneWakesTheOther DEF Put
<1>3. MonitorTypeOK'
  BY <1>1, <1>2, CountAssumption
  DEF Put, consumerVars, MonitorInvariant, MonitorTypeOK, ThreadsInStep
<1>4. WaitersHaveReason'
  BY <1>2 DEF WaitersHaveReason
<1>5. InOrder'
  BY <1>1
    DEF Put, consumerVars, MonitorInvariant, InOrder
<1>6. ThreadsInStep'
  BY <1>1, CountAssumption
  DEF Put, consumerVars, MonitorInvariant, MonitorTypeOK, ThreadsInStep
<1> QED BY <1>3, <1>4, <1>5, <1>6 DEF MonitorInvariant

(***************************************************************************)
(* Steps of the consumer.                                                  *)
(***************************************************************************)
LEMMA WaitBlocksPreserves ==
  ASSUME MonitorInvariant, WaitBlocks
  PROVE  MonitorInvariant'
  BY CountAssumption DEF WaitBlocks, producerVars, consumerVars, MonitorInvariant,
                         MonitorTypeOK, WaitersHaveReason, InOrder, ThreadsInStep

LEMMA WaitEventPreserves ==
  ASSUME MonitorInvariant, WaitEvent
  PROVE  MonitorInvariant'
<1>1. waitSet' = {}
  <2>1. waitSet \subseteq {"producer"}
    BY DEF WaitEvent, MonitorInvariant, MonitorTypeOK
  <2> QED BY <2>1, NotifyOneWakesTheOther DEF WaitEvent
<1>2. MonitorTypeOK'
  <2>1. received' \in Seq(Nat)
    BY CountAssumption DEF WaitEvent, MonitorInvariant, MonitorTypeOK
  <2> QED BY <1>1, <2>1
      DEF WaitEvent, producerVars, MonitorInvariant, MonitorTypeOK
<1>3. WaitersHaveReason'
  BY <1>1 DEF WaitersHaveReason
<1>4. InOrder'
  BY DEF WaitEvent, producerVars, MonitorInvariant, InOrder
<1>5. ThreadsInStep'
  <2>1. Len(received') = i - 1 /\ ev' = i - 1
    BY DEF WaitEvent, MonitorInvariant, InOrder, ThreadsInStep
  <2> QED BY <2>1
      DEF WaitEvent, producerVars, MonitorInvariant, MonitorTypeOK, ThreadsInStep
<1> QED BY <1>2, <1>3, <1>4, <1>5 DEF MonitorInvariant

LEMMA WaitEndsPreserves ==
  ASSUME MonitorInvariant, WaitEnds
  PROVE  MonitorInvariant'
  BY CountAssumption DEF WaitEnds, monitorVars, producerVars, MonitorInvariant,
                         MonitorTypeOK, WaitersHaveReason, InOrder, ThreadsInStep

(***************************************************************************)
(* A consumer that leaves because it saw the last event leaves none        *)
(* behind: it has received as many as were ever put.                       *)
(***************************************************************************)
LEMMA ProcessPreserves ==
  ASSUME MonitorInvariant, Process
  PROVE  MonitorInvariant'
<1>1. cpc' = "done" => ppc = "done" /\ ~hasEvent
  <2> SUFFICES ASSUME cpc' = "done" PROVE ppc = "done" /\ ~hasEvent
    OBVIOUS
  <2>1. producerDone /\ ev = EventCount
    BY DEF Process
  <2>2. Len(sent) = EventCount /\ Len(received) = EventCount
    BY <2>1, CountAssumption
       DEF Process, MonitorInvariant, ThreadsInStep
  <2>3. ~hasEvent
    <3> SUFFICES ASSUME hasEvent PROVE FALSE
      OBVIOUS
    <3>1. Len(Append(received, event)) = Len(received) + 1
      BY DEF MonitorInvariant, MonitorTypeOK
    <3> QED BY <2>2, <3>1, CountAssumption DEF MonitorInvariant, InOrder
  <2> QED BY <2>1, <2>3 DEF MonitorInvariant, ThreadsInStep
<1> QED
  BY <1>1, CountAssumption
  DEF Process, monitorVars, producerVars, MonitorInvariant, MonitorTypeOK,
      WaitersHaveReason, InOrder, ThreadsInStep

(***************************************************************************)
(* Steps of the main thread and of the kernel.                             *)
(***************************************************************************)
LEMMA ShutdownPreserves ==
  ASSUME MonitorInvariant, Shutdown
  PROVE  MonitorInvariant'
  BY CountAssumption DEF Shutdown, NotifyAll, producerVars, consumerVars,
                         MonitorInvariant, MonitorTypeOK, WaitersHaveReason,
                         InOrder, ThreadsInStep

LEMMA FinishPreserves ==
  ASSUME MonitorInvariant, Finish
  PROVE  MonitorInvariant'
  BY CountAssumption DEF Finish, monitorVars, producerVars, consumerVars,
                         MonitorInvariant, MonitorTypeOK, WaitersHaveReason,
                         InOrder, ThreadsInStep

LEMMA SpuriousWakeupPreserves ==
  ASSUME MonitorInvariant, SpuriousWakeup
  PROVE  MonitorInvariant'
  BY CountAssumption DEF SpuriousWakeup, producerVars, consumerVars,
                         MonitorInvariant, MonitorTypeOK, WaitersHaveReason,
                         InOrder, ThreadsInStep

LEMMA MonitorNextPreserves ==
    MonitorInvariant /\ [MonitorNext]_programVars => MonitorInvariant'
<1> SUFFICES ASSUME MonitorInvariant, [MonitorNext]_programVars
             PROVE  MonitorInvariant'
  OBVIOUS
<1>1. CASE UNCHANGED programVars
  BY <1>1
    DEF programVars, monitorVars, producerVars, consumerVars, MonitorInvariant,
        MonitorTypeOK, WaitersHaveReason, InOrder, ThreadsInStep
<1>2. CASE ProducerStep
  BY <1>2, MakeEventPreserves, ProducerThrowsPreserves, SendBlocksPreserves,
     SendEventPreserves DEF ProducerStep
<1>3. CASE ConsumerStep
  BY <1>3, WaitBlocksPreserves, WaitEventPreserves, WaitEndsPreserves,
     ProcessPreserves DEF ConsumerStep
<1>4. CASE MainStep
  BY <1>4, ShutdownPreserves, FinishPreserves DEF MainStep
<1> QED BY <1>1, <1>2, <1>3, <1>4, SpuriousWakeupPreserves
    DEF MonitorNext, Terminated

(***************************************************************************)
(* The invariant holds throughout.                                         *)
(***************************************************************************)
THEOREM MonitorInvariantHolds ==
    MonitorSpec => []MonitorInvariant
  BY MonitorInitEstablishes, MonitorNextPreserves, PTL DEF MonitorSpec

(***************************************************************************)
(* Producer and consumer never wait at the same time, so notify_one on the *)
(* condition variable they share (monitor.cpp:97, 121) reaches the right   *)
(* thread.                                                                 *)
(***************************************************************************)
THEOREM WaitersExclusive ==
    MonitorSpec => []NeverBothWaiting
<1>1. MonitorInvariant => NeverBothWaiting
  BY DEF MonitorInvariant, WaitersHaveReason, NeverBothWaiting
<1> QED BY <1>1, MonitorInvariantHolds, PTL

(***************************************************************************)
(* The slot (monitor.cpp:91, 115) loses, repeats and reorders nothing.     *)
(***************************************************************************)
THEOREM SlotInOrder ==
    MonitorSpec => []InOrder
<1>1. MonitorInvariant => InOrder
  BY DEF MonitorInvariant
<1> QED BY <1>1, MonitorInvariantHolds, PTL

(***************************************************************************)
(* When main() says that all events are processed (monitor.cpp:206), those *)
(* that were sent are, and that is all of them unless the producer failed. *)
(***************************************************************************)
THEOREM FinalMessageTrue ==
    MonitorSpec => []AllProcessed
<1>1. MonitorInvariant => AllProcessed
  BY CountAssumption DEF MonitorInvariant, MonitorTypeOK, InOrder, ThreadsInStep,
                         AllProcessed
<1> QED BY <1>1, MonitorInvariantHolds, PTL

(***************************************************************************)
(* The variables of monitor.cpp have their types, for any EVENT_COUNT.     *)
(***************************************************************************)
THEOREM MonitorTypeCorrect ==
    MonitorSpec => []MonitorTypeOK
<1>1. MonitorInvariant => MonitorTypeOK
  BY DEF MonitorInvariant
<1> QED BY <1>1, MonitorInvariantHolds, PTL
-----------------------------------------------------------------------------
(***************************************************************************)
(* SighupServer, for any number of signals, connections and packets.       *)
(***************************************************************************)
(***************************************************************************)
(* Every action preserves the invariant; it holds initially.               *)
(***************************************************************************)
LEMMA ServerInitEstablishes == ServerInit => ServerInvariant
<1> SUFFICES ASSUME ServerInit PROVE ServerInvariant
  OBVIOUS
<1>1. ServerTypeOK
  <2>1. pc = "register" /\ peer = "open" /\ rfds = {}
    BY DEF ServerInit
  <2>2. pending = 0 /\ wasSigHup = 0 /\ open = 0 /\ backlog = 0 /\ inbox = 0
    BY DEF ServerInit
  <2>3. reports = 0 /\ hups = 0 /\ conns = 0 /\ packets = 0
    BY DEF ServerInit
  <2>4. client \in BOOLEAN
    BY Zenon DEF ServerInit
  <2> QED
    BY <2>1, <2>2, <2>3, <2>4 DEF ServerTypeOK
<1>2. SetIsReady
  BY DEF ServerInit, SetIsReady
<1>3. NoPhantomReport
  BY DEF ServerInit, NoPhantomReport
<1>4. client <=> open = 1
  BY DEF ServerInit
<1> QED
  BY <1>1, <1>2, <1>3, <1>4 DEF ServerInvariant

LEMMA ServerStartPreserves ==
  ASSUME ServerInvariant, Register \/ Block
  PROVE  ServerInvariant'
<1>1. /\ pc' \in {"block", "pselect"}
      /\ UNCHANGED <<rfds, signalVars, socketVars, bounds>>
  BY DEF Register, Block, Goto
<1>2. ServerTypeOK'
  BY <1>1
    DEF ServerInvariant, ServerTypeOK, signalVars, socketVars, bounds
<1>3. SetIsReady'
  BY <1>1 DEF SetIsReady
<1>4. NoPhantomReport'
  BY <1>1
    DEF ServerInvariant, NoPhantomReport, signalVars, bounds
<1>5. (client <=> open = 1)'
  BY <1>1 DEF ServerInvariant, socketVars
<1> QED
  BY <1>2, <1>3, <1>4, <1>5 DEF ServerInvariant

(***************************************************************************)
(* What pselect leaves in the set is ready, or the flag is up.             *)
(***************************************************************************)
LEMMA PselectReadyPreserves ==
  ASSUME ServerInvariant, PselectReady
  PROVE  ServerInvariant'
<1>1. /\ "listen" \in rfds' => backlog > 0
      /\ "client" \in rfds' => client /\ (inbox > 0 \/ peer # "open")
  BY DEF PselectReady, Readable
<1>2. rfds' \subseteq {"listen", "client"}
  BY DEF PselectReady, Watched
<1> QED
  BY <1>1, <1>2
    DEF ServerInvariant, ServerTypeOK, SetIsReady, NoPhantomReport, PselectReady,
        Goto, signalVars, socketVars, bounds

LEMMA PselectInterruptedPreserves ==
  ASSUME ServerInvariant, PselectInterrupted
  PROVE  ServerInvariant'
<1>1. /\ rfds' \subseteq {"listen", "client"}
      /\ "client" \in rfds' => client
  BY DEF PselectInterrupted, Watched
<1> QED
  BY <1>1
    DEF ServerInvariant, ServerTypeOK, SetIsReady, NoPhantomReport,
        PselectInterrupted, Goto, socketVars, bounds

LEMMA CheckPreserves ==
  ASSUME ServerInvariant, Check
  PROVE  ServerInvariant'
  BY DEF ServerInvariant, ServerTypeOK, SetIsReady, NoPhantomReport, Check, Goto,
         socketVars, bounds

LEMMA AcceptPreserves ==
  ASSUME ServerInvariant, Accept
  PROVE  ServerInvariant'
<1>1. /\ pc = "accept" /\ pc' = "recv"
      /\ UNCHANGED <<rfds, inbox, peer, signalVars, bounds>>
  BY DEF Accept, Goto
<1>2. /\ client' \in BOOLEAN /\ backlog' \in Nat /\ open' \in 0..1
      /\ client' <=> open' = 1
      /\ client => client'
  <2>1. CASE "listen" \in rfds
    <3>1. client' = TRUE /\ open' = 1
      BY <2>1 DEF Accept, ServerInvariant, ServerTypeOK
    <3>2. backlog' \in Nat
      BY <2>1 DEF Accept, ServerInvariant, ServerTypeOK
    <3> QED
      BY <3>1, <3>2
  <2>2. CASE "listen" \notin rfds
    BY <2>2 DEF Accept, ServerInvariant, ServerTypeOK
  <2> QED
    BY <2>1, <2>2
<1>3. ServerTypeOK'
  BY <1>1, <1>2
    DEF ServerInvariant, ServerTypeOK, signalVars, bounds
<1>4. SetIsReady'
  BY <1>1, <1>2 DEF ServerInvariant, SetIsReady, signalVars
<1>5. NoPhantomReport'
  BY <1>1
    DEF ServerInvariant, NoPhantomReport, signalVars, bounds
<1> QED
  BY <1>2, <1>3, <1>4, <1>5 DEF ServerInvariant

LEMMA AcceptFailsPreserves ==
  ASSUME ServerInvariant, AcceptFails
  PROVE  ServerInvariant'
  BY DEF ServerInvariant, ServerTypeOK, SetIsReady, NoPhantomReport, AcceptFails,
         Goto, signalVars, socketVars, bounds

(***************************************************************************)
(* After recv the set is not looked at any more.                           *)
(***************************************************************************)
LEMMA RecvPreserves ==
  ASSUME ServerInvariant, Recv
  PROVE  ServerInvariant'
<1>1. /\ pc' \in {"pselect", "dead"}
      /\ UNCHANGED <<rfds, backlog, signalVars, bounds>>
  BY DEF Recv, RecvSkipped, RecvData, RecvEnd, RecvFails, Goto, socketVars
<1>2. /\ client' \in BOOLEAN /\ inbox' \in Nat /\ open' \in 0..1
      /\ client' <=> open' = 1
      /\ peer' \in {"open", "closed", "reset"}
  <2>1. CASE RecvSkipped \/ RecvFails
    BY <2>1
      DEF ServerInvariant, ServerTypeOK, RecvSkipped, RecvFails, socketVars
  <2>2. CASE RecvData
    BY <2>2 DEF ServerInvariant, ServerTypeOK, RecvData
  <2>3. CASE RecvEnd
    <3>1. client /\ client' = FALSE
      BY <2>3, Zenon DEF RecvEnd
    <3>2. open' = 0
      <4>1. open = 1
        BY <3>1, Zenon DEF ServerInvariant
      <4> QED
        BY <2>3, <4>1 DEF RecvEnd
    <3>3. inbox' \in Nat /\ peer' = "open"
      BY <2>3 DEF ServerInvariant, ServerTypeOK, RecvEnd
    <3>4. client' \in BOOLEAN /\ ~client'
      BY <3>1, Zenon
    <3> QED
      BY <3>2, <3>3, <3>4
  <2> QED
    BY <2>1, <2>2, <2>3 DEF Recv
<1>3. ServerTypeOK'
  BY <1>1, <1>2
    DEF ServerInvariant, ServerTypeOK, signalVars, bounds
<1>4. SetIsReady'
  BY <1>1 DEF SetIsReady
<1>5. NoPhantomReport'
  BY <1>1
    DEF ServerInvariant, NoPhantomReport, signalVars, bounds
<1> QED
  BY <1>2, <1>3, <1>4, <1>5 DEF ServerInvariant

LEMMA HupPreserves ==
  ASSUME ServerInvariant, Hup
  PROVE  ServerInvariant'
<1>1. CASE pc = "register"
  BY <1>1
    DEF ServerInvariant, ServerTypeOK, SetIsReady, NoPhantomReport, Hup, Goto,
        socketVars
<1>2. CASE pc = "block"
  BY <1>2
    DEF ServerInvariant, ServerTypeOK, SetIsReady, NoPhantomReport, Hup, Goto,
        socketVars
<1>3. CASE pc \notin {"register", "block"}
  BY <1>3
    DEF ServerInvariant, ServerTypeOK, SetIsReady, NoPhantomReport, Hup, Goto,
        socketVars
<1> QED
  BY <1>1, <1>2, <1>3

(***************************************************************************)
(* A peer only adds to what is ready.                                      *)
(***************************************************************************)
LEMMA PeerPreserves ==
  ASSUME ServerInvariant, Connect \/ Send \/ Hangup
  PROVE  ServerInvariant'
<1>1. CASE Connect
  BY <1>1
    DEF ServerInvariant, ServerTypeOK, SetIsReady, NoPhantomReport, Connect,
        signalVars
<1>2. CASE Send
  BY <1>2
    DEF ServerInvariant, ServerTypeOK, SetIsReady, NoPhantomReport, Send, signalVars
<1>3. CASE Hangup
  BY <1>3
    DEF ServerInvariant, ServerTypeOK, SetIsReady, NoPhantomReport, Hangup,
        signalVars, bounds
<1> QED
  BY <1>1, <1>2, <1>3

LEMMA ServerNextPreserves ==
    ServerInvariant /\ [ServerNext]_serverVars => ServerInvariant'
<1> SUFFICES ASSUME ServerInvariant, [ServerNext]_serverVars
             PROVE  ServerInvariant'
  OBVIOUS
<1>1. CASE Server
  BY <1>1, ServerStartPreserves, PselectReadyPreserves, PselectInterruptedPreserves,
     CheckPreserves, AcceptPreserves, AcceptFailsPreserves, RecvPreserves DEF Server
<1>2. CASE Hup
  BY <1>2, HupPreserves
<1>3. CASE Connect \/ Send \/ Hangup
  BY <1>3, PeerPreserves
<1>4. CASE UNCHANGED serverVars
  BY <1>4
    DEF ServerInvariant, ServerTypeOK, SetIsReady, NoPhantomReport, serverVars,
        signalVars, socketVars, bounds
<1> QED
  BY <1>1, <1>2, <1>3, <1>4 DEF ServerNext

(***************************************************************************)
(* The invariant of main.cpp's loop holds for any signals and peers.       *)
(***************************************************************************)
THEOREM ServerInvariantHolds == ServerSpec => []ServerInvariant
  BY ServerInitEstablishes, ServerNextPreserves, PTL DEF ServerSpec

(***************************************************************************)
(* accept and recv are called only when they return at once.               *)
(***************************************************************************)
THEOREM NeverBlocksAnywhere == ServerSpec => []NeverBlocks
<1>1. ServerInvariant => NeverBlocks
  BY DEF ServerInvariant, SetIsReady, NeverBlocks
<1> QED
  BY <1>1, ServerInvariantHolds, PTL

(***************************************************************************)
(* No SIGHUP is reported twice.                                            *)
(***************************************************************************)
THEOREM EachSignalOnce == ServerSpec => []NoPhantomReport
<1>1. ServerInvariant => NoPhantomReport
  BY DEF ServerInvariant
<1> QED
  BY <1>1, ServerInvariantHolds, PTL

(***************************************************************************)
(* The variables of main.cpp have their types: one client at most is open. *)
(***************************************************************************)
THEOREM ServerTypeCorrect == ServerSpec => []ServerTypeOK
<1>1. ServerInvariant => ServerTypeOK
  BY DEF ServerInvariant
<1> QED BY <1>1, ServerInvariantHolds, PTL
=============================================================================
