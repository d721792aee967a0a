---------------------------- MODULE SharedFiles -----------------------------
(***************************************************************************)
(* unix_lab2/entrypoint.sh: containers that share a volume.  Each one, for *)
(* ever, takes an exclusive flock on .lockfile, looks for the first free   *)
(* name 001, 002, ..., creates that file, releases the lock, writes its id *)
(* and a sequence number into the file, sleeps, and removes it.            *)
(*                                                                         *)
(* Writing and removing happen without the lock, so a scan in progress     *)
(* sees names disappear under it.  A container may be killed anywhere: the *)
(* kernel then releases its lock, and its file stays behind for good.      *)
(***************************************************************************)
EXTENDS Naturals, Sequences, FiniteSets

CONSTANTS Containers,
          Nobody,      \* the holder of the free lock
          MaxRounds,   \* bound on FILE_SEQ
          MaxCrashes   \* bound on killed containers

VARIABLES files,   \* the volume: the lines of each file, by the number it is named
          lock,    \* the container that holds the flock
          cmd,      \* cmd[c]: the command c runs next
          name,    \* name[c]: $i, and the number in $FILE_NAME
          seq,     \* seq[c]: $FILE_SEQ
          crashes

vars == <<files, lock, cmd, name, seq, crashes>>

ASSUME SharedFilesAssumption ==
    /\ IsFiniteSet(Containers)
    /\ Nobody \notin Containers
    /\ MaxRounds \in Nat /\ MaxCrashes \in Nat

Init ==
    /\ files = [n \in {} |-> <<>>]
    /\ lock = Nobody
    /\ cmd = [c \in Containers |-> "flock"]
    /\ name = [c \in Containers |-> 1]
    /\ seq = [c \in Containers |-> 0]
    /\ crashes = 0

Exists(n) == n \in DOMAIN files

(***************************************************************************)
(* Redirection into file n, which creates it or truncates it; rm -f.       *)
(***************************************************************************)
Write(n, lines) ==
    files' = [m \in DOMAIN files \cup {n} |-> IF m = n THEN lines ELSE files[m]]

Remove(n) == files' = [m \in DOMAIN files \ {n} |-> files[m]]

Step(c, from, to) == cmd[c] = from /\ cmd' = [cmd EXCEPT ![c] = to]
-----------------------------------------------------------------------------
(***************************************************************************)
(* The script's loop, command by command, with the slips it is tested      *)
(* against: no flock; the lock released before the file is created; the    *)
(* lock not released; the lines swapped; the file not removed.             *)
(***************************************************************************)
FlockSkipped(c) ==
    /\ Step(c, "flock", "scan")
    /\ seq[c] < MaxRounds
    /\ name' = [name EXCEPT ![c] = 1]
    /\ UNCHANGED <<files, lock, seq, crashes>>

Flock(c) ==
    /\ Step(c, "flock", "scan")
    /\ seq[c] < MaxRounds
    /\ lock = Nobody
    /\ lock' = c
    /\ name' = [name EXCEPT ![c] = 1]
    /\ UNCHANGED <<files, seq, crashes>>

NameTaken(c) ==
    /\ Step(c, "scan", "scan")
    /\ Exists(name[c])
    /\ name' = [name EXCEPT ![c] = @ + 1]
    /\ UNCHANGED <<files, lock, seq, crashes>>

NameFreeUnlocks(c) ==
    /\ Step(c, "scan", "create")
    /\ ~Exists(name[c])
    /\ lock' = Nobody
    /\ UNCHANGED <<files, name, seq, crashes>>

NameFree(c) ==
    /\ Step(c, "scan", "create")
    /\ ~Exists(name[c])
    /\ UNCHANGED <<files, lock, name, seq, crashes>>

Create(c) ==
    /\ Step(c, "create", "unlock")
    /\ Write(name[c], <<>>)
    /\ UNCHANGED <<lock, name, seq, crashes>>

UnlockForgotten(c) ==
    /\ Step(c, "unlock", "id")
    /\ seq' = [seq EXCEPT ![c] = @ + 1]
    /\ UNCHANGED <<files, lock, name, crashes>>

Unlock(c) ==
    /\ Step(c, "unlock", "id")
    /\ lock' = Nobody
    /\ seq' = [seq EXCEPT ![c] = @ + 1]
    /\ UNCHANGED <<files, name, crashes>>

WriteIdSwapped(c) ==
    /\ Step(c, "id", "seq")
    /\ Write(name[c], <<seq[c]>>)
    /\ UNCHANGED <<lock, name, seq, crashes>>

WriteId(c) ==
    /\ Step(c, "id", "seq")
    /\ Write(name[c], <<c>>)
    /\ UNCHANGED <<lock, name, seq, crashes>>

(***************************************************************************)
(* The second printf goes to the same open file, wherever its name is.     *)
(***************************************************************************)
WriteSeq(c) ==
    /\ Step(c, "seq", "rm")
    /\ IF Exists(name[c]) THEN Write(name[c], Append(files[name[c]], seq[c]))
                          ELSE UNCHANGED files
    /\ UNCHANGED <<lock, name, seq, crashes>>

RmForgotten(c) ==
    /\ Step(c, "rm", "flock")
    /\ UNCHANGED <<files, lock, name, seq, crashes>>

Rm(c) ==
    /\ Step(c, "rm", "flock")
    /\ Remove(name[c])
    /\ UNCHANGED <<lock, name, seq, crashes>>

Run(c) ==
    \/ Flock(c) \/ NameTaken(c) \/ NameFree(c) \/ Create(c)
    \/ Unlock(c) \/ WriteId(c) \/ WriteSeq(c) \/ Rm(c)
-----------------------------------------------------------------------------
(***************************************************************************)
(* docker kill, or docker stop, whose SIGTERM the shell as process 1 does  *)
(* not heed; and the script started afresh.                                *)
(***************************************************************************)
Crash(c) ==
    /\ crashes < MaxCrashes
    /\ crashes' = crashes + 1
    /\ cmd[c] # "down"
    /\ cmd' = [cmd EXCEPT ![c] = "down"]
    /\ lock' = IF lock = c THEN Nobody ELSE lock
    /\ UNCHANGED <<files, name, seq>>

Start(c) ==
    /\ Step(c, "down", "flock")
    /\ seq' = [seq EXCEPT ![c] = 0]
    /\ UNCHANGED <<files, lock, name, crashes>>

Next == \E c \in Containers : Run(c) \/ Crash(c) \/ Start(c)

Spec == Init /\ [][Next]_vars

(***************************************************************************)
(* A container that runs goes on; flock promises no order among those that *)
(* wait for it, and nothing starts a container again.                      *)
(***************************************************************************)
FairSpec == Spec /\ \A c \in Containers : WF_vars(Run(c))
-----------------------------------------------------------------------------
(***************************************************************************)
(* Types of all variables.  A file is read at any moment of its writing:   *)
(* it is empty, or an id, or an id and a number.                           *)
(***************************************************************************)
ReadableFile(lines) ==
    /\ Len(lines) <= 2
    /\ Len(lines) > 0 => lines[1] \in Containers
    /\ Len(lines) > 1 => lines[2] \in Nat

TypeOK ==
    /\ DOMAIN files \subseteq Nat
    /\ \A n \in DOMAIN files : ReadableFile(files[n])
    /\ lock \in Containers \cup {Nobody}
    /\ cmd \in [Containers -> {"flock", "scan", "create", "unlock", "id", "seq",
                              "rm", "down"}]
    /\ name \in [Containers -> Nat]
    /\ seq \in [Containers -> Nat]
    /\ crashes \in Nat

(***************************************************************************)
(* c has a file: it has created it and not yet removed it.                 *)
(***************************************************************************)
Holds(c) == cmd[c] \in {"unlock", "id", "seq", "rm"}

(***************************************************************************)
(* No two containers use one name, though they hold the lock only while    *)
(* they pick it: "the name is taken, others will not take it"              *)
(* (entrypoint.sh:52).                                                     *)
(***************************************************************************)
NameExclusive ==
    \A c, d \in Containers : Holds(c) /\ Holds(d) /\ name[c] = name[d] => c = d

(***************************************************************************)
(* What a container wrote is there until it removes it: its file exists,   *)
(* and holds its own id and number once they are written.                  *)
(***************************************************************************)
OwnContent ==
    \A c \in Containers :
        /\ Holds(c) => Exists(name[c])
        /\ cmd[c] = "seq" => files[name[c]] = <<c>>
        /\ cmd[c] = "rm" => files[name[c]] = <<c, seq[c]>>

(***************************************************************************)
(* Who is between flock and flock -u holds the lock, and a name found free *)
(* is free until it is used.                                               *)
(***************************************************************************)
InCriticalSection(c) == cmd[c] \in {"scan", "create", "unlock"}

LockHeld ==
    \A c \in Containers :
        /\ InCriticalSection(c) => lock = c
        /\ cmd[c] = "create" => ~Exists(name[c])

(***************************************************************************)
(* The inductive invariant behind NameExclusive and OwnContent.            *)
(***************************************************************************)
SharedFilesInvariant == TypeOK /\ LockHeld /\ OwnContent /\ NameExclusive

(***************************************************************************)
(* The names in use stay among the first ones: there are never more files  *)
(* than containers, those of killed containers aside, and a scan finds a   *)
(* name no higher than that although files vanish while it runs.           *)
(***************************************************************************)
NamesBounded == \A n \in DOMAIN files : n \in 1..(Cardinality(Containers) + crashes)

(***************************************************************************)
(* Why: a file belongs to its holder or was left by a crash; and a name    *)
(* that a scan has found taken is still taken, or its holder has given it  *)
(* up since and cannot get another while the scan has the lock.            *)
(***************************************************************************)
Holders == {c \in Containers : Holds(c)}
Idle(c) == {d \in Containers \ {c} : ~Holds(d)}
Vanished(c) == (1..(name[c] - 1)) \ DOMAIN files

FilesAccounted ==
    /\ IsFiniteSet(DOMAIN files)
    /\ Cardinality(DOMAIN files) <= Cardinality(Holders) + crashes

ScansAccounted ==
    \A c \in Containers :
        /\ name[c] > 0
        /\ cmd[c] \in {"scan", "create"} => Cardinality(Vanished(c)) <= Cardinality(Idle(c))

NamesInvariant == NamesBounded /\ FilesAccounted /\ ScansAccounted

(***************************************************************************)
(* The lock is never kept: each scan ends and each holder lets go or dies. *)
(***************************************************************************)
LockIsReleased == \A c \in Containers : lock = c ~> lock # c
=============================================================================
