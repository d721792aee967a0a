---------------------------- MODULE SighupServer ----------------------------
(***************************************************************************)
(* os_lab2/main.cpp: a server with one thread that keeps at most one       *)
(* client, and that prints a line for SIGHUP.  SIGHUP is blocked except    *)
(* while pselect waits, so the handler can run only there, and the flag it *)
(* sets is looked at before any descriptor is used.                        *)
(*                                                                         *)
(* A signal that arrives while it is blocked is pending, once however      *)
(* often it was sent.  Where descriptors are ready and a signal is         *)
(* pending, pselect may report either: it then fails with EINTR and leaves *)
(* the descriptor set as it was passed.                                    *)
(***************************************************************************)
EXTENDS Naturals

CONSTANTS MaxHups,   \* bound on the signals sent
          MaxConns,  \* bound on the connections made
          MaxData    \* bound on the packets sent to the kept connection

ASSUME BoundsAssumption == MaxHups \in Nat /\ MaxConns \in Nat /\ MaxData \in Nat

VARIABLES pc,         \* the call main makes next, or "dead"
          pending,    \* 1 while a SIGHUP is pending
          wasSigHup,  \* the flag set by the handler
          rfds,       \* which of the two descriptors are in the set
          client,     \* client_fd # -1
          open,       \* number of connected descriptors
          backlog,    \* connections that wait for accept
          inbox,      \* packets that wait for recv on client_fd
          peer,       \* what the kept peer did last: "open", "closed" or "reset"
          reports,    \* history: lines printed for SIGHUP
          hups, conns, packets

signalVars == <<pending, wasSigHup, reports>>
socketVars == <<client, open, backlog, inbox, peer>>
bounds == <<hups, conns, packets>>
serverVars == <<pc, rfds, signalVars, socketVars, bounds>>

ServerInit ==
    /\ pc = "register"
    /\ pending = 0 /\ wasSigHup = 0 /\ reports = 0
    /\ rfds = {}
    /\ client = FALSE /\ open = 0 /\ backlog = 0 /\ inbox = 0 /\ peer = "open"
    /\ hups = 0 /\ conns = 0 /\ packets = 0

Goto(loc) == pc' = loc
-----------------------------------------------------------------------------
(***************************************************************************)
(* sigaction and sigprocmask; the socket listens already.                  *)
(***************************************************************************)
Register ==
    /\ pc = "register"
    /\ Goto("block")
    /\ UNCHANGED <<rfds, signalVars, socketVars, bounds>>

Block ==
    /\ pc = "block"
    /\ Goto("pselect")
    /\ UNCHANGED <<rfds, signalVars, socketVars, bounds>>

(***************************************************************************)
(* The set passed to pselect, and the part of it that is ready.  (The      *)
(* first is a slip: FD_SET(client_fd) forgotten.)                          *)
(***************************************************************************)
WatchedListenerOnly == {"listen"}

Watched == {"listen"} \cup (IF client THEN {"client"} ELSE {})

Readable(fd) == IF fd = "listen" THEN backlog > 0
                ELSE client /\ (inbox > 0 \/ peer # "open")

PselectReady ==
    /\ pc = "pselect"
    /\ rfds' = {fd \in Watched : Readable(fd)}
    /\ rfds' # {}
    /\ Goto("check")
    /\ UNCHANGED <<signalVars, socketVars, bounds>>

(***************************************************************************)
(* EINTR: the handler ran.  (A slip: pselect waits with SIGHUP blocked.)   *)
(***************************************************************************)
PselectBlocksSignal == FALSE /\ UNCHANGED serverVars

PselectInterrupted ==
    /\ pc = "pselect"
    /\ pending = 1
    /\ pending' = 0
    /\ wasSigHup' = 1
    /\ rfds' = Watched
    /\ Goto("check")
    /\ UNCHANGED <<reports, socketVars, bounds>>

(***************************************************************************)
(* Slips of the test of the flag: no continue; the flag is not cleared.    *)
(***************************************************************************)
CheckGoesOn ==
    /\ pc = "check"
    /\ wasSigHup' = 0
    /\ reports' = reports + wasSigHup
    /\ Goto("accept")
    /\ UNCHANGED <<rfds, pending, socketVars, bounds>>

CheckKeepsFlag ==
    /\ pc = "check"
    /\ reports' = reports + wasSigHup
    /\ Goto(IF wasSigHup = 1 THEN "pselect" ELSE "accept")
    /\ UNCHANGED <<rfds, pending, wasSigHup, socketVars, bounds>>

Check ==
    /\ pc = "check"
    /\ wasSigHup' = 0
    /\ reports' = reports + wasSigHup
    /\ Goto(IF wasSigHup = 1 THEN "pselect" ELSE "accept")
    /\ UNCHANGED <<rfds, pending, socketVars, bounds>>

(***************************************************************************)
(* accept blocks without a connection.  The first is kept, another one is  *)
(* closed at once.  (A slip: it is not closed.)                            *)
(***************************************************************************)
AcceptLeaks ==
    /\ pc = "accept"
    /\ Goto("recv")
    /\ IF "listen" \in rfds
       THEN /\ backlog > 0
            /\ backlog' = backlog - 1
            /\ client' = TRUE
            /\ open' = open + 1
       ELSE UNCHANGED <<backlog, client, open>>
    /\ UNCHANGED <<rfds, inbox, peer, signalVars, bounds>>

Accept ==
    /\ pc = "accept"
    /\ Goto("recv")
    /\ IF "listen" \in rfds
       THEN /\ backlog > 0
            /\ backlog' = backlog - 1
            /\ client' = TRUE
            /\ open' = IF client THEN open ELSE open + 1
       ELSE UNCHANGED <<backlog, client, open>>
    /\ UNCHANGED <<rfds, inbox, peer, signalVars, bounds>>

(***************************************************************************)
(* accept fails, for want of a descriptor or because the peer gave up      *)
(* meanwhile, and sysdie ends the program.                                 *)
(***************************************************************************)
AcceptFails ==
    /\ pc = "accept"
    /\ "listen" \in rfds /\ backlog > 0
    /\ Goto("dead")
    /\ UNCHANGED <<rfds, signalVars, socketVars, bounds>>

(***************************************************************************)
(* One recv per readiness: it takes some of the packets, or sees the end   *)
(* of the stream, or fails with ECONNRESET and ends the program.  It       *)
(* blocks if there is nothing of the kind.                                 *)
(***************************************************************************)
RecvSkipped ==
    /\ pc = "recv"
    /\ "client" \notin rfds \/ ~client
    /\ Goto("pselect")
    /\ UNCHANGED <<rfds, signalVars, socketVars, bounds>>

RecvData ==
    /\ pc = "recv"
    /\ "client" \in rfds /\ client
    /\ \E n \in 1..inbox : inbox' = inbox - n
    /\ Goto("pselect")
    /\ UNCHANGED <<rfds, client, open, backlog, peer, signalVars, bounds>>

RecvEnd ==
    /\ pc = "recv"
    /\ "client" \in rfds /\ client
    /\ inbox = 0 /\ peer = "closed"
    /\ client' = FALSE /\ open' = open - 1 /\ peer' = "open"
    /\ Goto("pselect")
    /\ UNCHANGED <<rfds, backlog, inbox, signalVars, bounds>>

RecvFails ==
    /\ pc = "recv"
    /\ "client" \in rfds /\ client
    /\ inbox = 0 /\ peer = "reset"
    /\ Goto("dead")
    /\ UNCHANGED <<rfds, signalVars, socketVars, bounds>>

Recv == RecvSkipped \/ RecvData \/ RecvEnd \/ RecvFails

Server ==
    \/ Register \/ Block
    \/ PselectReady \/ PselectInterrupted
    \/ Check \/ Accept \/ AcceptFails \/ Recv
-----------------------------------------------------------------------------
(***************************************************************************)
(* SIGHUP is sent: fatal before sigaction, handled at once between that    *)
(* and sigprocmask, pending from then on until pselect unblocks it.        *)
(***************************************************************************)
Hup ==
    /\ pc # "dead"
    /\ hups < MaxHups
    /\ hups' = hups + 1
    /\ CASE pc = "register" -> Goto("dead") /\ UNCHANGED <<pending, wasSigHup>>
         [] pc = "block" -> wasSigHup' = 1 /\ UNCHANGED <<pc, pending>>
         [] OTHER -> pending' = 1 /\ UNCHANGED <<pc, wasSigHup>>
    /\ UNCHANGED <<rfds, reports, socketVars, conns, packets>>

Connect ==
    /\ pc # "dead"
    /\ conns < MaxConns
    /\ conns' = conns + 1
    /\ backlog' = backlog + 1
    /\ UNCHANGED <<pc, rfds, signalVars, client, open, inbox, peer, hups, packets>>

Send ==
    /\ client /\ peer = "open"
    /\ packets < MaxData
    /\ packets' = packets + 1
    /\ inbox' = inbox + 1
    /\ UNCHANGED <<pc, rfds, signalVars, client, open, backlog, peer, hups, conns>>

Hangup ==
    /\ client /\ peer = "open"
    /\ peer' \in {"closed", "reset"}
    /\ UNCHANGED <<pc, rfds, signalVars, client, open, backlog, inbox, bounds>>

ServerNext == Server \/ Hup \/ Connect \/ Send \/ Hangup

ServerSpec == ServerInit /\ [][ServerNext]_serverVars

(***************************************************************************)
(* The process is scheduled, and pselect returns if it has a reason to.    *)
(* Nobody has to send anything.                                            *)
(***************************************************************************)
FairServerSpec == ServerSpec /\ WF_serverVars(Server)
-----------------------------------------------------------------------------
(***************************************************************************)
(* Types of all variables; at most one connection is ever held.            *)
(***************************************************************************)
ServerTypeOK ==
    /\ pc \in {"register", "block", "pselect", "check", "accept", "recv", "dead"}
    /\ pending \in {0, 1} /\ wasSigHup \in {0, 1} /\ client \in BOOLEAN
    /\ rfds \subseteq {"listen", "client"}
    /\ open \in 0..1
    /\ backlog \in Nat /\ inbox \in Nat /\ peer \in {"open", "closed", "reset"}
    /\ reports \in Nat /\ hups \in Nat /\ conns \in Nat /\ packets \in Nat

(***************************************************************************)
(* main never calls accept or recv where it would block: not after EINTR,  *)
(* when the set still holds every descriptor, and not on a client that was *)
(* accepted or closed in the same turn of the loop.  A server that blocked *)
(* there would be deaf to SIGHUP and to everybody else.                    *)
(***************************************************************************)
NeverBlocks ==
    /\ pc = "accept" /\ "listen" \in rfds => backlog > 0
    /\ pc = "recv" /\ "client" \in rfds /\ client => inbox > 0 \/ peer # "open"

(***************************************************************************)
(* No SIGHUP is reported twice, neither one that was sent in the window    *)
(* between sigaction and sigprocmask nor one that interrupted pselect:     *)
(* lines, the flag and the pending signal stand for different signals.     *)
(***************************************************************************)
NoPhantomReport == reports + wasSigHup + pending <= hups

(***************************************************************************)
(* Why main does not block: past the test of the flag, what is in the set  *)
(* has been ready since pselect returned; only EINTR leaves more in it,    *)
(* and then the flag is up.                                                *)
(***************************************************************************)
SetIsReady ==
    /\ pc \in {"check", "accept"} /\ "listen" \in rfds => backlog > 0 \/ wasSigHup = 1
    /\ pc \in {"check", "accept", "recv"} /\ "client" \in rfds
        => client /\ (inbox > 0 \/ peer # "open" \/ wasSigHup = 1)
    /\ pc \in {"accept", "recv"} => wasSigHup = 0

ServerInvariant ==
    /\ ServerTypeOK
    /\ SetIsReady
    /\ NoPhantomReport
    /\ client <=> open = 1

(***************************************************************************)
(* A SIGHUP that found the signal blocked is reported some day, even if    *)
(* nothing else ever happens: it cannot fall between the test of the flag  *)
(* and the wait.                                                           *)
(***************************************************************************)
HupReported ==
    pending = 1 ~> (pending = 0 /\ wasSigHup = 0) \/ pc = "dead"

(***************************************************************************)
(* Nobody is forgotten: waiting connections are accepted and packets are   *)
(* received, whatever signals come in between.                             *)
(***************************************************************************)
Served ==
    backlog > 0 \/ inbox > 0 ~> (backlog = 0 /\ inbox = 0) \/ pc = "dead"
=============================================================================
