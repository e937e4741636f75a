--------------------------- MODULE SingleInstance ---------------------------
(***************************************************************************)
(* main.cpp: of all the processes a user starts, the one that gets the     *)
(* lock file is the player; the others hand the files they name over to    *)
(* it through a local socket, and end.                                     *)
(*                                                                         *)
(* The socket is a path (`endpoint`) that leads to the process that        *)
(* listens there.  The player's handlers run in its event loop, one at a   *)
(* time; it adds its own files before the loop starts.  A process may      *)
(* crash anywhere, leaving its lock and its path behind.  What a launch    *)
(* names is one value, the process itself.  The time a client waits has no *)
(* length: a wait may end at any time.                                     *)
(*                                                                         *)
(* A definition marked as a fault is a plausible wrong version of the one  *)
(* after it, kept to show which property would notice; no action uses it.  *)
(***************************************************************************)
EXTENDS Integers

CONSTANTS Processes,   \* starts of the program
          NoProcess,   \* nobody
          MaxAttempts  \* how often a client tries to connect (50 in the code)

ASSUME InstanceAssumption == NoProcess \notin Processes /\ MaxAttempts \in Nat \ {0}

VARIABLES pc,        \* how far each process has come
          lock,      \* the holder of the lock file, dead or alive
          endpoint,  \* the process the path of the socket leads to, dead or alive
          attempts,  \* failed attempts of each client to connect
          conn,      \* the player each client is connected to
          mail,      \* clients whose request is written and not yet read
          answers,   \* clients that were answered OK
          opened     \* history: whose files were added to whose playlist

vars == <<pc, lock, endpoint, attempts, conn, mail, answers, opened>>

Listening == {"listening", "serving", "closing"}
Holding == Listening \cup {"starting", "unlocking"}
Ended == {"answered", "failed", "quit", "crashed"}
States == Holding \cup Ended \cup {"idle", "connecting", "connected", "waiting"}

Init ==
    /\ pc = [p \in Processes |-> "idle"]
    /\ lock = NoProcess /\ endpoint = NoProcess
    /\ attempts = [p \in Processes |-> 0]
    /\ conn = [p \in Processes |-> NoProcess]
    /\ mail = {} /\ answers = {} /\ opened = {}

Go(p, state) == pc' = [pc EXCEPT ![p] = state]

-----------------------------------------------------------------------------
(***************************************************************************)
(* Becoming the player, and ceasing to be it.                              *)
(***************************************************************************)

\* tryLock(): a lock whose holder is dead is taken over.
LockFree == lock # NoProcess => pc[lock] \in Ended

\* Fault: the old path is removed before the lock is asked for.
LaunchRemovingFirst(p) ==
    /\ pc[p] = "idle"
    /\ \/ LockFree /\ lock' = p /\ Go(p, "starting")
       \/ ~LockFree /\ Go(p, "connecting") /\ UNCHANGED lock
    /\ endpoint' = NoProcess
    /\ UNCHANGED <<attempts, conn, mail, answers, opened>>

Launch(p) ==
    /\ pc[p] = "idle"
    /\ \/ LockFree /\ lock' = p /\ Go(p, "starting")
       \/ ~LockFree /\ Go(p, "connecting") /\ UNCHANGED lock
    /\ UNCHANGED <<endpoint, attempts, conn, mail, answers, opened>>

\* removeServer() and listen(), which may fail.
Listen(p) ==
    /\ pc[p] = "starting"
    /\ \/ endpoint' = p /\ Go(p, "listening")
       \/ endpoint' = NoProcess /\ Go(p, "unlocking")
    /\ UNCHANGED <<lock, attempts, conn, mail, answers, opened>>

\* Its own files are added, then the event loop runs.
Exec(p) ==
    /\ pc[p] = "listening"
    /\ Go(p, "serving")
    /\ opened' = opened \cup {<<p, p>>}
    /\ UNCHANGED <<lock, endpoint, attempts, conn, mail, answers>>

\* Fault: only a client that still waits is served.
HandleWaiting(p, c) ==
    /\ pc[p] = "serving"
    /\ c \in mail /\ conn[c] = p /\ pc[c] = "waiting"
    /\ mail' = mail \ {c}
    /\ opened' = opened \cup {<<c, p>>}
    /\ answers' = answers \cup {c}
    /\ UNCHANGED <<pc, lock, endpoint, attempts, conn>>

\* newConnection and readyRead: add the files, then answer.
Handle(p, c) ==
    /\ pc[p] = "serving"
    /\ c \in mail /\ conn[c] = p
    /\ mail' = mail \ {c}
    /\ opened' = opened \cup {<<c, p>>}
    /\ answers' = answers \cup {c}
    /\ UNCHANGED <<pc, lock, endpoint, attempts, conn>>

\* The event loop ends; the socket is still open.
Quit(p) ==
    /\ pc[p] = "serving"
    /\ Go(p, "closing")
    /\ UNCHANGED <<lock, endpoint, attempts, conn, mail, answers, opened>>

\* Fault: the lock is declared after the server, and destroyed before it.
DestroyLockFirst(p) ==
    /\ \/ /\ pc[p] = "closing" /\ Go(p, "unlocking")
          /\ lock' = NoProcess /\ UNCHANGED endpoint
       \/ /\ pc[p] = "unlocking" /\ Go(p, "quit")
          /\ endpoint' = NoProcess /\ UNCHANGED lock
    /\ UNCHANGED <<attempts, conn, mail, answers, opened>>

\* The end of main(): first the server, which removes the path whoever it leads
\* to, then the lock.
Destroy(p) ==
    /\ \/ /\ pc[p] = "closing" /\ Go(p, "unlocking")
          /\ endpoint' = NoProcess /\ UNCHANGED lock
       \/ /\ pc[p] = "unlocking" /\ Go(p, "quit")
          /\ lock' = NoProcess /\ UNCHANGED endpoint
    /\ UNCHANGED <<attempts, conn, mail, answers, opened>>

Crash(p) ==
    /\ pc[p] \notin Ended \cup {"idle"}
    /\ Go(p, "crashed")
    /\ UNCHANGED <<lock, endpoint, attempts, conn, mail, answers, opened>>

-----------------------------------------------------------------------------
(***************************************************************************)
(* Handing files over.  A client never asks for the lock again.            *)
(***************************************************************************)
Reachable == endpoint # NoProcess /\ pc[endpoint] \in Listening

Connect(c) ==
    /\ pc[c] = "connecting" /\ Reachable
    /\ conn' = [conn EXCEPT ![c] = endpoint]
    /\ Go(c, "connected")
    /\ UNCHANGED <<lock, endpoint, attempts, mail, answers, opened>>

\* Fault: off by one, an attempt too many is made.
ConnectFailsLate(c) ==
    /\ pc[c] = "connecting" /\ ~Reachable
    /\ attempts' = [attempts EXCEPT ![c] = @ + 1]
    /\ Go(c, IF attempts[c] = MaxAttempts THEN "failed" ELSE "connecting")
    /\ UNCHANGED <<lock, endpoint, conn, mail, answers, opened>>

\* Fault: the attempts are not counted.
ConnectFailsAgain(c) ==
    /\ pc[c] = "connecting" /\ ~Reachable
    /\ UNCHANGED vars

ConnectFails(c) ==
    /\ pc[c] = "connecting" /\ ~Reachable
    /\ attempts' = [attempts EXCEPT ![c] = @ + 1]
    /\ Go(c, IF attempts[c] + 1 = MaxAttempts THEN "failed" ELSE "connecting")
    /\ UNCHANGED <<lock, endpoint, conn, mail, answers, opened>>

\* write() and waitForBytesWritten(3000)
Write(c) ==
    /\ pc[c] = "connected"
    /\ \/ pc[conn[c]] \in Listening /\ mail' = mail \cup {c} /\ Go(c, "waiting")
       \/ Go(c, "failed") /\ UNCHANGED mail
    /\ UNCHANGED <<lock, endpoint, attempts, conn, answers, opened>>

ReadAnswer(c) ==
    /\ pc[c] = "waiting" /\ c \in answers
    /\ Go(c, "answered")
    /\ UNCHANGED <<lock, endpoint, attempts, conn, mail, answers, opened>>

\* Fault: a client that is not answered tries again.
GiveUpRetrying(c) ==
    /\ pc[c] = "waiting"
    /\ Go(c, "connecting")
    /\ UNCHANGED <<lock, endpoint, attempts, conn, mail, answers, opened>>

\* The 5 s of waitForReadyRead() are over, or the player closed the connection.
GiveUp(c) ==
    /\ pc[c] = "waiting"
    /\ Go(c, "failed")
    /\ UNCHANGED <<lock, endpoint, attempts, conn, mail, answers, opened>>

Player(p) == Listen(p) \/ Exec(p) \/ Destroy(p)
Client(c) == Connect(c) \/ ConnectFails(c) \/ Write(c) \/ ReadAnswer(c) \/ GiveUp(c)

Next == \E p \in Processes :
            \/ Launch(p) \/ Player(p) \/ Quit(p) \/ Crash(p) \/ Client(p)
            \/ \E c \in Processes : Handle(p, c)

Spec == Init /\ [][Next]_vars

\* Main threads go on and event loops serve every socket; nobody need quit.
Fairness == \A p \in Processes :
                /\ WF_vars(Player(p)) /\ WF_vars(Client(p))
                /\ \A c \in Processes : WF_vars(Handle(p, c))

FairSpec == Spec /\ Fairness

-----------------------------------------------------------------------------
(***************************************************************************)
(* Properties.                                                             *)
(***************************************************************************)

\* The variables hold values of their types (main.cpp:80-107).
TypeOK ==
    /\ pc \in [Processes -> States]
    /\ lock \in Processes \cup {NoProcess}
    /\ endpoint \in Processes \cup {NoProcess}
    /\ attempts \in [Processes -> 0 .. MaxAttempts]
    /\ conn \in [Processes -> Processes \cup {NoProcess}]
    /\ mail \subseteq Processes /\ answers \subseteq Processes
    /\ opened \subseteq Processes \X Processes

\* The path always leads to the player: no other start of the program, no
\* player that is just quitting and no leftover of a crash takes it away from a
\* player that listens (main.cpp:92-114, the order in which the lock and the
\* server are made and destroyed).
PlayerReachable == \A p \in Processes : pc[p] \in Listening => endpoint = p

\* A launch reports success only for files that one player has opened, and no
\* second player opens them again, however clients time out, players quit or
\* crash and others take over (main.cpp:93-107, 142-167).
Opening == INSTANCE FileOpening WITH
               Launches <- Processes,
               asked <- {p \in Processes : pc[p] # "idle"},
               told <- {p \in Processes : pc[p] = "answered"}
ImplementsFileOpening == Opening!Spec

\* A client always ends, with whatever result: it never waits for ever for a
\* player that has gone (main.cpp:95-106).
ClientsEnd == \A c \in Processes : pc[c] = "connecting" ~> pc[c] \in Ended

\* A request that has been written to a player is granted as long as the
\* player runs, even when the client has given up (main.cpp:144-167).
RequestsServed ==
    \A c, p \in Processes :
        (c \in mail /\ conn[c] = p) ~> (<<c, p>> \in opened \/ pc[p] \notin {"listening", "serving"})
=============================================================================
