------------------------ MODULE SingleInstanceProofs ------------------------
(***************************************************************************)
(* What SingleInstance guarantees for any number of processes and of       *)
(* attempts, proved.                                                       *)
(***************************************************************************)
EXTENDS SingleInstance, TLAPS

\* Who is, was just, or is about to be the player holds the lock.
LockHeld == \A p \in Processes : pc[p] \in Holding => lock = p

\* A client that still tries has an attempt left.
Tries == \A p \in Processes : pc[p] \in {"idle", "connecting"} => attempts[p] < MaxAttempts

\* The files of a launch that has not got that far are not open.
NotYetOpened ==
    \A p, q \in Processes :
        pc[p] \in {"idle", "starting", "listening", "connecting", "connected"}
            => <<p, q>> \notin opened

\* Nor are those of a request no player has read; its client has written it.
MailUnopened ==
    \A c \in mail : /\ pc[c] \in {"waiting", "failed", "crashed"}
                    /\ \A q \in Processes : <<c, q>> \notin opened

OpenedOnce ==
    \A c, p, q \in Processes : <<c, p>> \in opened /\ <<c, q>> \in opened => p = q

AnswersTrue == \A c \in answers : \E p \in Processes : <<c, p>> \in opened

Answered == \A c \in Processes : pc[c] = "answered" => c \in answers

Handover == NotYetOpened /\ MailUnopened /\ OpenedOnce /\ AnswersTrue /\ Answered

Inv == TypeOK /\ LockHeld /\ PlayerReachable /\ Tries /\ Handover

-----------------------------------------------------------------------------
LEMMA InitInv == Init => Inv
BY InstanceAssumption
DEF Init, Inv, TypeOK, States, Holding, Listening, Ended, LockHeld, PlayerReachable,
    Tries, Handover, NotYetOpened, MailUnopened, OpenedOnce, AnswersTrue, Answered

\* The launches, from locking to the event loop.
LEMMA LaunchKeeps ==
    ASSUME Inv, NEW p \in Processes, Launch(p)
    PROVE  Inv'
<1> USE InstanceAssumption DEF Inv, Launch, Go
<1>1. TypeOK'
  BY DEF TypeOK, States, Holding
<1>2. LockHeld' /\ PlayerReachable' /\ Tries'
  BY DEF TypeOK, Tries, LockHeld, PlayerReachable, LockFree, Holding, Listening, Ended
<1>3. NotYetOpened' /\ MailUnopened' /\ Answered'
  BY DEF TypeOK, Handover, NotYetOpened, MailUnopened, Answered
<1>4. OpenedOnce' /\ AnswersTrue'
  BY DEF Handover, OpenedOnce, AnswersTrue
<1>5. QED
  BY <1>1, <1>2, <1>3, <1>4 DEF Handover

LEMMA ListenKeeps ==
    ASSUME Inv, NEW p \in Processes, Listen(p)
    PROVE  Inv'
<1> USE InstanceAssumption DEF Inv, Listen, Go
<1>1. TypeOK'
  BY DEF TypeOK, States, Holding, Listening
<1>2. LockHeld' /\ PlayerReachable' /\ Tries'
  BY DEF TypeOK, Tries, LockHeld, PlayerReachable, Holding, Listening
<1>3. NotYetOpened' /\ MailUnopened' /\ Answered'
  BY DEF TypeOK, Handover, NotYetOpened, MailUnopened, Answered
<1>4. OpenedOnce' /\ AnswersTrue'
  BY DEF Handover, OpenedOnce, AnswersTrue
<1>5. QED
  BY <1>1, <1>2, <1>3, <1>4 DEF Handover

LEMMA ExecKeeps ==
    ASSUME Inv, NEW p \in Processes, Exec(p)
    PROVE  Inv'
<1> USE InstanceAssumption DEF Inv, Exec, Go
<1>1. TypeOK'
  BY DEF TypeOK, States, Holding, Listening
<1>2. LockHeld' /\ PlayerReachable' /\ Tries'
  BY DEF TypeOK, Tries, LockHeld, PlayerReachable, Holding, Listening
<1>3. NotYetOpened' /\ MailUnopened' /\ Answered'
  BY DEF TypeOK, Handover, NotYetOpened, MailUnopened, Answered
<1>4. OpenedOnce' /\ AnswersTrue'
  BY DEF TypeOK, Handover, NotYetOpened, OpenedOnce, AnswersTrue
<1>5. QED
  BY <1>1, <1>2, <1>3, <1>4 DEF Handover

\* A request is read once, answered once.
LEMMA HandleKeeps ==
    ASSUME Inv, NEW p \in Processes, NEW c \in Processes, Handle(p, c)
    PROVE  Inv'
<1> USE InstanceAssumption DEF Inv, Handle
<1>1. TypeOK'
  BY DEF TypeOK
<1>2. LockHeld' /\ PlayerReachable' /\ Tries'
  BY DEF Tries, LockHeld, PlayerReachable
<1>3. NotYetOpened' /\ MailUnopened' /\ Answered'
  BY DEF TypeOK, Handover, NotYetOpened, MailUnopened, Answered
<1>4. OpenedOnce' /\ AnswersTrue'
  BY DEF TypeOK, Handover, MailUnopened, OpenedOnce, AnswersTrue
<1>5. QED
  BY <1>1, <1>2, <1>3, <1>4 DEF Handover

\* The path is removed before anybody else can get the lock.
LEMMA EndKeeps ==
    ASSUME Inv, NEW p \in Processes, Quit(p) \/ Destroy(p) \/ Crash(p)
    PROVE  Inv'
<1> USE InstanceAssumption DEF Inv, Quit, Destroy, Crash, Go
<1>1. TypeOK'
  BY DEF TypeOK, States, Holding, Listening, Ended
<1>2. LockHeld' /\ PlayerReachable' /\ Tries'
  BY DEF TypeOK, Tries, LockHeld, PlayerReachable, Holding, Listening, Ended
<1>3. NotYetOpened' /\ MailUnopened' /\ Answered'
  BY DEF TypeOK, Handover, NotYetOpened, MailUnopened, Answered, Ended
<1>4. OpenedOnce' /\ AnswersTrue'
  BY DEF Handover, OpenedOnce, AnswersTrue
<1>5. QED
  BY <1>1, <1>2, <1>3, <1>4 DEF Handover

LEMMA ClientKeeps ==
    ASSUME Inv, NEW c \in Processes, Client(c)
    PROVE  Inv'
<1> USE InstanceAssumption
    DEF Inv, Connect, ConnectFails, Write, ReadAnswer, GiveUp, Reachable, Go
<1>1. TypeOK' /\ Tries'
  <2>1. pc' \in [Processes -> States]
    BY DEF Client, TypeOK, States, Ended
  <2>2. attempts' \in [Processes -> 0 .. MaxAttempts] /\ Tries'
    <3>1. CASE ConnectFails(c)
      <4>1. attempts[c] \in 0 .. MaxAttempts - 1
        BY <3>1 DEF TypeOK, Tries
      <4>2. QED
        BY <3>1, <4>1 DEF TypeOK, Tries
    <3>2. CASE Connect(c) \/ Write(c) \/ ReadAnswer(c) \/ GiveUp(c)
      BY <3>2 DEF TypeOK, Tries
    <3>3. QED
      BY <3>1, <3>2, Zenon DEF Client
  <2>3. QED
    BY <2>1, <2>2 DEF Client, TypeOK
<1>2. LockHeld' /\ PlayerReachable'
  BY DEF Client, TypeOK, LockHeld, PlayerReachable, Holding, Listening
<1>3. NotYetOpened'
  BY DEF Client, TypeOK, Handover, NotYetOpened
<1>4. Answered'
  BY DEF Client, TypeOK, Handover, Answered
<1>5. MailUnopened'
  <2>1. CASE Write(c)
    BY <2>1 DEF TypeOK, Handover, NotYetOpened, MailUnopened
  <2>2. CASE ReadAnswer(c)
    <3>1. c \notin mail
      BY <2>2 DEF Handover, MailUnopened, AnswersTrue
    <3>2. QED
      BY <2>2, <3>1 DEF TypeOK, Handover, MailUnopened
  <2>3. CASE Connect(c) \/ ConnectFails(c) \/ GiveUp(c)
    BY <2>3 DEF TypeOK, Handover, MailUnopened
  <2>4. QED
    BY <2>1, <2>2, <2>3, Zenon DEF Client
<1>6. OpenedOnce' /\ AnswersTrue'
  BY DEF Client, Handover, OpenedOnce, AnswersTrue
<1>7. QED
  BY <1>1, <1>2, <1>3, <1>4, <1>5, <1>6 DEF Handover

LEMMA NextInv == Inv /\ [Next]_vars => Inv'
<1> SUFFICES ASSUME Inv, [Next]_vars
             PROVE  Inv'
  OBVIOUS
<1>1. ASSUME NEW p \in Processes, Launch(p) PROVE Inv'
  BY <1>1, LaunchKeeps
<1>2. ASSUME NEW p \in Processes, Player(p) \/ Quit(p) \/ Crash(p) PROVE Inv'
  BY <1>2, ListenKeeps, ExecKeeps, EndKeeps DEF Player
<1>3. ASSUME NEW p \in Processes, Client(p) PROVE Inv'
  BY <1>3, ClientKeeps
<1>4. ASSUME NEW p \in Processes, NEW c \in Processes, Handle(p, c) PROVE Inv'
  BY <1>4, HandleKeeps
<1>5. CASE UNCHANGED vars
  BY <1>5 DEF vars, Inv, TypeOK, LockHeld, PlayerReachable, Tries, Handover, NotYetOpened,
              MailUnopened, OpenedOnce, AnswersTrue, Answered
<1>6. QED
  BY <1>1, <1>2, <1>3, <1>4, <1>5, Zenon DEF Next

LEMMA Invariance == Spec => []Inv
BY InitInv, NextInv, PTL DEF Spec

\* However many processes are started, quit and crash in whatever order, the
\* path of the socket leads to the player as long as it listens
\* (main.cpp:92-114).
THEOREM PlayerStaysReachable == Spec => [](TypeOK /\ PlayerReachable)
<1>1. Inv => TypeOK /\ PlayerReachable
  BY DEF Inv
<1>2. QED
  BY <1>1, Invariance, PTL

-----------------------------------------------------------------------------
(***************************************************************************)
(* The refinement of FileOpening.                                          *)
(***************************************************************************)
LEMMA OpeningInit == Init => Opening!Init
BY DEF Init, Opening!Init

LEMMA OpeningStep ==
    ASSUME Inv, [Next]_vars
    PROVE  [Opening!Next]_(Opening!vars)
<1> USE DEF Inv, Go
<1>1. ASSUME NEW p \in Processes, Launch(p)
      PROVE  Opening!Ask(p)
  BY <1>1 DEF Launch, Opening!Ask, TypeOK
<1>2. ASSUME NEW p \in Processes, Exec(p)
      PROVE  Opening!Open(p, p)
  BY <1>2 DEF Exec, Opening!Open, TypeOK, Handover, NotYetOpened
<1>3. ASSUME NEW p \in Processes, NEW c \in Processes, Handle(p, c)
      PROVE  Opening!Open(c, p)
  BY <1>3 DEF Handle, Opening!Open, TypeOK, Handover, MailUnopened
<1>4. ASSUME NEW c \in Processes, ReadAnswer(c)
      PROVE  Opening!Tell(c)
  BY <1>4 DEF ReadAnswer, Opening!Tell, TypeOK, Handover, AnswersTrue
<1>5. ASSUME NEW p \in Processes, Listen(p) \/ Destroy(p) \/ Quit(p) \/ Crash(p)
      PROVE  UNCHANGED Opening!vars
  BY <1>5 DEF Listen, Destroy, Quit, Crash, Opening!vars, TypeOK, Ended
<1>6. ASSUME NEW c \in Processes, Connect(c) \/ ConnectFails(c) \/ Write(c) \/ GiveUp(c)
      PROVE  UNCHANGED Opening!vars
  BY <1>6 DEF Connect, ConnectFails, Write, GiveUp, Opening!vars, TypeOK
<1>7. CASE UNCHANGED vars
  BY <1>7 DEF vars, Opening!vars
<1>8. CASE Next
  BY <1>1, <1>2, <1>3, <1>4, <1>5, <1>6, <1>8, Zenon DEF Next, Player, Client, Opening!Next
<1>9. QED
  BY <1>7, <1>8

\* However clients time out and players come and go: a launch that reports
\* success has had its files opened, by one player (main.cpp:93-107, 142-167).
THEOREM HandoverImplementsOpening == Spec => ImplementsFileOpening
<1>1. Inv /\ [Next]_vars => [Opening!Next]_(Opening!vars)
  BY OpeningStep
<1>2. QED
  BY <1>1, OpeningInit, Invariance, PTL DEF Spec, ImplementsFileOpening, Opening!Spec
=============================================================================
