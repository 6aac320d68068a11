----------------------------- MODULE DaemonProofs -----------------------------
(***************************************************************************)
(* memfluxd's loop, for any number of clients and any length of the listen *)
(* queue: the types of its state with the range of the threshold a client  *)
(* may set, and that no path through handle_client or out of the loop      *)
(* leaves a connection open.                                               *)
(***************************************************************************)
EXTENDS Daemon, TLAPS

Open(c) == cst[c] \in {"connected", "sent", "dead"}

Queued(c) == \E i \in DOMAIN queue : queue[i] = c

\* The daemon holds a connection exactly while it serves one.
Serving == cfd # None <=> dpc \in {"read", "blocked", "force", "write"}

\* No connection is queued twice, and the one being served has left the queue.
QueuedOnce ==
  /\ \A i, j \in DOMAIN queue : queue[i] = queue[j] => i = j
  /\ \A i \in DOMAIN queue : queue[i] # cfd

\* A client's connection is open if and only if the daemon still knows of it.
OpenKnown == \A c \in Clients : Open(c) <=> cfd = c \/ Queued(c)

DaemonIInv ==
  /\ DaemonTypeOK
  /\ Serving
  /\ QueuedOnce
  /\ OpenKnown
-----------------------------------------------------------------------------
(* Types, action by action.                                                *)

\* A request the daemon has read is one of Requests.
LEMMA ServedRequest ==
  ASSUME DaemonTypeOK, NEW c \in Clients, req[c] # None
  PROVE  /\ req[c].cmd = "ADJUST" => req[c].arg \in Args
         /\ req[c] \in Requests
  BY DEF DaemonTypeOK, Requests, Cmds

\* Closing connections keeps the types of the clients' states.
LEMMA ClosedTypes ==
  ASSUME DaemonTypeOK, NEW S, Closed(S)
  PROVE  /\ cst' \in [Clients -> {"idle", "connected", "sent", "dead", "closed"}]
         /\ req' \in [Clients -> Requests \cup {None}]
  BY DEF DaemonTypeOK, Closed

\* Accepting takes the first of the queue and moves the others up by one.
LEMMA HeadAndTail ==
  ASSUME NEW q \in Seq(Clients), q # << >>
  PROVE  /\ Head(q) \in Clients /\ Head(q) = q[1] /\ 1 \in DOMAIN q
         /\ Tail(q) \in Seq(Clients)
         /\ \A i \in DOMAIN Tail(q) : i + 1 \in DOMAIN q /\ i + 1 # 1 /\ Tail(q)[i] = q[i + 1]
         /\ \A i \in DOMAIN q : i = 1 \/ (i - 1 \in DOMAIN Tail(q) /\ Tail(q)[i - 1] = q[i])
         /\ \A i \in DOMAIN Tail(q) : i \in Int
         /\ \A i \in DOMAIN q : i \in Int
  OBVIOUS

\* Appending leaves what was there and adds one.
LEMMA Appended ==
  ASSUME NEW q \in Seq(Clients), NEW c \in Clients
  PROVE  /\ Append(q, c) \in Seq(Clients)
         /\ Len(q) + 1 \in DOMAIN Append(q, c)
         /\ Append(q, c)[Len(q) + 1] = c
         /\ \A i \in DOMAIN q : i \in DOMAIN Append(q, c) /\ Append(q, c)[i] = q[i]
         /\ \A i \in DOMAIN Append(q, c) : i \in DOMAIN q \/ i = Len(q) + 1
         /\ Len(q) + 1 \notin DOMAIN q
  OBVIOUS

\* ToSet as this module's proofs use it.
LEMMA ToSetQueue ==
  ASSUME NEW c
  PROVE  c \in ToSet(queue) <=> Queued(c)
  BY DEF ToSet, Queued

\* Every step keeps the types; the threshold changes only to an argument between the
\* bounds that handle_client checks.
LEMMA DaemonTypeStep ==
  ASSUME DaemonTypeOK, Serving, [DaemonNext]_dvars
  PROVE  DaemonTypeOK'
  <1> USE DEF state, conns
  <1>1. CASE UNCHANGED dvars
    BY <1>1 DEF DaemonTypeOK, dvars
  <1>2. CASE \E c \in Clients : ClientStep(c)
    <2> PICK c \in Clients : ClientStep(c)
      BY <1>2
    <2>1. CASE Connect(c)
      <3>1. queue' \in Seq(Clients)
        BY <2>1, Appended DEF Connect, DaemonTypeOK
      <3> QED
        BY <2>1, <3>1 DEF Connect, DaemonTypeOK
    <2>2. CASE Send(c)
      <3>1. req' \in [Clients -> Requests \cup {None}]
        BY <2>2 DEF Send, DaemonTypeOK
      <3> QED
        BY <2>2, <3>1 DEF Send, DaemonTypeOK
    <2>3. CASE Die(c)
      BY <2>3 DEF Die, DaemonTypeOK
    <2>4. CASE Return(c)
      BY <2>4 DEF Return, DaemonTypeOK
    <2> QED
      BY <2>1, <2>2, <2>3, <2>4 DEF ClientStep
  <1>3. CASE Tick
    BY <1>3 DEF Tick, DaemonTypeOK
  <1>4. CASE on_signal
    <2>1. CASE dpc = "blocked"
      <3>1. Closed({cfd})
        BY <1>4, <2>1 DEF on_signal
      <3> QED
        BY <1>4, <2>1, <3>1, ClosedTypes DEF on_signal, DaemonTypeOK, AfterClient
    <2>2. CASE dpc # "blocked"
      BY <1>4, <2>2 DEF on_signal, DaemonTypeOK
    <2> QED
      BY <2>1, <2>2
  <1>5. CASE DaemonStep
    <2>1. CASE LoopAgain
      BY <2>1 DEF LoopAgain, DaemonTypeOK
    <2>2. CASE Stop
      <3>1. << >> \in Seq(Clients) /\ Closed(ToSet(queue))
        BY <2>2 DEF Stop
      <3> QED
        BY <2>2, <3>1, ClosedTypes DEF Stop, DaemonTypeOK
    <2>3. CASE Accept
      <3>1. cfd' \in Clients /\ queue' \in Seq(Clients)
        BY <2>3, HeadAndTail DEF Accept, DaemonTypeOK
      <3> QED
        BY <2>3, <3>1 DEF Accept, DaemonTypeOK
    <2>4. CASE NoClient
      BY <2>4 DEF NoClient, DaemonTypeOK, AfterClient
    <2>5. CASE ReadBlocks
      BY <2>5 DEF ReadBlocks, DaemonTypeOK
    <2>6. CASE ReadFails
      <3>1. Closed({cfd})
        BY <2>6 DEF ReadFails
      <3> QED
        BY <2>6, <3>1, ClosedTypes DEF ReadFails, DaemonTypeOK, AfterClient
    <2>7. CASE Serve
      <3>1. cfd \in Clients /\ req[cfd] # None
        BY <2>7 DEF Serve, Serving, DaemonTypeOK
      <3>2. g_paused' \in BOOLEAN
        BY <2>7 DEF Serve, DaemonTypeOK
      <3>3. psi_threshold' \in 2 .. 999
        <4>1. CASE req[cfd].cmd = "ADJUST" /\ Adjustable(req[cfd].arg)
          <5>1. req[cfd].arg \in Nat /\ psi_threshold' = req[cfd].arg
            BY <2>7, <3>1, <4>1, ServedRequest, DaemonAssumption DEF Serve, DaemonAssumption
          <5>2. \A a \in Nat : Adjustable(a) => a \in 2 .. 999
            BY DEF Adjustable
          <5>3. req[cfd].arg \in 2 .. 999
            BY <4>1, <5>1, <5>2
          <5> QED
            BY <5>1, <5>3
        <4>2. CASE ~ (req[cfd].cmd = "ADJUST" /\ Adjustable(req[cfd].arg))
          BY <2>7, <4>2 DEF Serve, DaemonTypeOK
        <4> QED
          BY <4>1, <4>2
      <3> QED
        BY <2>7, <3>2, <3>3 DEF Serve, DaemonTypeOK
    <2>8. CASE ForceCycle
      BY <2>8 DEF ForceCycle, DaemonTypeOK
    <2>9. CASE Answer
      <3>1. Closed({cfd})
        BY <2>9 DEF Answer
      <3> QED
        BY <2>9, <3>1, ClosedTypes DEF Answer, DaemonTypeOK, AfterClient
    <2>10. CASE Sigpipe
      <3>1. << >> \in Seq(Clients) /\ Closed({cfd} \cup ToSet(queue))
        BY <2>10 DEF Sigpipe
      <3> QED
        BY <2>10, <3>1, ClosedTypes DEF Sigpipe, DaemonTypeOK
    <2>11. CASE Sleep
      BY <2>11 DEF Sleep, DaemonTypeOK, AfterSleep
    <2>12. CASE StartCycle
      BY <2>12 DEF StartCycle, DaemonTypeOK
    <2>13. CASE EndCycle
      BY <2>13 DEF EndCycle, DaemonTypeOK
    <2> QED
      BY <1>5, <2>1, <2>2, <2>3, <2>4, <2>5, <2>6, <2>7, <2>8, <2>9, <2>10, <2>11, <2>12,
         <2>13 DEF DaemonStep
  <1> QED
    BY <1>1, <1>2, <1>3, <1>4, <1>5 DEF DaemonNext
-----------------------------------------------------------------------------
(* The connections, action by action.                                      *)

\* Closing the connections of S leaves open exactly the others.
LEMMA ClosedOpen ==
  ASSUME DaemonTypeOK, NEW S, Closed(S), NEW c \in Clients
  PROVE  Open(c)' <=> Open(c) /\ c \notin S
  BY DEF DaemonTypeOK, Closed, Open

Conn == Serving /\ QueuedOnce /\ OpenKnown

\* A step that closes the connection being served and lets the queue alone.
LEMMA EndClient ==
  ASSUME DaemonTypeOK, Conn, cfd # None, Closed({cfd}), cfd' = None, queue' = queue, dpc' = "timer"
  PROVE  Conn'
  <1>1. Serving'
    BY DEF Serving
  <1>2. QueuedOnce'
    BY DaemonAssumption DEF QueuedOnce, Conn, DaemonTypeOK, DaemonAssumption
  <1>3. OpenKnown'
    <2>1. ASSUME NEW c \in Clients PROVE Open(c)' <=> (cfd = c \/ Queued(c))'
      <3>1. Open(c)' <=> Open(c) /\ c # cfd
        BY ClosedOpen
      <3>2. cfd' # c
        BY DaemonAssumption DEF DaemonAssumption
      <3>3. Queued(c)' <=> Queued(c)
        BY DEF Queued
      <3>4. Queued(cfd) => FALSE
        BY DEF Queued, QueuedOnce, Conn
      <3> QED
        BY <3>1, <3>2, <3>3, <3>4 DEF OpenKnown, Conn
    <2> QED
      BY <2>1 DEF OpenKnown
  <1> QED
    BY <1>1, <1>2, <1>3 DEF Conn

\* The end of the daemon: every connection it knows of is closed.
LEMMA EndDaemon ==
  ASSUME DaemonTypeOK, Conn, NEW S, Closed(S), \A c \in Clients : cfd = c \/ Queued(c) => c \in S,
         cfd' = None, queue' = << >>, dpc' \in {"exited", "killed"}
  PROVE  Conn'
  <1>1. Serving'
    BY DEF Serving
  <1>2. DOMAIN queue' = {}
    OBVIOUS
  <1>3. QueuedOnce'
    BY <1>2 DEF QueuedOnce
  <1>4. OpenKnown'
    <2>1. ASSUME NEW c \in Clients PROVE Open(c)' <=> (cfd = c \/ Queued(c))'
      <3>1. ~ Open(c)'
        BY ClosedOpen DEF OpenKnown, Conn
      <3>2. cfd' # c
        BY DaemonAssumption DEF DaemonAssumption
      <3>3. ~ Queued(c)'
        BY <1>2 DEF Queued
      <3> QED
        BY <3>1, <3>2, <3>3
    <2> QED
      BY <2>1 DEF OpenKnown
  <1> QED
    BY <1>1, <1>3, <1>4 DEF Conn

\* A step that leaves the connections as they are, and serves one if it served one.
LEMMA SameConns ==
  ASSUME Conn, UNCHANGED <<queue, cfd>>,
         \A c \in Clients : Open(c)' <=> Open(c),
         dpc' \in {"read", "blocked", "force", "write"} <=>
           dpc \in {"read", "blocked", "force", "write"}
  PROVE  Conn'
  <1>1. Serving'
    BY DEF Serving, Conn
  <1>2. QueuedOnce'
    BY DEF QueuedOnce, Conn
  <1>3. OpenKnown'
    BY DEF OpenKnown, Conn, Queued
  <1> QED
    BY <1>1, <1>2, <1>3 DEF Conn

\* A connection is queued.
LEMMA ConnectConn ==
  ASSUME DaemonTypeOK, Conn, NEW k \in Clients, Connect(k)
  PROVE  Conn'
  <1>1. queue \in Seq(Clients) /\ queue' = Append(queue, k) /\ cfd' = cfd /\ dpc' = dpc
    BY DEF Connect, DaemonTypeOK, state
  <1>2. ~ Open(k)
    BY DEF Connect, Open
  <1>3. ~ Queued(k) /\ cfd # k
    BY <1>2 DEF Conn, OpenKnown
  <1>4. /\ Len(queue) + 1 \in DOMAIN queue'
        /\ queue'[Len(queue) + 1] = k
        /\ \A i \in DOMAIN queue : i \in DOMAIN queue' /\ queue'[i] = queue[i]
        /\ \A i \in DOMAIN queue' : i \in DOMAIN queue \/ i = Len(queue) + 1
    BY <1>1, Appended
  <1>5. Serving'
    BY <1>1 DEF Serving, Conn
  <1>6. QueuedOnce'
    <2>1. \A i \in DOMAIN queue' : queue'[i] # cfd'
      BY <1>1, <1>3, <1>4 DEF QueuedOnce, Conn
    <2>2. \A i, j \in DOMAIN queue' : queue'[i] = queue'[j] => i = j
      BY <1>3, <1>4 DEF QueuedOnce, Conn, Queued
    <2> QED
      BY <2>1, <2>2 DEF QueuedOnce
  <1>7. \A c \in Clients : Queued(c)' <=> Queued(c) \/ c = k
    BY <1>4 DEF Queued
  <1>8. \A c \in Clients : Open(c)' <=> Open(c) \/ c = k
    BY DEF Open, Connect, DaemonTypeOK
  <1>9. OpenKnown'
    BY <1>1, <1>7, <1>8 DEF OpenKnown, Conn
  <1> QED
    BY <1>5, <1>6, <1>9 DEF Conn

\* A connection leaves the queue to be served.
LEMMA AcceptConn ==
  ASSUME DaemonTypeOK, Conn, Accept
  PROVE  Conn'
  <1>1. /\ queue \in Seq(Clients) /\ queue # << >> /\ queue' = Tail(queue) /\ cfd' = Head(queue)
        /\ dpc' = "read" /\ dpc = "accept" /\ cst' = cst
    BY DEF Accept, DaemonTypeOK
  <1>2. /\ cfd' \in Clients /\ cfd' = queue[1] /\ 1 \in DOMAIN queue
        /\ \A i \in DOMAIN queue' : /\ i + 1 \in DOMAIN queue /\ i + 1 # 1 /\ i \in Int
                                   /\ queue'[i] = queue[i + 1]
        /\ \A i \in DOMAIN queue : i = 1 \/ (i - 1 \in DOMAIN queue' /\ queue'[i - 1] = queue[i])
    BY <1>1, HeadAndTail
  <1>3. cfd = None
    BY <1>1 DEF Serving, Conn
  <1>4. Serving'
    BY <1>1, <1>2, DaemonAssumption DEF Serving, DaemonAssumption
  <1>5. QueuedOnce'
    <2>1. \A i \in DOMAIN queue' : queue'[i] # cfd'
      BY <1>2 DEF QueuedOnce, Conn
    <2>2. ASSUME NEW i \in DOMAIN queue', NEW j \in DOMAIN queue', queue'[i] = queue'[j]
          PROVE  i = j
      <3>1. i + 1 = j + 1 /\ i \in Int /\ j \in Int
        BY <1>2, <2>2 DEF QueuedOnce, Conn
      <3> QED
        BY <3>1
    <2> QED
      BY <2>1, <2>2 DEF QueuedOnce
  <1>6. \A c \in Clients : Queued(c) <=> Queued(c)' \/ cfd' = c
    BY <1>2 DEF Queued
  <1>7. \A c \in Clients : cfd # c
    BY <1>3, DaemonAssumption DEF DaemonAssumption
  <1>8. \A c \in Clients : Open(c)' <=> Open(c)
    BY <1>1 DEF Open
  <1>9. OpenKnown'
    BY <1>6, <1>7, <1>8 DEF OpenKnown, Conn
  <1> QED
    BY <1>4, <1>5, <1>9 DEF Conn

\* Every step keeps the connections accounted for.
LEMMA ConnStep ==
  ASSUME DaemonTypeOK, Conn, [DaemonNext]_dvars
  PROVE  Conn'
  <1> USE DEF state, conns
  <1> DEFINE Served == {"read", "blocked", "force", "write"}
  <1>0. cst \in [Clients -> {"idle", "connected", "sent", "dead", "closed"}]
    BY DEF DaemonTypeOK
  <1>1. CASE UNCHANGED dvars
    BY <1>1, SameConns DEF dvars, Open
  <1>2. CASE \E c \in Clients : ClientStep(c)
    <2> PICK k \in Clients : ClientStep(k)
      BY <1>2
    <2>1. CASE Connect(k)
      BY <2>1, ConnectConn
    <2>2. CASE Send(k)
      <3>1. \A c \in Clients : Open(c)' <=> Open(c)
        BY <1>0, <2>2 DEF Open, Send
      <3>2. UNCHANGED <<queue, cfd>> /\ (dpc' \in Served <=> dpc \in Served)
        BY <2>2 DEF Send
      <3> QED
        BY <3>1, <3>2, SameConns
    <2>3. CASE Die(k)
      <3>1. \A c \in Clients : Open(c)' <=> Open(c)
        BY <1>0, <2>3 DEF Open, Die
      <3>2. UNCHANGED <<queue, cfd>> /\ (dpc' \in Served <=> dpc \in Served)
        BY <2>3 DEF Die
      <3> QED
        BY <3>1, <3>2, SameConns
    <2>4. CASE Return(k)
      <3>1. \A c \in Clients : Open(c)' <=> Open(c)
        BY <1>0, <2>4 DEF Open, Return
      <3>2. UNCHANGED <<queue, cfd>> /\ (dpc' \in Served <=> dpc \in Served)
        BY <2>4 DEF Return
      <3> QED
        BY <3>1, <3>2, SameConns
    <2> QED
      BY <2>1, <2>2, <2>3, <2>4 DEF ClientStep
  <1>3. CASE Tick
    BY <1>3, SameConns DEF Tick, Open
  <1>4. CASE on_signal
    <2>1. CASE dpc = "blocked"
      <3>1. /\ Closed({cfd}) /\ cfd' = None /\ queue' = queue /\ dpc' = "timer"
            /\ cfd # None
        BY <1>4, <2>1 DEF on_signal, AfterClient, Conn, Serving
      <3> QED
        BY <3>1, EndClient
    <2>2. CASE dpc # "blocked"
      BY <1>4, <2>2, SameConns DEF on_signal, Open
    <2> QED
      BY <2>1, <2>2
  <1>5. CASE DaemonStep
    <2>1. CASE LoopAgain
      BY <2>1, SameConns DEF LoopAgain, Open
    <2>2. CASE Stop
      <3>1. cfd = None /\ cfd' = cfd /\ queue' = << >> /\ dpc' = "exited" /\ Closed(ToSet(queue))
        BY <2>2 DEF Stop, Conn, Serving
      <3>2. \A c \in Clients : cfd = c \/ Queued(c) => c \in ToSet(queue)
        BY <3>1, ToSetQueue, DaemonAssumption DEF DaemonAssumption
      <3> QED
        BY <3>1, <3>2, EndDaemon
    <2>3. CASE Accept
      BY <2>3, AcceptConn
    <2>4. CASE NoClient
      BY <2>4, SameConns DEF NoClient, Open, AfterClient
    <2>5. CASE ReadBlocks
      BY <2>5, SameConns DEF ReadBlocks, Open
    <2>6. CASE ReadFails
      <3>1. /\ Closed({cfd}) /\ cfd' = None /\ queue' = queue /\ dpc' = "timer"
            /\ cfd # None
        BY <2>6 DEF ReadFails, AfterClient, Conn, Serving
      <3> QED
        BY <3>1, EndClient
    <2>7. CASE Serve
      BY <2>7, SameConns DEF Serve, Open
    <2>8. CASE ForceCycle
      BY <2>8, SameConns DEF ForceCycle, Open
    <2>9. CASE Answer
      <3>1. /\ Closed({cfd}) /\ cfd' = None /\ queue' = queue /\ dpc' = "timer"
            /\ cfd # None
        BY <2>9 DEF Answer, AfterClient, Conn, Serving
      <3> QED
        BY <3>1, EndClient
    <2>10. CASE Sigpipe
      <3>1. /\ cfd' = None /\ queue' = << >> /\ dpc' = "killed"
            /\ Closed({cfd} \cup ToSet(queue))
        BY <2>10 DEF Sigpipe
      <3>2. \A c \in Clients : cfd = c \/ Queued(c) => c \in {cfd} \cup ToSet(queue)
        BY ToSetQueue
      <3> QED
        BY <3>1, <3>2, EndDaemon
    <2>11. CASE Sleep
      BY <2>11, SameConns DEF Sleep, Open, AfterSleep
    <2>12. CASE StartCycle
      BY <2>12, SameConns DEF StartCycle, Open
    <2>13. CASE EndCycle
      BY <2>13, SameConns DEF EndCycle, Open
    <2> QED
      BY <1>5, <2>1, <2>2, <2>3, <2>4, <2>5, <2>6, <2>7, <2>8, <2>9, <2>10, <2>11, <2>12,
         <2>13 DEF DaemonStep
  <1> QED
    BY <1>1, <1>2, <1>3, <1>4, <1>5 DEF DaemonNext
-----------------------------------------------------------------------------
(* The theorems.                                                           *)

LEMMA DaemonInitially == DaemonInit => DaemonIInv
  <1> SUFFICES ASSUME DaemonInit PROVE DaemonIInv
    OBVIOUS
  <1>1. DaemonTypeOK
    <2>1. << >> \in Seq(Clients) /\ 200 \in 2 .. 999
      OBVIOUS
    <2>2. cst \in [Clients -> {"idle", "connected", "sent", "dead", "closed"}]
      BY DEF DaemonInit
    <2>3. req \in [Clients -> Requests \cup {None}]
      BY DEF DaemonInit
    <2> QED
      BY <2>1, <2>2, <2>3 DEF DaemonInit, DaemonTypeOK
  <1>2. DOMAIN queue = {}
    BY DEF DaemonInit
  <1>3. Serving
    BY DEF DaemonInit, Serving
  <1>4. QueuedOnce
    BY <1>2 DEF QueuedOnce
  <1>5. OpenKnown
    BY <1>2, DaemonAssumption DEF DaemonInit, OpenKnown, Open, Queued, DaemonAssumption
  <1> QED
    BY <1>1, <1>3, <1>4, <1>5 DEF DaemonIInv

LEMMA DaemonInductive == DaemonIInv /\ [DaemonNext]_dvars => DaemonIInv'
  <1> SUFFICES ASSUME DaemonIInv, [DaemonNext]_dvars PROVE DaemonIInv'
    OBVIOUS
  <1>1. DaemonTypeOK /\ Serving /\ Conn
    BY DEF DaemonIInv, Conn
  <1>2. DaemonTypeOK'
    BY <1>1, DaemonTypeStep
  <1>3. Conn'
    BY <1>1, ConnStep
  <1> QED
    BY <1>2, <1>3 DEF DaemonIInv, Conn

\* An open connection is known in exactly one place.
LEMMA KnownOnce == DaemonIInv => NoConnectionLeak
  <1> SUFFICES ASSUME DaemonIInv, NEW c \in Clients
               PROVE  Open(c) <=>
                        \/ cfd = c /\ c \notin ToSet(queue)
                        \/ cfd # c /\ \E i \in DOMAIN queue :
                             \A j \in DOMAIN queue : queue[j] = c <=> i = j
    BY DEF NoConnectionLeak, Open
  <1>1. Open(c) <=> cfd = c \/ Queued(c)
    BY DEF DaemonIInv, OpenKnown
  <1>2. c \in ToSet(queue) <=> Queued(c)
    BY ToSetQueue
  <1>3. ~ (cfd = c /\ Queued(c))
    BY DEF DaemonIInv, QueuedOnce, Queued
  <1>4. Queued(c) <=> \E i \in DOMAIN queue : \A j \in DOMAIN queue : queue[j] = c <=> i = j
    BY DEF DaemonIInv, QueuedOnce, Queued
  <1> QED
    BY <1>1, <1>2, <1>3, <1>4

\* The state of the loop keeps its types, and whatever clients ask of C_ADJUST the
\* threshold of the running engine stays strictly between 0.001 and 1.
THEOREM DaemonTypeCorrect == DaemonSpec => []DaemonTypeOK
  <1>1. DaemonIInv => DaemonTypeOK
    BY DEF DaemonIInv
  <1> QED
    BY <1>1, DaemonInitially, DaemonInductive, PTL DEF DaemonSpec

\* However clients come, write, die and are served, and wherever a signal arrives,
\* every connection still open is in the listen queue once or is the one being served.
THEOREM DaemonNoConnectionLeak == DaemonSpec => []NoConnectionLeak
  BY DaemonInitially, DaemonInductive, KnownOnce, PTL DEF DaemonSpec
===============================================================================
