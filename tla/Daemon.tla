-------------------------------- MODULE Daemon --------------------------------
(***************************************************************************)
(* memfluxd's main loop and its clients.  One thread accepts a client,     *)
(* serves it, runs a cycle of the engine when one is due, and does so      *)
(* until a signal clears g_run.  Clients are runs of memfluxctl: connect,  *)
(* write one request, read until the daemon closes.  A client may be       *)
(* interrupted at any time, and a signal may arrive between any two steps  *)
(* of the daemon, before it blocks in read or while it is blocked there.   *)
(*                                                                         *)
(* Abstractions.  A request is its command, with the argument of           *)
(* C_ADJUST; answers are not modelled beyond their being sent.  The clock  *)
(* is whether the next cycle is due.  Engine.tla models the cycles.        *)
(***************************************************************************)
EXTENDS Integers, Sequences, SequencesExt

CONSTANTS
  Clients,
  MayDie,           \* the clients that may be interrupted
  Args,             \* arguments of adjust, in thousandths
  MaxQueue,         \* connections the kernel queues: those of listen(fd, 4)
  SigpipeIgnored,   \* the parent left SIGPIPE ignored, as systemd does
  None

ASSUME DaemonAssumption ==
  /\ MayDie \subseteq Clients
  /\ Args \subseteq Nat
  /\ MaxQueue \in Nat \ {0}
  /\ SigpipeIgnored \in BOOLEAN
  /\ None \notin Clients

VARIABLES
  dpc,              \* where the daemon is
  g_run,
  g_paused,
  psi_threshold,    \* in thousandths
  due,              \* now >= next
  queue,            \* connections not yet accepted
  cfd,              \* the client being served
  cst,              \* where each client is
  req               \* what it has written

dvars == <<dpc, g_run, g_paused, psi_threshold, due, queue, cfd, cst, req>>
state == <<g_paused, psi_threshold>>
conns == <<queue, cfd, cst, req>>

Cmds == {"STATUS", "TOP", "PAUSE", "RESUME", "KICK", "FORCE"}
Requests == [cmd : Cmds, arg : {0}] \cup [cmd : {"ADJUST"}, arg : Args]

Up == dpc \notin {"exited", "killed"}

DaemonInit ==
  /\ dpc = "loop"
  /\ g_run = TRUE
  /\ g_paused = FALSE
  /\ psi_threshold = 200
  /\ due = TRUE
  /\ queue = << >>
  /\ cfd = None
  /\ cst = [c \in Clients |-> "idle"]
  /\ req = [c \in Clients |-> None]
-----------------------------------------------------------------------------
(* The clients: send_request.                                              *)

\* connect waits while the queue is full.
Connect(c) ==
  /\ Up
  /\ cst[c] = "idle"
  /\ Len(queue) < MaxQueue
  /\ cst' = [cst EXCEPT ![c] = "connected"]
  /\ queue' = Append(queue, c)
  /\ UNCHANGED <<dpc, g_run, state, due, cfd, req>>

Send(c) ==
  /\ cst[c] = "connected"
  /\ cst' = [cst EXCEPT ![c] = "sent"]
  /\ \E r \in Requests : req' = [req EXCEPT ![c] = r]
  /\ dpc' = IF dpc = "blocked" /\ cfd = c THEN "read" ELSE dpc
  /\ UNCHANGED <<g_run, state, due, queue, cfd>>

\* The client is interrupted; what it has written can still be read.
Die(c) ==
  /\ c \in MayDie
  /\ cst[c] \in {"connected", "sent"}
  /\ cst' = [cst EXCEPT ![c] = "dead"]
  /\ dpc' = IF dpc = "blocked" /\ cfd = c THEN "read" ELSE dpc
  /\ UNCHANGED <<g_run, state, due, queue, cfd, req>>

\* The last read reports the end of the answer, or an error.
Return(c) ==
  /\ cst[c] = "closed"
  /\ cst' = [cst EXCEPT ![c] = "idle"]
  /\ UNCHANGED <<dpc, g_run, state, due, queue, cfd, req>>

\* The daemon's end of the connections of the clients in S is closed.
Closed(S) ==
  /\ cst' = [c \in Clients |->
       IF c \in S THEN IF cst[c] = "dead" THEN "idle" ELSE "closed" ELSE cst[c]]
  /\ req' = [c \in Clients |-> IF c \in S THEN None ELSE req[c]]
-----------------------------------------------------------------------------
(* The daemon.                                                             *)

\* MUTANTS: a client served ends the iteration of the loop; the sleep of a paused
\* daemon is a loop of its own.
AfterClient_Continue == "loop"
AfterSleep_Accept == "accept"

\* What follows a client, and a sleep.
AfterClient == "timer"
AfterSleep == "loop"

\* MUTANT of LoopAgain: a paused daemon does not look for clients.
LoopAgain_NotPaused ==
  /\ dpc = "loop"
  /\ g_run
  /\ dpc' = IF g_paused THEN "timer" ELSE "accept"
  /\ UNCHANGED <<g_run, state, due, conns>>

\* while(g_run)
LoopAgain ==
  /\ dpc = "loop"
  /\ g_run
  /\ dpc' = "accept"
  /\ UNCHANGED <<g_run, state, due, conns>>

\* The listening socket is closed, and with it every connection it holds.
Stop ==
  /\ dpc = "loop"
  /\ ~ g_run
  /\ dpc' = "exited"
  /\ Closed(ToSet(queue))
  /\ queue' = << >>
  /\ UNCHANGED <<g_run, state, due, cfd>>

\* accept, which does not block.
Accept ==
  /\ dpc = "accept"
  /\ queue # << >>
  /\ cfd' = Head(queue)
  /\ queue' = Tail(queue)
  /\ dpc' = "read"
  /\ UNCHANGED <<g_run, state, due, cst, req>>

NoClient ==
  /\ dpc = "accept"
  /\ queue = << >>
  /\ dpc' = AfterClient
  /\ UNCHANGED <<g_run, state, due, conns>>

\* handle_client's read, which does block.
ReadBlocks ==
  /\ dpc = "read"
  /\ cst[cfd] = "connected"
  /\ dpc' = "blocked"
  /\ UNCHANGED <<g_run, state, due, conns>>

\* MUTANT of ReadFails: the connection is not closed.
ReadFails_NoClose ==
  /\ dpc = "read"
  /\ cst[cfd] = "dead"
  /\ req[cfd] = None
  /\ dpc' = AfterClient
  /\ cfd' = None
  /\ UNCHANGED <<g_run, state, due, queue, cst, req>>

\* The client has gone without a request.
ReadFails ==
  /\ dpc = "read"
  /\ cst[cfd] = "dead"
  /\ req[cfd] = None
  /\ dpc' = AfterClient
  /\ cfd' = None
  /\ Closed({cfd})
  /\ UNCHANGED <<g_run, state, due, queue>>

\* MUTANT of Adjustable: the bounds are let in.
Adjustable_Closed(arg) == arg >= 1 /\ arg <= 1000

\* v > 0.001 && v < 1.0
Adjustable(arg) == arg > 1 /\ arg < 1000

\* The request is executed; a forced cycle runs before the answer is written.
Serve ==
  /\ dpc = "read"
  /\ req[cfd] # None
  /\ LET r == req[cfd] IN
     /\ dpc' = IF r.cmd = "FORCE" THEN "force" ELSE "write"
     /\ g_paused' = IF r.cmd \in {"PAUSE", "RESUME", "KICK"} THEN r.cmd = "PAUSE" ELSE g_paused
     /\ psi_threshold' = IF r.cmd = "ADJUST" /\ Adjustable(r.arg) THEN r.arg ELSE psi_threshold
  /\ UNCHANGED <<g_run, due, conns>>

\* eng.force_cycle returns.
ForceCycle ==
  /\ dpc = "force"
  /\ dpc' = "write"
  /\ UNCHANGED <<g_run, state, due, conns>>

\* The answer, and the end of the connection.
Answer ==
  /\ dpc = "write"
  /\ cst[cfd] # "dead" \/ SigpipeIgnored
  /\ dpc' = AfterClient
  /\ cfd' = None
  /\ Closed({cfd})
  /\ UNCHANGED <<g_run, state, due, queue>>

\* The client has gone: write raises SIGPIPE, which nothing handles.
Sigpipe ==
  /\ dpc = "write"
  /\ cst[cfd] = "dead" /\ ~ SigpipeIgnored
  /\ dpc' = "killed"
  /\ cfd' = None
  /\ queue' = << >>
  /\ Closed({cfd} \cup ToSet(queue))
  /\ UNCHANGED <<g_run, state, due>>

\* Paused, or no cycle due: 50 ms or 2 ms.
Sleep ==
  /\ dpc = "timer"
  /\ g_paused \/ ~ due
  /\ dpc' = IF g_paused THEN AfterSleep ELSE "loop"
  /\ UNCHANGED <<g_run, state, due, conns>>

\* eng.run_cycle is called; the interval is counted from before the cycle.
StartCycle ==
  /\ dpc = "timer"
  /\ ~ g_paused /\ due
  /\ dpc' = "cycle"
  /\ due' = FALSE
  /\ UNCHANGED <<g_run, state, conns>>

EndCycle ==
  /\ dpc = "cycle"
  /\ dpc' = "loop"
  /\ UNCHANGED <<g_run, state, due, conns>>

\* The interval has passed.
Tick ==
  /\ ~ due
  /\ due' = TRUE
  /\ UNCHANGED <<dpc, g_run, state, conns>>

\* SIGTERM, SIGINT or SIGHUP: it interrupts the read the daemon is blocked in, and
\* no other call.
on_signal ==
  /\ Up
  /\ g_run' = FALSE
  /\ IF dpc = "blocked"
     THEN /\ dpc' = AfterClient
          /\ cfd' = None
          /\ Closed({cfd})
          /\ UNCHANGED queue
     ELSE UNCHANGED <<dpc, conns>>
  /\ UNCHANGED <<state, due>>

DaemonStep ==
  \/ LoopAgain \/ Stop
  \/ Accept \/ NoClient
  \/ ReadBlocks \/ ReadFails \/ Serve \/ ForceCycle \/ Answer \/ Sigpipe
  \/ Sleep \/ StartCycle \/ EndCycle

ClientStep(c) == Connect(c) \/ Send(c) \/ Die(c) \/ Return(c)

DaemonNext ==
  \/ DaemonStep
  \/ \E c \in Clients : ClientStep(c)
  \/ Tick
  \/ on_signal

\* The daemon's thread runs and the clock advances.
DaemonSpec ==
  DaemonInit /\ [][DaemonNext]_dvars /\ WF_dvars(DaemonStep) /\ WF_dvars(Tick)

\* A connected client writes its request: memfluxctl is not stopped on the way.
PromptSpec == DaemonSpec /\ \A c \in Clients : WF_dvars(Send(c)) /\ WF_dvars(Return(c))
-----------------------------------------------------------------------------
(* Properties                                                              *)

\* Types of the daemon's state; psi_threshold, which C_ADJUST changes under the
\* running engine, stays a fraction strictly between 0.001 and 1.
DaemonTypeOK ==
  /\ dpc \in {"loop", "accept", "read", "blocked", "force", "write", "timer", "cycle",
              "exited", "killed"}
  /\ g_run \in BOOLEAN
  /\ g_paused \in BOOLEAN
  /\ psi_threshold \in 2 .. 999
  /\ due \in BOOLEAN
  /\ queue \in Seq(Clients)
  /\ cfd \in Clients \cup {None}
  /\ cst \in [Clients -> {"idle", "connected", "sent", "dead", "closed"}]
  /\ req \in [Clients -> Requests \cup {None}]

\* Every open connection is queued once or is the one being served: handle_client
\* and the end of the daemon close all the others, on every path.
NoConnectionLeak ==
  \A c \in Clients :
    cst[c] \in {"connected", "sent", "dead"} <=>
      \/ cfd = c /\ c \notin ToSet(queue)
      \/ cfd # c /\ \E i \in DOMAIN queue : \A j \in DOMAIN queue : queue[j] = c <=> i = j

\* send_request returns: a client is not left waiting by other clients, by a pause,
\* by a cycle, or by a daemon that stops or is killed.
ClientReturns ==
  \A c \in Clients : cst[c] \in {"connected", "sent"} ~> cst[c] \in {"closed", "dead"}

\* Once a signal has cleared g_run, the daemon leaves its loop, whatever the clients
\* ask for and also when it is paused.
StopHonoured == ~ g_run ~> ~ Up

\* A daemon that stays up and is not paused keeps running cycles: clients that come
\* back again and again do not starve them.
CyclesKeepRunning ==
  <>[](Up /\ g_run /\ ~ g_paused) => []<>(dpc = "cycle")
===============================================================================
