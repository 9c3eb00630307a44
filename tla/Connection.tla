----------------------------- MODULE Connection -----------------------------
(***************************************************************************)
(* The life of the server's connections: TcpServer's registry, the wheel   *)
(* (module TimerWheel), the callbacks that end a connection and libuv's    *)
(* loop, which calls them.  One iteration of uv_run runs the timers, polls *)
(* the sockets and then calls back for the handles closed since; uv_close  *)
(* puts a handle in front of the list of those.                            *)
(***************************************************************************)
EXTENDS TimerWheel, Sequences, SequencesExt

VARIABLES
  phase,            \* of uv_run, or "crashed"
  connnections_,    \* TcpServer's registry: it owns the connections
  shutdown_req,     \* connections that read the end of the stream and wait
                    \* for what they still have to write
  closing_handles   \* libuv's list

loopVars == <<phase, connnections_, shutdown_req, closing_handles>>
connVars == <<vars, loopVars>>

Closing == Range(closing_handles)

ConnInit ==
  /\ Init
  /\ phase = "timers"
  /\ connnections_ = {}
  /\ shutdown_req = {}
  /\ closing_handles = <<>>

(***************************************************************************)
(* Polling.                                                                *)
(***************************************************************************)
uv_close(c) == closing_handles' = <<c>> \o closing_handles

(* A slip: it reads on after the end of the stream.                        *)
ReadingOn == open

(* The connections libuv still reads from.                                 *)
Reading == open \ shutdown_req

onAccept(c) ==
  /\ phase = "poll"
  /\ c \notin connnections_
  /\ insertNew(c)
  /\ connnections_' = connnections_ \cup {c}
  /\ UNCHANGED <<phase, shutdown_req, closing_handles>>

onMessage(c) ==
  /\ phase = "poll"
  /\ c \in Reading
  /\ insert(c)
  /\ UNCHANGED loopVars

(* The message's handler calls closeConnection.                            *)
onMessageClose(c) ==
  /\ phase = "poll"
  /\ c \in Reading
  /\ insertClosed(c)
  /\ uv_close(c)
  /\ UNCHANGED <<phase, connnections_, shutdown_req>>

onReadError(c) ==
  /\ phase = "poll"
  /\ c \in Reading
  /\ closeConnection(c)
  /\ uv_close(c)
  /\ UNCHANGED <<phase, connnections_, shutdown_req>>

(* The end of the stream: the connection is closed when uv_shutdown calls  *)
(* back.                                                                   *)
onEof(c) ==
  /\ phase = "poll"
  /\ c \in Reading
  /\ shutdown_req' = shutdown_req \cup {c}
  /\ UNCHANGED <<vars, phase, connnections_, closing_handles>>

(* Everything is written.                                                  *)
onShutdown(c) ==
  /\ phase = "poll"
  /\ c \in shutdown_req
  /\ shutdown_req' = shutdown_req \ {c}
  /\ closeConnection(c)
  /\ uv_close(c)
  /\ UNCHANGED <<phase, connnections_>>

EndPoll ==
  /\ phase = "poll"
  /\ phase' = "closing"
  /\ UNCHANGED <<vars, connnections_, shutdown_req, closing_handles>>

(***************************************************************************)
(* Calling back for the closed handles.                                    *)
(***************************************************************************)
(* A slip: the registry keeps the connection.                              *)
KeepRegistered(c) == UNCHANGED connnections_

(* closeCompleteCallback_: the registry's was the last reference, and the  *)
(* connection goes with its handle.                                        *)
CloseComplete(c) == connnections_' = connnections_ \ {c}

(* libuv first calls the handle's shutdown callback, if that is still to   *)
(* come; closeConnection finds the handle closing and completes at once.   *)
(* libuv then goes on with a handle that is no more.                       *)
FinishClose ==
  LET c == Head(closing_handles)
  IN  /\ phase = "closing"
      /\ closing_handles # <<>>
      /\ closing_handles' = Tail(closing_handles)
      /\ CloseComplete(c)
      /\ shutdown_req' = shutdown_req \ {c}
      /\ \/ phase' = phase
         \/ c \in shutdown_req /\ phase' = "crashed"
      /\ UNCHANGED vars

(* A slip: what is left of the list waits for the next iteration.          *)
EndClosingEarly ==
  /\ phase = "closing"
  /\ phase' = "timers"
  /\ UNCHANGED <<vars, connnections_, shutdown_req, closing_handles>>

EndClosing ==
  /\ phase = "closing"
  /\ closing_handles = <<>>
  /\ phase' = "timers"
  /\ UNCHANGED <<vars, connnections_, shutdown_req, closing_handles>>

(***************************************************************************)
(* Timers.                                                                 *)
(***************************************************************************)
(* A slip: ~ConnectionElement leaves alone what is no longer connected.    *)
ExpiredConnected == (open \ open') \ shutdown_req

(* ~ConnectionElement calls closeConnection for each of these.             *)
Expired == open \ open'

(* A second has passed.  The elements of one slot go in any order.         *)
Tick ==
  /\ phase = "timers"
  /\ wheelCallback
  /\ \E s \in SetToSeqs(Expired) : closing_handles' = s \o closing_handles
  /\ phase' = "poll"
  /\ UNCHANGED <<connnections_, shutdown_req>>

NoTick ==
  /\ phase = "timers"
  /\ phase' = "poll"
  /\ UNCHANGED <<vars, connnections_, shutdown_req, closing_handles>>

Loop == EndPoll \/ FinishClose \/ EndClosing \/ NoTick

ConnNext ==
  \/ \E c \in Connection :
        \/ onAccept(c) \/ onMessage(c) \/ onMessageClose(c)
        \/ onReadError(c) \/ onEof(c) \/ onShutdown(c)
  \/ Loop
  \/ Tick

(* The loop goes on, and time passes.  Nothing makes a peer read what is   *)
(* written to it: onShutdown may never come.                               *)
ConnSpec ==
  /\ ConnInit /\ [][ConnNext]_connVars
  /\ WF_connVars(Loop) /\ SF_connVars(Tick)

(***************************************************************************)
(* Properties.                                                             *)
(***************************************************************************)
ConnTypeOK ==
  /\ TypeOK
  /\ phase \in {"timers", "poll", "closing", "crashed"}
  /\ connnections_ \subseteq Connection
  /\ shutdown_req \subseteq Connection
  /\ closing_handles \in Seq(Connection)

(* The registry holds exactly the connections whose handle libuv still     *)
(* knows, and no handle is given to uv_close a second time (it asserts     *)
(* that), although a read error, an end of file, a handler and the wheel   *)
(* may all come to close the same connection.                              *)
ClosedOnce ==
  /\ connnections_ = open \cup Closing
  /\ open \cap Closing = {}
  /\ IsInjective(closing_handles)

(* Nothing closed is left over when the next iteration starts: what the    *)
(* registry then holds is alive and has been heard within the timeout.     *)
RegistryTimely ==
  phase = "timers" =>
    \A c \in connnections_ : c \in open /\ silent[c] < timeoutSec_

(* Only the wheel closes a connection whose shutdown is still to come:     *)
(* with no timeout set, as in V8's BBU, the two callbacks never overlap.   *)
OnlyExpiryOverlaps == shutdown_req \cap Closing \cap Held = {}

(* A connection whose device has gone away is taken off the registry, even *)
(* if what is written to it never leaves.                                  *)
EndedConnectionsGo ==
  \A c \in Connection :
    c \in shutdown_req ~> (c \notin connnections_ \/ phase = "crashed")

=============================================================================
