------------------------------ MODULE IpcSession ------------------------------
(***************************************************************************)
(* The daemon's socket server (src/src/daemon/server.ts), the framed       *)
(* channel and its MACs (src/src/ipc/protocol.ts) and the client call      *)
(* (src/src/ipc/client.ts).                                                *)
(*                                                                         *)
(* A caller connects, is challenged, proves the secret, sends one request  *)
(* and reads one response; whatever fails, it closes its end and calls     *)
(* again with the same request id.  A peer may also go silent with its end *)
(* open, or send frames that fail the guards.  The server admits a socket  *)
(* while its two counters allow it and takes it back when the socket's     *)
(* close event is handled.  A MAC is what it certifies: "proof" is an auth *)
(* frame over this challenge, "junk" is any frame a guard refuses.         *)
(***************************************************************************)
EXTENDS Naturals, Sequences, FiniteSets

CONSTANTS
    IpcCallers,            \* processes that call the authority
    Stoppers,              \* those whose operation is daemon-stop
    Socks,                 \* socket identities, reused when both ends are gone
    NoSock, NoPeer,
    MaxConnections, MaxPendingHandshakes,
    MaxQueuedFrames,       \* MAX_IPC_QUEUED_FRAMES
    MaxIpcFaults           \* bound: silent peers, stray frames, timeouts of live peers

ASSUME IpcAssumption ==
    /\ Stoppers \subseteq IpcCallers /\ NoPeer \notin IpcCallers /\ IsFiniteSet(Socks)
    /\ MaxConnections \in Nat \ {0} /\ MaxPendingHandshakes \in Nat \ {0}
    /\ MaxQueuedFrames \in Nat \ {0} /\ MaxIpcFaults \in Nat

VARIABLES
    sock,                  \* the connections: both ends, the server's coroutine, the frames
    caller,                \* where each call stands
    pendingHandshakes, authenticatedConnections,
    dispatchQueue,         \* requests chained on authorityQueue
    answeredIds,           \* callers whose request has a stored receipt
    daemon,                \* "up", "stopping" once shutdownRequested resolved, "down"
    ipcFaults

ipcVars == <<sock, caller, pendingHandshakes, authenticatedConnections,
             dispatchQueue, answeredIds, daemon, ipcFaults>>

counters == <<pendingHandshakes, authenticatedConnections>>

\* A connection: whose it is and whose end is open, whether the socket is alive
\* and its close event handled, where the server's coroutine stands, and the
\* frames on their way to the server and to the caller.
Frames == {"hello", "challenge", "proof", "ready", "request", "junk", "ok", "error"}
Link == [of : IpcCallers, peer : IpcCallers \cup {NoPeer}, live : BOOLEAN, closed : BOOLEAN,
         phase : {"pending", "authenticated"},
         at : {"hello", "auth", "request", "busy", "ended"}, in : Seq(Frames), out : Seq(Frames)]

ASSUME NoSockAssumption == NoSock \notin Link

Open == {s \in Socks : sock[s] # NoSock}

\* Sockets the server has not been told are closed: its "sockets" set.
Held == {s \in Open : ~sock[s].closed}

InPhase(phase) == {s \in Held : sock[s].phase = phase}

-----------------------------------------------------------------------------
\* The channel: FrameChannel.

\* channel.receive is waiting: its coroutine stands at one of the three awaits.
Awaits(r) == r.at \in {"hello", "auth", "request"}

\* accept and deliver: a frame goes to the waiter, else to the queue, and a
\* queue at its limit fails the channel and destroys the socket.
Arrive(r, frame) ==
    IF Awaits(r) \/ Len(r.in) < MaxQueuedFrames
    THEN [r EXCEPT !.in = Append(@, frame)]
    ELSE [r EXCEPT !.live = FALSE]

\* A peer's write: it reaches the channel only while the socket is alive.
Sent(s, frame) == IF sock[s].live THEN Arrive(sock[s], frame) ELSE sock[s]

\* channel.send by the server: refused once the channel has failed.
CanReply(r) == r.live /\ ~r.closed

WithReply(r, frame, next) == [r EXCEPT !.out = Append(@, frame), !.at = next]

ReplyWith(r, frame, next) == [WithReply(r, frame, next) EXCEPT !.in = Tail(@)]

\* The catch of the coroutine: the socket is destroyed, the coroutine ends.
Destroyed(r) == [r EXCEPT !.live = FALSE, !.at = "ended", !.in = <<>>]

\* Both ends are gone and the coroutine has ended: the identity is free again.
Settled(r) == IF r.closed /\ r.at = "ended" /\ r.peer = NoPeer THEN NoSock ELSE r

-----------------------------------------------------------------------------
\* The caller: callAuthority.

CallerAt(c, st) == caller[c].st = st

\* The createServer callback: a socket over a limit is destroyed at once.
Admits ==
    /\ authenticatedConnections < MaxConnections
    /\ pendingHandshakes < MaxPendingHandshakes
    /\ Cardinality(Held) < MaxConnections + MaxPendingHandshakes

\* openSocket, the server's accept, and the hello frame.
Connect(c) ==
    /\ CallerAt(c, "idle") /\ daemon # "down"
    /\ Admits /\ Open # Socks
    /\ LET s == CHOOSE free \in Socks : free \notin Open IN
         /\ sock' = [sock EXCEPT ![s] =
                [of |-> c, peer |-> c, live |-> TRUE, closed |-> FALSE, phase |-> "pending",
                 at |-> "hello", in |-> <<"hello">>, out |-> <<>>]]
         /\ caller' = [caller EXCEPT ![c] = [st |-> "challenge", s |-> s]]
    /\ pendingHandshakes' = pendingHandshakes + 1
    /\ UNCHANGED <<authenticatedConnections, dispatchQueue, answeredIds, daemon, ipcFaults>>

\* Over the limits the socket is destroyed by the server and the call fails:
\* the caller stays where it was.  The endpoint of a daemon that is down
\* refuses the connection.
ConnectRefused(c) ==
    /\ CallerAt(c, "idle") /\ daemon = "down"
    /\ caller' = [caller EXCEPT ![c].st = "refused"]
    /\ UNCHANGED <<sock, counters, dispatchQueue, answeredIds, daemon, ipcFaults>>

\* The frame the caller answers a frame of the server with, and its next await.
Turn(st) ==
    CASE st = "challenge" -> [gets |-> "challenge", sends |-> "proof", then |-> "ready"]
      [] st = "ready"     -> [gets |-> "ready", sends |-> "request", then |-> "response"]

CallerTurn(c) ==
    LET s == caller[c].s  t == Turn(caller[c].st) IN
    /\ caller[c].st \in {"challenge", "ready"}
    /\ sock[s].out # <<>> /\ Head(sock[s].out) = t.gets
    /\ sock' = [sock EXCEPT ![s] = [Sent(s, t.sends) EXCEPT !.out = Tail(@)]]
    /\ caller' = [caller EXCEPT ![c].st = t.then]
    /\ UNCHANGED <<counters, dispatchQueue, answeredIds, daemon, ipcFaults>>

\* The finally block: the caller's end of the socket is closed.
Left(s) == [sock EXCEPT ![s] = Settled([@ EXCEPT !.peer = NoPeer, !.live = FALSE, !.out = <<>>])]

\* The response is bound to the request by id, sequence and MAC.
CallerAnswered(c) ==
    LET s == caller[c].s IN
    /\ CallerAt(c, "response") /\ sock[s].out = <<"ok">>
    /\ caller' = [caller EXCEPT ![c].st = "answered"]
    /\ sock' = Left(s)
    /\ UNCHANGED <<counters, dispatchQueue, answeredIds, daemon, ipcFaults>>

\* An error response: callAuthority throws it and the caller calls again.
CallerRejected(c) ==
    LET s == caller[c].s IN
    /\ CallerAt(c, "response") /\ sock[s].out = <<"error">>
    /\ caller' = [caller EXCEPT ![c].st = "idle"]
    /\ sock' = Left(s)
    /\ UNCHANGED <<counters, dispatchQueue, answeredIds, daemon, ipcFaults>>

\* The caller's channel fails once the frames before the close are read.
CallerFails(c) ==
    LET s == caller[c].s IN
    /\ caller[c].st \in {"challenge", "ready", "response"}
    /\ ~sock[s].live /\ sock[s].out = <<>>
    /\ caller' = [caller EXCEPT ![c].st = "idle"]
    /\ sock' = Left(s)
    /\ UNCHANGED <<counters, dispatchQueue, answeredIds, daemon, ipcFaults>>

\* A receive of the caller times out while the server is still at work.
CallerTimesOut(c) ==
    /\ caller[c].st \in {"challenge", "ready", "response"} /\ ipcFaults < MaxIpcFaults
    /\ caller' = [caller EXCEPT ![c].st = "idle"]
    /\ sock' = Left(caller[c].s)
    /\ ipcFaults' = ipcFaults + 1
    /\ UNCHANGED <<counters, dispatchQueue, answeredIds, daemon>>

\* The process of a call is suspended with its socket open; the same request
\* is made again by another process.
GoesSilent(c) ==
    /\ caller[c].st \in {"challenge", "ready", "response"} /\ ipcFaults < MaxIpcFaults
    /\ sock[caller[c].s].live
    /\ caller' = [caller EXCEPT ![c].st = "idle"]
    /\ sock' = [sock EXCEPT ![caller[c].s].peer = NoPeer]
    /\ ipcFaults' = ipcFaults + 1
    /\ UNCHANGED <<counters, dispatchQueue, answeredIds, daemon>>

\* A frame no guard accepts: not a hello, auth or request, a proof or MAC over
\* something else, a sequence number out of order.
StrayFrame(s) ==
    /\ s \in Held /\ sock[s].live /\ sock[s].peer = NoPeer /\ ipcFaults < MaxIpcFaults
    /\ sock' = [sock EXCEPT ![s] = Sent(s, "junk")]
    /\ ipcFaults' = ipcFaults + 1
    /\ UNCHANGED <<caller, counters, dispatchQueue, answeredIds, daemon>>

-----------------------------------------------------------------------------
\* The server's coroutine of a connection.

\* The next frame is the one the coroutine waits for: its proof or MAC is the
\* one recomputed over this connection's nonces and this frame.
Gets(s, at, frame) ==
    /\ s \in Held /\ sock[s].at = at /\ sock[s].in # <<>> /\ Head(sock[s].in) = frame

ServeHello(s) ==
    /\ Gets(s, "hello", "hello")
    /\ sock' = [sock EXCEPT ![s] =
           IF CanReply(sock[s]) THEN ReplyWith(sock[s], "challenge", "auth") ELSE Destroyed(sock[s])]
    /\ UNCHANGED <<caller, counters, dispatchQueue, answeredIds, daemon, ipcFaults>>

\* Mutated form of HasRoom: only admission looks at the limit.
AlwaysRoom == TRUE

\* The check of the authenticated limit that follows the proof: handshakes that
\* were admitted together may finish together.
HasRoom == authenticatedConnections < MaxConnections

ServeProof(s) ==
    /\ Gets(s, "auth", "proof")
    /\ IF HasRoom
       THEN /\ pendingHandshakes' = pendingHandshakes - 1
            /\ authenticatedConnections' = authenticatedConnections + 1
            /\ sock' = [sock EXCEPT ![s] =
                 [(IF CanReply(sock[s]) THEN ReplyWith(sock[s], "ready", "request")
                                        ELSE Destroyed(sock[s]))
                  EXCEPT !.phase = "authenticated"]]
       ELSE /\ sock' = [sock EXCEPT ![s] = Destroyed(@)]
            /\ UNCHANGED counters
    /\ UNCHANGED <<caller, dispatchQueue, answeredIds, daemon, ipcFaults>>

\* dispatch: the request is chained on authorityQueue.
ServeRequest(s) ==
    /\ Gets(s, "request", "request")
    /\ sock' = [sock EXCEPT ![s].at = "busy", ![s].in = Tail(@)]
    /\ dispatchQueue' = Append(dispatchQueue, s)
    /\ UNCHANGED <<caller, counters, answeredIds, daemon, ipcFaults>>

\* A frame a guard refuses.
ServeJunk(s) ==
    /\ s \in Held /\ Awaits(sock[s]) /\ sock[s].in # <<>> /\ Head(sock[s].in) = "junk"
    /\ sock' = [sock EXCEPT ![s] = Destroyed(@)]
    /\ UNCHANGED <<caller, counters, dispatchQueue, answeredIds, daemon, ipcFaults>>

\* Mutated form of TimesOut: only the request loop has a timeout.
TimesOutLate(s) ==
    /\ s \in Held /\ sock[s].at = "request" /\ sock[s].in = <<>>
    /\ sock[s].peer = NoPeer
    /\ sock' = [sock EXCEPT ![s] = Destroyed(@)]
    /\ UNCHANGED <<caller, counters, dispatchQueue, answeredIds, daemon, ipcFaults>>

\* A receive of the server times out: of a peer gone silent, or of a slow one.
TimesOut(s) ==
    /\ s \in Held /\ sock[s].live /\ Awaits(sock[s]) /\ sock[s].in = <<>>
    /\ sock[s].peer # NoPeer => ipcFaults < MaxIpcFaults
    /\ ipcFaults' = ipcFaults + (IF sock[s].peer = NoPeer THEN 0 ELSE 1)
    /\ sock' = [sock EXCEPT ![s] = Destroyed(@)]
    /\ UNCHANGED <<caller, counters, dispatchQueue, answeredIds, daemon>>

\* Mutated form of StopsDaemon: a replayed daemon-stop stops nothing.
StopsDaemonOnce(c) == c \in Stoppers /\ c \notin answeredIds

\* What the stored answer decides: the connection's daemon-stop was answered ok.
StopsDaemon(c) == c \in Stoppers

\* authority.execute and the response.  The request leaves a receipt whether or
\* not the answer can be sent; only a sent answer requests the shutdown.
Respond ==
    /\ dispatchQueue # <<>>
    /\ LET s == Head(dispatchQueue)  c == sock[s].of  stops == StopsDaemon(c) IN
       /\ answeredIds' = answeredIds \cup {c}
       /\ IF CanReply(sock[s])
          THEN /\ sock' = [sock EXCEPT ![s] =
                      IF stops THEN [WithReply(sock[s], "ok", "ended") EXCEPT !.live = FALSE]
                               ELSE WithReply(sock[s], "ok", "request")]
               /\ daemon' = IF stops /\ daemon = "up" THEN "stopping" ELSE daemon
          ELSE /\ sock' = [sock EXCEPT ![s] = Settled(Destroyed(@))]
               /\ UNCHANGED daemon
    /\ dispatchQueue' = Tail(dispatchQueue)
    /\ UNCHANGED <<caller, counters, ipcFaults>>

\* authority.execute throws before anything is stored: the error is the response.
RespondError ==
    /\ dispatchQueue # <<>> /\ ipcFaults < MaxIpcFaults
    /\ LET s == Head(dispatchQueue) IN
       /\ sock[s].of \notin answeredIds
       /\ sock' = [sock EXCEPT ![s] =
              IF CanReply(sock[s]) THEN WithReply(sock[s], "error", "request")
                                   ELSE Settled(Destroyed(sock[s]))]
    /\ dispatchQueue' = Tail(dispatchQueue)
    /\ ipcFaults' = ipcFaults + 1
    /\ UNCHANGED <<caller, counters, answeredIds, daemon>>

\* The close event: the socket leaves the set and its phase's counter.  It
\* follows the data that arrived before it; an awaiting coroutine ends with it.
CloseEvent(s) ==
    LET r == sock[s] IN
    /\ s \in Held /\ ~r.live /\ (Awaits(r) => r.in = <<>>)
    /\ sock' = [sock EXCEPT ![s] =
           Settled([r EXCEPT !.closed = TRUE, !.at = IF Awaits(r) THEN "ended" ELSE @])]
    /\ pendingHandshakes' = pendingHandshakes - (IF r.phase = "pending" THEN 1 ELSE 0)
    /\ authenticatedConnections' =
           authenticatedConnections - (IF r.phase = "authenticated" THEN 1 ELSE 0)
    /\ UNCHANGED <<caller, dispatchQueue, answeredIds, daemon, ipcFaults>>

\* close() of the handle, run when shutdownRequested resolves.
CloseServer ==
    /\ daemon = "stopping" /\ daemon' = "down"
    /\ sock' = [s \in Socks |-> IF s \in Held THEN [sock[s] EXCEPT !.live = FALSE] ELSE sock[s]]
    /\ UNCHANGED <<caller, counters, dispatchQueue, answeredIds, ipcFaults>>

-----------------------------------------------------------------------------

IpcInit ==
    /\ sock = [s \in Socks |-> NoSock]
    /\ caller = [c \in IpcCallers |-> [st |-> "idle", s |-> NoSock]]
    /\ pendingHandshakes = 0 /\ authenticatedConnections = 0
    /\ dispatchQueue = <<>> /\ answeredIds = {}
    /\ daemon = "up" /\ ipcFaults = 0

CallerStep(c) ==
    \/ Connect(c) \/ ConnectRefused(c) \/ CallerTurn(c) \/ CallerAnswered(c)
    \/ CallerRejected(c) \/ CallerFails(c)

ServerStep(s) ==
    \/ ServeHello(s) \/ ServeProof(s) \/ ServeRequest(s) \/ ServeJunk(s)
    \/ TimesOut(s) \/ CloseEvent(s)

IpcFault ==
    \/ \E c \in IpcCallers : CallerTimesOut(c) \/ GoesSilent(c)
    \/ \E s \in Socks : StrayFrame(s)
    \/ RespondError

IpcNext ==
    \/ \E c \in IpcCallers : CallerStep(c)
    \/ \E s \in Socks : ServerStep(s)
    \/ Respond \/ CloseServer
    \/ IpcFault

\* The event loop runs every ready callback and every expired timer, the
\* authority settles every request, and a caller calls until it is answered.
IpcFair ==
    /\ \A c \in IpcCallers : WF_ipcVars(CallerStep(c))
    /\ \A s \in Socks : WF_ipcVars(ServerStep(s))
    /\ WF_ipcVars(Respond) /\ WF_ipcVars(CloseServer)

IpcSpec == IpcInit /\ [][IpcNext]_ipcVars /\ IpcFair

-----------------------------------------------------------------------------
\* Properties.

\* The two counters count the sockets of their phase on every way a connection
\* can end, and neither passes its limit: handshakes admitted together cannot
\* overrun the authenticated limit (server.ts:126-160).
CountersExact ==
    /\ pendingHandshakes = Cardinality(InPhase("pending"))
    /\ authenticatedConnections = Cardinality(InPhase("authenticated"))
    /\ pendingHandshakes <= MaxPendingHandshakes
    /\ authenticatedConnections <= MaxConnections

\* Peers gone silent, stray frames and timeouts never lock callers out: once
\* calls are made, every caller is answered in the end or, when the daemon was
\* stopped, refused (server.ts:143-165, client.ts:128-137 "Retry with the same
\* request id").
CallersServed ==
    (\E c \in IpcCallers : caller[c].st # "idle")
    ~> (\A c \in IpcCallers : caller[c].st \in {"answered", "refused"})

\* A daemon-stop that was executed stops the daemon in the end, although the
\* first answer may have met a caller that had left (server.ts:203-212).
StopObeyed ==
    \A c \in Stoppers : (c \in answeredIds) ~> (daemon = "down")

=============================================================================
