--------------------------- MODULE IpcSessionProofs ---------------------------
(***************************************************************************)
(* Proofs about the daemon's connections, for any number of callers and    *)
(* sockets and any limits, and about the clients whose requests they       *)
(* carry, for any calls, commands, frames and faults.                      *)
(*                                                                         *)
(* The counters are exact because a socket changes its phase or leaves     *)
(* Held in two steps only, the proof and the close event, and the proof    *)
(* finds its socket in the handshake.  What has to be carried along is     *)
(* whose socket is whose: a caller in a call holds the open end of its     *)
(* own socket, and a chained request keeps its socket from being reused.   *)
(*                                                                         *)
(* An approved call has its effects once because a request's id, intent    *)
(* and payload are fixed by its call (Known), every effect has the receipt *)
(* of its request (Done), and a waiting task has the one request of its    *)
(* stage under way (UnderWay).                                             *)
(***************************************************************************)
EXTENDS IpcSession, AgentClients, FiniteSetTheorems, SequenceTheorems, TLAPS

Calling == {"challenge", "ready", "response"}

IpcTypeOK ==
    /\ sock \in [Socks -> Link \cup {NoSock}]
    /\ caller \in [IpcCallers -> [st : Calling \cup {"idle", "answered", "refused"},
                                  s : Socks \cup {NoSock}]]
    /\ pendingHandshakes \in Nat /\ authenticatedConnections \in Nat
    /\ dispatchQueue \in Seq(Socks)
    /\ answeredIds \subseteq IpcCallers
    /\ daemon \in {"up", "stopping", "down"} /\ ipcFaults \in Nat

\* A caller in a call has the open end of its socket.
OwnEnds ==
    \A c \in IpcCallers : caller[c].st \in Calling =>
        caller[c].s \in Open /\ sock[caller[c].s].peer = c

\* A connection that has not proved the secret is in its handshake.
InHandshake == \A s \in Open : sock[s].at \in {"hello", "auth"} => sock[s].phase = "pending"

\* A chained request is the only one of its connection, which waits for it.
Chained ==
    /\ \A i \in 1 .. Len(dispatchQueue) :
           dispatchQueue[i] \in Open /\ sock[dispatchQueue[i]].at = "busy"
    /\ \A i, j \in 1 .. Len(dispatchQueue) : dispatchQueue[i] = dispatchQueue[j] => i = j

\* The inductive invariant.
Inv == IpcTypeOK /\ OwnEnds /\ InHandshake /\ Chained /\ CountersExact

-----------------------------------------------------------------------------
\* What the channel's operators do to a connection.

\* The fields that no frame, answer or failure changes.
SameEnds(q, r) ==
    q.of = r.of /\ q.peer = r.peer /\ q.closed = r.closed /\ q.phase = r.phase

LEMMA ArriveLink ==
    ASSUME NEW r \in Link, NEW frame \in Frames
    PROVE  /\ Arrive(r, frame) \in Link
           /\ SameEnds(Arrive(r, frame), r) /\ Arrive(r, frame).at = r.at
<1>1. Append(r.in, frame) \in Seq(Frames)
  BY DEF Link
<1> QED
  BY <1>1 DEF Arrive, Link, SameEnds

LEMMA AnswerLink ==
    ASSUME NEW r \in Link, NEW frame \in Frames, NEW next \in {"auth", "request", "ended"}
    PROVE  /\ WithReply(r, frame, next) \in Link
           /\ SameEnds(WithReply(r, frame, next), r) /\ WithReply(r, frame, next).at = next
           /\ WithReply(r, frame, next).in = r.in
<1>1. Append(r.out, frame) \in Seq(Frames)
  BY DEF Link
<1> QED
  BY <1>1 DEF WithReply, Link, SameEnds

LEMMA ReplyLink ==
    ASSUME NEW r \in Link, r.in # <<>>, NEW frame \in Frames, NEW next \in {"auth", "request"}
    PROVE  /\ ReplyWith(r, frame, next) \in Link
           /\ SameEnds(ReplyWith(r, frame, next), r) /\ ReplyWith(r, frame, next).at = next
<1> DEFINE q == WithReply(r, frame, next)
<1>1. q \in Link /\ SameEnds(q, r) /\ q.at = next /\ q.in = r.in
  BY AnswerLink
<1>2. Tail(q.in) \in Seq(Frames)
  BY <1>1 DEF Link
<1>3. ReplyWith(r, frame, next) = [q EXCEPT !.in = Tail(q.in)]
  BY DEF ReplyWith
<1> HIDE DEF q
<1> QED
  BY <1>1, <1>2, <1>3 DEF Link, SameEnds

LEMMA DestroyedLink ==
    ASSUME NEW r \in Link
    PROVE  /\ Destroyed(r) \in Link
           /\ SameEnds(Destroyed(r), r) /\ Destroyed(r).at = "ended"
<1>1. <<>> \in Seq(Frames)
  OBVIOUS
<1> QED
  BY <1>1 DEF Destroyed, Link, SameEnds

LEMMA LeftLink ==
    ASSUME NEW r \in Link
    PROVE  LET q == [r EXCEPT !.peer = NoPeer, !.live = FALSE, !.out = <<>>] IN
           /\ q \in Link /\ q.closed = r.closed /\ q.phase = r.phase /\ q.at = r.at
           /\ q.peer = NoPeer
<1>1. <<>> \in Seq(Frames)
  OBVIOUS
<1> QED
  BY <1>1 DEF Link

-----------------------------------------------------------------------------
\* The sockets of a phase.

HeldIn(r, phase) == r # NoSock /\ ~r.closed /\ r.phase = phase

LEMMA PhaseSets ==
    ASSUME NEW phase
    PROVE  /\ InPhase(phase) = {s \in Socks : HeldIn(sock[s], phase)}
           /\ IsFiniteSet(InPhase(phase))
<1>1. InPhase(phase) = {s \in Socks : HeldIn(sock[s], phase)}
  BY DEF InPhase, Held, Open, HeldIn
<1> QED
  BY <1>1, IpcAssumption, FS_Subset

\* A step that keeps every socket in its phase keeps both sets.
LEMMA SamePhases ==
    ASSUME NEW phase,
           \A s \in Socks : HeldIn(sock'[s], phase) <=> HeldIn(sock[s], phase)
    PROVE  InPhase(phase)' = InPhase(phase)
BY DEF InPhase, Held, Open, HeldIn

\* Most steps: one socket changes, in neither of its ends' phases, nobody's
\* call begins, and the queue stays.
KeepsLink(s, r) ==
    /\ s \in Socks /\ r \in Link \cup {NoSock}
    /\ sock' = [sock EXCEPT ![s] = r]
    /\ \A phase \in {"pending", "authenticated"} : HeldIn(r, phase) <=> HeldIn(sock[s], phase)
    /\ r # NoSock => (r.at \in {"hello", "auth"} => r.phase = "pending")

LEMMA KeepsCounters ==
    ASSUME Inv, NEW s, NEW r, KeepsLink(s, r), UNCHANGED counters
    PROVE  /\ sock' \in [Socks -> Link \cup {NoSock}]
           /\ InHandshake' /\ CountersExact'
<1>1. sock' \in [Socks -> Link \cup {NoSock}]
  BY DEF KeepsLink, Inv, IpcTypeOK
<1>2. InHandshake'
  BY DEF InHandshake, KeepsLink, Inv, IpcTypeOK, Open
<1>3. \A phase \in {"pending", "authenticated"} : InPhase(phase)' = InPhase(phase)
  <2> TAKE phase \in {"pending", "authenticated"}
  <2>1. \A t \in Socks : HeldIn(sock'[t], phase) <=> HeldIn(sock[t], phase)
    BY DEF KeepsLink, Inv, IpcTypeOK
  <2> QED
    BY <2>1, SamePhases
<1>4. CountersExact'
  BY <1>3 DEF CountersExact, Inv, counters
<1> QED
  BY <1>1, <1>2, <1>4

\* A step of the server, or a frame, on one connection.
LEMMA ServerKeeps ==
    ASSUME Inv, NEW s, NEW r, KeepsLink(s, r), s \in Open,
           r = NoSock => sock[s].peer = NoPeer /\ sock[s].at # "busy",
           r # NoSock => r.peer = sock[s].peer /\ (sock[s].at = "busy" => r.at = "busy"),
           UNCHANGED <<caller, counters, dispatchQueue, answeredIds, daemon>>, ipcFaults' \in Nat
    PROVE  Inv'
<1>1. /\ sock' \in [Socks -> Link \cup {NoSock}]
      /\ InHandshake' /\ CountersExact'
  BY KeepsCounters
<1>2. IpcTypeOK'
  BY <1>1 DEF IpcTypeOK, Inv, counters
<1>3. OwnEnds'
  <2> SUFFICES ASSUME NEW c \in IpcCallers, caller[c].st \in Calling
               PROVE  caller[c].s \in Open' /\ sock'[caller[c].s].peer = c
    BY DEF OwnEnds
  <2>1. caller[c].s \in Open /\ sock[caller[c].s].peer = c /\ c # NoPeer
    BY IpcAssumption DEF Inv, OwnEnds
  <2> QED
    BY <2>1 DEF Inv, IpcTypeOK, KeepsLink, Open
<1>4. Chained'
  <2>1. \A i \in 1 .. Len(dispatchQueue) :
           dispatchQueue[i] \in Open' /\ sock'[dispatchQueue[i]].at = "busy"
    BY DEF Inv, IpcTypeOK, KeepsLink, Open, Chained
  <2> QED
    BY <2>1 DEF Chained, Inv
<1> QED
  BY <1>1, <1>2, <1>3, <1>4 DEF Inv

\* The end of a call: the caller closes its end of its socket.
LEMMA LeavingKeeps ==
    ASSUME Inv, NEW c \in IpcCallers, caller[c].st \in Calling,
           NEW st \in {"idle", "answered"}, caller' = [caller EXCEPT ![c].st = st],
           sock' = Left(caller[c].s),
           UNCHANGED <<counters, dispatchQueue, answeredIds, daemon>>, ipcFaults' \in Nat
    PROVE  Inv'
<1> DEFINE s == caller[c].s
           q == [sock[s] EXCEPT !.peer = NoPeer, !.live = FALSE, !.out = <<>>]
           r == Settled(q)
<1>1. s \in Open /\ sock[s] \in Link /\ sock[s].peer = c
  BY DEF Inv, OwnEnds, IpcTypeOK, Open
<1>2. /\ q \in Link /\ q.closed = sock[s].closed /\ q.phase = sock[s].phase
      /\ q.at = sock[s].at /\ q.peer = NoPeer
  BY <1>1, LeftLink
<1>3. sock' = [sock EXCEPT ![s] = r]
  BY <1>1 DEF Left, Open, Inv, IpcTypeOK
<1> HIDE DEF q
<1>4. /\ r = NoSock => q.closed /\ q.at = "ended"
      /\ r # NoSock => r = q
  BY <1>2, NoSockAssumption DEF Settled
<1> HIDE DEF r
<1>5. KeepsLink(s, r)
  <2>1. r \in Link \cup {NoSock}
    BY <1>2, <1>4
  <2>2. \A phase \in {"pending", "authenticated"} : HeldIn(r, phase) <=> HeldIn(sock[s], phase)
    BY <1>1, <1>2, <1>4 DEF HeldIn, Open
  <2>3. r # NoSock => (r.at \in {"hello", "auth"} => r.phase = "pending")
    BY <1>1, <1>2, <1>4 DEF Inv, InHandshake
  <2> QED
    BY <1>1, <1>3, <2>1, <2>2, <2>3 DEF KeepsLink, Open
<1>6. /\ sock' \in [Socks -> Link \cup {NoSock}]
      /\ InHandshake' /\ CountersExact'
  BY <1>5, KeepsCounters
<1>7. IpcTypeOK'
  BY <1>6 DEF IpcTypeOK, Inv, counters
<1>8. OwnEnds'
  <2> SUFFICES ASSUME NEW d \in IpcCallers, caller'[d].st \in Calling
               PROVE  caller'[d].s \in Open' /\ sock'[caller'[d].s].peer = d
    BY DEF OwnEnds
  <2>1. d # c /\ caller'[d] = caller[d]
    BY DEF Calling, Inv, IpcTypeOK
  <2>2. caller[d].s \in Open /\ sock[caller[d].s].peer = d
    BY <2>1 DEF Inv, OwnEnds
  <2>3. caller[d].s # s
    BY <1>1, <2>1, <2>2
  <2> HIDE DEF s
  <2> QED
    BY <1>3, <2>1, <2>2, <2>3 DEF Inv, IpcTypeOK, Open
<1>9. Chained'
  <2> HIDE DEF s
  <2>1. \A i \in 1 .. Len(dispatchQueue) :
           dispatchQueue[i] \in Open' /\ sock'[dispatchQueue[i]].at = "busy"
    BY <1>1, <1>2, <1>3, <1>4 DEF Inv, IpcTypeOK, Open, Chained
  <2> QED
    BY <2>1 DEF Chained, Inv
<1> QED
  BY <1>6, <1>7, <1>8, <1>9 DEF Inv

-----------------------------------------------------------------------------
\* One lemma per action.

LEMMA InvInit == IpcInit => Inv
<1> SUFFICES ASSUME IpcInit PROVE Inv
  OBVIOUS
<1> USE DEF IpcInit
<1>1. Open = {}
  BY DEF Open
<1>2. IpcTypeOK
  BY IpcAssumption DEF IpcTypeOK, Calling
<1>3. OwnEnds /\ InHandshake /\ Chained
  BY <1>1 DEF OwnEnds, InHandshake, Chained, Calling
<1>4. \A phase : InPhase(phase) = {}
  BY <1>1 DEF InPhase, Held
<1>5. CountersExact
  <2>1. Cardinality({}) = 0
    BY FS_EmptySet
  <2>2. Cardinality(InPhase("pending")) = 0 /\ Cardinality(InPhase("authenticated")) = 0
    BY <1>4, <2>1
  <2> QED
    BY <2>2, IpcAssumption DEF CountersExact
<1> QED
  BY <1>2, <1>3, <1>5 DEF Inv

LEMMA ConnectKeeps == ASSUME Inv, NEW c \in IpcCallers, Connect(c) PROVE Inv'
<1> DEFINE link == [of |-> c, peer |-> c, live |-> TRUE, closed |-> FALSE, phase |-> "pending",
                    at |-> "hello", in |-> <<"hello">>, out |-> <<>>]
<1>1. PICK s \in Socks \ Open :
          /\ sock' = [sock EXCEPT ![s] = link]
          /\ caller' = [caller EXCEPT ![c] = [st |-> "challenge", s |-> s]]
  <2>1. \E free \in Socks : free \notin Open
    BY DEF Connect, Open
  <2> QED
    BY <2>1 DEF Connect
<1>2. link \in Link /\ link # NoSock
  <2>1. <<"hello">> \in Seq(Frames) /\ <<>> \in Seq(Frames)
    BY DEF Frames
  <2>2. link \in Link
    BY <2>1 DEF Link
  <2> QED
    BY <2>2, NoSockAssumption
<1>3. link.phase = "pending" /\ ~link.closed /\ link.peer = c
  OBVIOUS
<1> HIDE DEF link
<1>4. sock[s] = NoSock
  BY <1>1 DEF Open
<1>5. sock' \in [Socks -> Link \cup {NoSock}]
  BY <1>1, <1>2 DEF Inv, IpcTypeOK
<1>6. IpcTypeOK'
  BY <1>1, <1>5 DEF Inv, IpcTypeOK, Connect, Calling
<1>7. OwnEnds'
  <2> SUFFICES ASSUME NEW d \in IpcCallers, caller'[d].st \in Calling
               PROVE  caller'[d].s \in Open' /\ sock'[caller'[d].s].peer = d
    BY DEF OwnEnds
  <2>1. CASE d = c
    BY <2>1, <1>1, <1>2, <1>3 DEF Inv, IpcTypeOK, Open
  <2>2. CASE d # c
    BY <2>2, <1>1, <1>4 DEF Inv, IpcTypeOK, Open, OwnEnds
  <2> QED
    BY <2>1, <2>2
<1>8. InHandshake'
  BY <1>1, <1>3 DEF InHandshake, Inv, IpcTypeOK, Open
<1>9. Chained'
  <2>1. \A i \in 1 .. Len(dispatchQueue) :
           dispatchQueue[i] \in Open' /\ sock'[dispatchQueue[i]].at = "busy"
    BY <1>1, <1>4 DEF Inv, IpcTypeOK, Open, Chained
  <2> QED
    BY <2>1 DEF Chained, Inv, Connect
<1>10. CountersExact'
  <2>1. InPhase("pending")' = InPhase("pending") \cup {s} /\ s \notin InPhase("pending")
    BY <1>1, <1>2, <1>3, <1>4 DEF InPhase, Held, Open, Inv, IpcTypeOK
  <2>2. Cardinality(InPhase("pending")') = Cardinality(InPhase("pending")) + 1
    BY <2>1, PhaseSets, FS_AddElement
  <2>3. InPhase("authenticated")' = InPhase("authenticated")
    BY <1>1, <1>3, <1>4 DEF InPhase, Held, Open, Inv, IpcTypeOK
  <2> QED
    BY <2>2, <2>3, IpcAssumption DEF CountersExact, Inv, IpcTypeOK, Connect, Admits
<1> QED
  BY <1>6, <1>7, <1>8, <1>9, <1>10 DEF Inv

LEMMA ConnectRefusedKeeps == ASSUME Inv, NEW c \in IpcCallers, ConnectRefused(c) PROVE Inv'
<1> USE DEF ConnectRefused, CallerAt, counters
<1>1. Open' = Open /\ \A phase : InPhase(phase)' = InPhase(phase)
  BY DEF Open, Held, InPhase
<1>2. IpcTypeOK'
  BY DEF Inv, IpcTypeOK
<1>3. OwnEnds'
  BY <1>1 DEF Inv, IpcTypeOK, OwnEnds, Calling
<1> QED
  BY <1>1, <1>2, <1>3 DEF Inv, InHandshake, Chained, CountersExact

\* The two kinds of step that leave a connection where it is in its life.
LEMMA CallerTurnKeeps == ASSUME Inv, NEW c \in IpcCallers, CallerTurn(c) PROVE Inv'
<1> DEFINE s == caller[c].s
           t == Turn(caller[c].st)
           q == Sent(s, t.sends)
           r == [q EXCEPT !.out = Tail(@)]
<1>1. s \in Open /\ s \in Socks /\ sock[s] \in Link /\ sock[s].peer = c
  BY DEF Inv, OwnEnds, IpcTypeOK, Open, CallerTurn, Calling
<1>2. t.sends \in Frames /\ t.then \in Calling
  BY DEF Turn, CallerTurn, Frames, Calling
<1>3. q \in Link /\ SameEnds(q, sock[s]) /\ q.at = sock[s].at /\ q.out = sock[s].out
  <2>1. CASE sock[s].live
    <3>1. q = Arrive(sock[s], t.sends)
      BY <2>1 DEF Sent
    <3>2. Arrive(sock[s], t.sends).out = sock[s].out
      BY <1>1 DEF Arrive, Link
    <3> QED
      BY <3>1, <3>2, <1>1, <1>2, ArriveLink
  <2>2. CASE ~sock[s].live
    BY <2>2, <1>1 DEF Sent, SameEnds
  <2> QED
    BY <2>1, <2>2
<1>4. Tail(q.out) \in Seq(Frames)
  BY <1>1, <1>3 DEF CallerTurn, Link
<1>5. sock' = [sock EXCEPT ![s] = r] /\ caller' = [caller EXCEPT ![c].st = t.then]
  BY DEF CallerTurn
<1> HIDE DEF q
<1>6. r \in Link /\ SameEnds(r, sock[s]) /\ r.at = sock[s].at
  BY <1>3, <1>4 DEF Link, SameEnds
<1> HIDE DEF r, s, t
<1>7. KeepsLink(s, r)
  BY <1>1, <1>5, <1>6, NoSockAssumption DEF KeepsLink, HeldIn, SameEnds, Open, Inv, InHandshake
<1>8. /\ sock' \in [Socks -> Link \cup {NoSock}]
      /\ InHandshake' /\ CountersExact'
  BY <1>7, KeepsCounters DEF CallerTurn
<1>9. IpcTypeOK'
  BY <1>2, <1>5, <1>8 DEF Inv, IpcTypeOK, CallerTurn, counters
<1>10. OwnEnds'
  <2> SUFFICES ASSUME NEW d \in IpcCallers, caller'[d].st \in Calling
               PROVE  caller'[d].s \in Open' /\ sock'[caller'[d].s].peer = d
    BY DEF OwnEnds
  <2>1. caller'[d].s = caller[d].s /\ caller[d].st \in Calling
    BY <1>5 DEF Inv, IpcTypeOK, CallerTurn, Calling
  <2> QED
    BY <2>1, <1>1, <1>5, <1>6, NoSockAssumption DEF Inv, IpcTypeOK, Open, OwnEnds, SameEnds
<1>11. Chained'
  <2>1. \A i \in 1 .. Len(dispatchQueue) :
           dispatchQueue[i] \in Open' /\ sock'[dispatchQueue[i]].at = "busy"
    BY <1>1, <1>5, <1>6, NoSockAssumption DEF Inv, IpcTypeOK, Open, Chained
  <2> QED
    BY <2>1 DEF Chained, Inv, CallerTurn
<1> QED
  BY <1>8, <1>9, <1>10, <1>11 DEF Inv

LEMMA LeavesKeep ==
    ASSUME Inv, NEW c \in IpcCallers,
           CallerAnswered(c) \/ CallerRejected(c) \/ CallerFails(c) \/ CallerTimesOut(c)
    PROVE  Inv'
<1>1. CASE CallerAnswered(c)
  BY <1>1, LeavingKeeps DEF CallerAnswered, CallerAt, Calling, Inv, IpcTypeOK
<1>2. CASE CallerRejected(c)
  BY <1>2, LeavingKeeps DEF CallerRejected, CallerAt, Calling, Inv, IpcTypeOK
<1>3. CASE CallerFails(c)
  BY <1>3, LeavingKeeps DEF CallerFails, Calling, Inv, IpcTypeOK
<1>4. CASE CallerTimesOut(c)
  <2>1. ipcFaults' \in Nat /\ caller[c].st \in Calling
    BY <1>4 DEF CallerTimesOut, Calling, Inv, IpcTypeOK
  <2> QED
    BY <1>4, <2>1, LeavingKeeps DEF CallerTimesOut
<1> QED
  BY <1>1, <1>2, <1>3, <1>4

LEMMA GoesSilentKeeps == ASSUME Inv, NEW c \in IpcCallers, GoesSilent(c) PROVE Inv'
<1> DEFINE s == caller[c].s
           r == [sock[s] EXCEPT !.peer = NoPeer]
<1>1. s \in Open /\ s \in Socks /\ sock[s] \in Link /\ sock[s].peer = c
  BY DEF Inv, OwnEnds, IpcTypeOK, Open, GoesSilent, Calling
<1>2. /\ r \in Link /\ r.closed = sock[s].closed /\ r.phase = sock[s].phase
      /\ r.at = sock[s].at
  BY <1>1 DEF Link
<1>3. sock' = [sock EXCEPT ![s] = r] /\ caller' = [caller EXCEPT ![c].st = "idle"]
  BY <1>1 DEF GoesSilent, Inv, IpcTypeOK
<1> HIDE DEF r
<1>4. KeepsLink(s, r)
  BY <1>1, <1>2, <1>3, NoSockAssumption DEF KeepsLink, HeldIn, Open, Inv, InHandshake
<1>5. /\ sock' \in [Socks -> Link \cup {NoSock}]
      /\ InHandshake' /\ CountersExact'
  BY <1>4, KeepsCounters DEF GoesSilent
<1>6. IpcTypeOK'
  BY <1>3, <1>5 DEF Inv, IpcTypeOK, GoesSilent, counters
<1>7. OwnEnds'
  <2> SUFFICES ASSUME NEW d \in IpcCallers, caller'[d].st \in Calling
               PROVE  caller'[d].s \in Open' /\ sock'[caller'[d].s].peer = d
    BY DEF OwnEnds
  <2>1. d # c /\ caller'[d] = caller[d]
    BY <1>3 DEF Calling, Inv, IpcTypeOK
  <2>2. caller[d].s \in Open /\ sock[caller[d].s].peer = d
    BY <2>1 DEF Inv, OwnEnds
  <2>3. caller[d].s # s
    BY <1>1, <2>1, <2>2
  <2> HIDE DEF s
  <2> QED
    BY <1>3, <2>1, <2>2, <2>3 DEF Inv, IpcTypeOK, Open
<1>8. Chained'
  <2> HIDE DEF s
  <2>1. \A i \in 1 .. Len(dispatchQueue) :
           dispatchQueue[i] \in Open' /\ sock'[dispatchQueue[i]].at = "busy"
    BY <1>1, <1>2, <1>3, NoSockAssumption DEF Inv, IpcTypeOK, Open, Chained
  <2> QED
    BY <2>1 DEF Chained, Inv, GoesSilent
<1> QED
  BY <1>5, <1>6, <1>7, <1>8 DEF Inv

\* A step that leaves a connection open, of the same peer, in the same phase,
\* and neither begins nor ends a request.
LEMMA SameLinkKeeps ==
    ASSUME Inv, NEW s \in Held, NEW r \in Link, sock' = [sock EXCEPT ![s] = r],
           SameEnds(r, sock[s]),
           sock[s].at = "busy" => r.at = "busy",
           r.at \in {"hello", "auth"} => sock[s].at \in {"hello", "auth"},
           UNCHANGED <<caller, counters, dispatchQueue, answeredIds, daemon>>, ipcFaults' \in Nat
    PROVE  Inv'
<1>1. s \in Open /\ s \in Socks /\ r # NoSock
  BY NoSockAssumption DEF Held, Open
<1>2. KeepsLink(s, r)
  BY <1>1 DEF KeepsLink, SameEnds, HeldIn, Held, Open, Inv, InHandshake
<1> QED
  BY <1>1, <1>2, ServerKeeps DEF SameEnds

LEMMA StrayFrameKeeps == ASSUME Inv, NEW s \in Socks, StrayFrame(s) PROVE Inv'
<1>1. s \in Held /\ sock[s] \in Link /\ "junk" \in Frames
  BY DEF StrayFrame, Held, Open, Inv, IpcTypeOK, Frames
<1>2. Sent(s, "junk") = Arrive(sock[s], "junk")
  BY DEF StrayFrame, Sent
<1>3. ipcFaults' \in Nat
  BY DEF StrayFrame, Inv, IpcTypeOK
<1> DEFINE r == Arrive(sock[s], "junk")
<1>4. r \in Link /\ SameEnds(r, sock[s]) /\ r.at = sock[s].at
  BY <1>1, ArriveLink
<1>5. sock' = [sock EXCEPT ![s] = r]
  BY <1>2 DEF StrayFrame
<1> HIDE DEF r
<1> QED
  BY <1>1, <1>3, <1>4, <1>5, SameLinkKeeps DEF StrayFrame

LEMMA ServeHelloKeeps == ASSUME Inv, NEW s \in Socks, ServeHello(s) PROVE Inv'
<1>1. s \in Held /\ sock[s] \in Link /\ sock[s].in # <<>> /\ sock[s].at = "hello"
  BY DEF ServeHello, Gets, Held, Open, Inv, IpcTypeOK
<1>2. "challenge" \in Frames /\ ipcFaults' \in Nat
  BY DEF Frames, ServeHello, Inv, IpcTypeOK
<1>3. CASE CanReply(sock[s])
  BY <1>1, <1>2, <1>3, ReplyLink, SameLinkKeeps DEF ServeHello
<1>4. CASE ~CanReply(sock[s])
  BY <1>1, <1>2, <1>4, DestroyedLink, SameLinkKeeps DEF ServeHello
<1> QED
  BY <1>3, <1>4

\* The coroutine of an awaiting connection ends.
LEMMA EndsKeeps == ASSUME Inv, NEW s \in Socks, ServeJunk(s) \/ TimesOut(s) PROVE Inv'
<1>1. /\ s \in Held /\ sock[s] \in Link /\ sock[s].at # "busy"
      /\ sock' = [sock EXCEPT ![s] = Destroyed(sock[s])]
  BY DEF ServeJunk, TimesOut, Awaits, Held, Open, Inv, IpcTypeOK
<1>2. /\ ipcFaults' \in Nat
      /\ UNCHANGED <<caller, counters, dispatchQueue, answeredIds, daemon>>
  BY DEF ServeJunk, TimesOut, Inv, IpcTypeOK
<1> QED
  BY <1>1, <1>2, DestroyedLink, SameLinkKeeps

LEMMA ServeProofKeeps == ASSUME Inv, NEW s \in Socks, ServeProof(s) PROVE Inv'
<1>1. /\ s \in Held /\ s \in Open /\ sock[s] \in Link /\ sock[s].in # <<>>
      /\ sock[s].at = "auth" /\ sock[s].phase = "pending"
  BY DEF ServeProof, Gets, Held, Open, Inv, IpcTypeOK, InHandshake
<1>2. CASE ~HasRoom
  <2>1. sock' = [sock EXCEPT ![s] = Destroyed(sock[s])] /\ UNCHANGED counters /\ ipcFaults' \in Nat
    BY <1>1, <1>2 DEF ServeProof, Inv, IpcTypeOK
  <2> QED
    BY <2>1, <1>1, DestroyedLink, SameLinkKeeps DEF ServeProof
<1>3. CASE HasRoom
  <2> DEFINE q == IF CanReply(sock[s]) THEN ReplyWith(sock[s], "ready", "request")
                                       ELSE Destroyed(sock[s])
             r == [q EXCEPT !.phase = "authenticated"]
  <2>1. q \in Link /\ SameEnds(q, sock[s]) /\ q.at \in {"request", "ended"}
    <3>1. "ready" \in Frames
      BY DEF Frames
    <3> QED
      BY <3>1, <1>1, ReplyLink, DestroyedLink
  <2>2. /\ pendingHandshakes' = pendingHandshakes - 1
        /\ authenticatedConnections' = authenticatedConnections + 1
        /\ sock' = [sock EXCEPT ![s] = r]
    BY <1>3 DEF ServeProof
  <2> HIDE DEF q
  <2>3. /\ r \in Link /\ r.peer = sock[s].peer /\ r.closed = sock[s].closed
        /\ r.phase = "authenticated" /\ r.at \in {"request", "ended"}
    BY <2>1 DEF Link, SameEnds
  <2> HIDE DEF r
  <2>4. r # NoSock
    BY <2>3, NoSockAssumption
  <2>5. Cardinality(InPhase("pending")') = Cardinality(InPhase("pending")) - 1
    <3>1. s \in InPhase("pending") /\ InPhase("pending")' = InPhase("pending") \ {s}
      BY <1>1, <2>2, <2>3 DEF InPhase, Held, Open, Inv, IpcTypeOK
    <3> QED
      BY <3>1, PhaseSets, FS_RemoveElement
  <2>6. Cardinality(InPhase("authenticated")') = Cardinality(InPhase("authenticated")) + 1
    <3>1. /\ s \notin InPhase("authenticated")
          /\ InPhase("authenticated")' = InPhase("authenticated") \cup {s}
      BY <1>1, <2>2, <2>3, <2>4 DEF InPhase, Held, Open, Inv, IpcTypeOK
    <3> QED
      BY <3>1, PhaseSets, FS_AddElement
  <2>7. Cardinality(InPhase("pending")') \in Nat
    BY <2>2, PhaseSets, FS_CardinalityType, FS_Subset, IpcAssumption DEF InPhase, Held, Open
  <2>8. CountersExact' /\ pendingHandshakes' \in Nat /\ authenticatedConnections' \in Nat
    BY <1>3, <2>2, <2>5, <2>6, <2>7, IpcAssumption DEF CountersExact, Inv, IpcTypeOK, HasRoom
  <2>9. IpcTypeOK'
    BY <2>2, <2>3, <2>8 DEF ServeProof, Inv, IpcTypeOK
  <2>10. OwnEnds'
    <3>1. UNCHANGED caller
      BY DEF ServeProof
    <3> QED
      BY <3>1, <1>1, <2>2, <2>3, <2>4 DEF OwnEnds, Inv, IpcTypeOK, Open
  <2>11. InHandshake'
    BY <2>2, <2>3 DEF InHandshake, Inv, IpcTypeOK, Open
  <2>12. Chained'
    <3>1. \A i \in 1 .. Len(dispatchQueue) :
             dispatchQueue[i] \in Open' /\ sock'[dispatchQueue[i]].at = "busy"
      BY <1>1, <2>2, <2>4 DEF Inv, IpcTypeOK, Open, Chained
    <3> QED
      BY <3>1 DEF Chained, Inv, ServeProof
  <2> QED
    BY <2>8, <2>9, <2>10, <2>11, <2>12 DEF Inv
<1> QED
  BY <1>2, <1>3

LEMMA ServeRequestKeeps == ASSUME Inv, NEW s \in Socks, ServeRequest(s) PROVE Inv'
<1> DEFINE r == [sock[s] EXCEPT !.at = "busy", !.in = Tail(@)]
<1>1. /\ s \in Held /\ s \in Open /\ sock[s] \in Link /\ sock[s].in # <<>>
      /\ sock[s].at = "request"
  BY DEF ServeRequest, Gets, Held, Open, Inv, IpcTypeOK
<1>2. Tail(sock[s].in) \in Seq(Frames)
  BY <1>1 DEF Link
<1>3. r \in Link /\ SameEnds(r, sock[s]) /\ r.at = "busy"
  BY <1>1, <1>2 DEF Link, SameEnds
<1>4. sock' = [sock EXCEPT ![s] = r] /\ dispatchQueue' = Append(dispatchQueue, s)
  BY <1>1 DEF ServeRequest, Inv, IpcTypeOK
<1> HIDE DEF r
<1>5. r # NoSock
  BY <1>3, NoSockAssumption
<1>6. KeepsLink(s, r)
  BY <1>1, <1>3, <1>4, <1>5 DEF KeepsLink, HeldIn, SameEnds, Open
<1>7. /\ sock' \in [Socks -> Link \cup {NoSock}]
      /\ InHandshake' /\ CountersExact'
  BY <1>6, KeepsCounters DEF ServeRequest
<1>8. IpcTypeOK'
  <2>1. dispatchQueue' \in Seq(Socks)
    BY <1>4 DEF Inv, IpcTypeOK
  <2>2. UNCHANGED <<caller, pendingHandshakes, authenticatedConnections, answeredIds, daemon, ipcFaults>>
    BY DEF ServeRequest, counters
  <2> QED
    BY <1>7, <2>1, <2>2 DEF Inv, IpcTypeOK
<1>9. OwnEnds'
  <2>1. UNCHANGED caller
    BY DEF ServeRequest
  <2> QED
    BY <2>1, <1>1, <1>3, <1>4, <1>5 DEF OwnEnds, SameEnds, Inv, IpcTypeOK, Open
<1>10. Chained'
  <2> DEFINE n == Len(dispatchQueue)
  <2>1. /\ n \in Nat /\ Len(dispatchQueue') = n + 1 /\ dispatchQueue'[n + 1] = s
        /\ \A i \in 1 .. n : dispatchQueue'[i] = dispatchQueue[i]
    BY <1>4 DEF Inv, IpcTypeOK
  <2>2. \A i \in 1 .. n : /\ dispatchQueue[i] \in Open /\ sock[dispatchQueue[i]].at = "busy"
                         /\ dispatchQueue[i] # s
    BY <1>1 DEF Inv, Chained
  <2> HIDE DEF n
  <2>3. \A i \in 1 .. n : dispatchQueue[i] \in Open' /\ sock'[dispatchQueue[i]].at = "busy"
    BY <1>1, <1>4, <1>5, <2>2 DEF Inv, IpcTypeOK, Open
  <2>4. s \in Open' /\ sock'[s].at = "busy"
    BY <1>1, <1>3, <1>4, <1>5 DEF Inv, IpcTypeOK, Open
  <2>5. \A i \in 1 .. n + 1 :
           dispatchQueue'[i] \in Open' /\ sock'[dispatchQueue'[i]].at = "busy"
    BY <2>1, <2>3, <2>4
  <2>6. \A i, j \in 1 .. n : dispatchQueue[i] = dispatchQueue[j] => i = j
    BY DEF Inv, Chained, n
  <2>7. \A i, j \in 1 .. n + 1 : dispatchQueue'[i] = dispatchQueue'[j] => i = j
    BY <2>1, <2>2, <2>6
  <2> QED
    BY <2>1, <2>5, <2>7 DEF Chained
<1> QED
  BY <1>7, <1>8, <1>9, <1>10 DEF Inv

\* The request at the head is settled, one way or another.
LEMMA HeadIsBusy ==
    ASSUME Inv, dispatchQueue # <<>>
    PROVE  LET s == Head(dispatchQueue) IN
           s \in Open /\ s \in Socks /\ sock[s] \in Link /\ sock[s].at = "busy"
<1>1. 1 \in 1 .. Len(dispatchQueue) /\ Head(dispatchQueue) = dispatchQueue[1]
  BY DEF Inv, IpcTypeOK
<1>2. dispatchQueue[1] \in Open /\ sock[dispatchQueue[1]].at = "busy"
  BY <1>1 DEF Inv, Chained
<1> QED
  BY <1>1, <1>2 DEF Inv, IpcTypeOK, Open

LEMMA DequeueKeeps ==
    ASSUME Inv, dispatchQueue # <<>>, NEW r, KeepsLink(Head(dispatchQueue), r),
           r = NoSock => sock[Head(dispatchQueue)].peer = NoPeer,
           r # NoSock => r.peer = sock[Head(dispatchQueue)].peer,
           dispatchQueue' = Tail(dispatchQueue), UNCHANGED <<caller, counters>>,
           answeredIds' \subseteq IpcCallers, daemon' \in {"up", "stopping", "down"},
           ipcFaults' \in Nat
    PROVE  Inv'
<1> DEFINE s == Head(dispatchQueue)
           n == Len(dispatchQueue)
<1>1. s \in Open /\ s \in Socks /\ sock[s] \in Link /\ sock[s].at = "busy"
  BY HeadIsBusy
<1>2. sock' = [sock EXCEPT ![s] = r]
  BY DEF KeepsLink
<1>3. /\ sock' \in [Socks -> Link \cup {NoSock}]
      /\ InHandshake' /\ CountersExact'
  BY KeepsCounters
<1>4. /\ n \in Nat /\ n > 0 /\ s = dispatchQueue[1]
      /\ dispatchQueue' \in Seq(Socks) /\ Len(dispatchQueue') = n - 1
      /\ \A i \in 1 .. n - 1 : dispatchQueue'[i] = dispatchQueue[i + 1]
  BY DEF Inv, IpcTypeOK
<1>5. IpcTypeOK'
  <2>1. dispatchQueue' \in Seq(Socks)
    BY <1>4
  <2> QED
    BY <1>3, <2>1 DEF Inv, IpcTypeOK, counters
<1>6. /\ \A i \in 1 .. n : dispatchQueue[i] \in Open /\ sock[dispatchQueue[i]].at = "busy"
      /\ \A i, j \in 1 .. n : dispatchQueue[i] = dispatchQueue[j] => i = j
  BY DEF Inv, Chained
<1> HIDE DEF s, n
<1>7. OwnEnds'
  <2> SUFFICES ASSUME NEW c \in IpcCallers, caller[c].st \in Calling
               PROVE  caller[c].s \in Open' /\ sock'[caller[c].s].peer = c
    BY DEF OwnEnds
  <2>1. caller[c].s \in Open /\ sock[caller[c].s].peer = c /\ c # NoPeer
    BY IpcAssumption DEF Inv, OwnEnds
  <2>2. r = NoSock => sock[s].peer = NoPeer
    BY DEF s
  <2>3. r # NoSock => r.peer = sock[s].peer
    BY DEF s
  <2> QED
    BY <1>2, <2>1, <2>2, <2>3 DEF Inv, IpcTypeOK, Open
<1>8. Chained'
  <2>1. \A i \in 1 .. n - 1 : /\ i + 1 \in 1 .. n /\ i + 1 # 1 /\ 1 \in 1 .. n
                             /\ dispatchQueue[i + 1] # s
    BY <1>4, <1>6
  <2>2. \A t \in Open : t # s => t \in Open' /\ sock'[t] = sock[t]
    BY <1>2 DEF Inv, IpcTypeOK, Open
  <2>3. \A i \in 1 .. n - 1 :
           dispatchQueue'[i] \in Open' /\ sock'[dispatchQueue'[i]].at = "busy"
    BY <1>4, <1>6, <2>1, <2>2
  <2>4. \A i, j \in 1 .. n - 1 : dispatchQueue'[i] = dispatchQueue'[j] => i = j
    BY <1>4, <1>6, <2>1
  <2> QED
    BY <1>4, <2>3, <2>4 DEF Chained
<1> QED
  BY <1>3, <1>5, <1>7, <1>8 DEF Inv

\* A request whose answer cannot be sent: the coroutine ends.
LEMMA UnansweredLink ==
    ASSUME Inv, dispatchQueue # <<>>,
           LET s == Head(dispatchQueue) IN
               sock' = [sock EXCEPT ![s] = Settled(Destroyed(sock[s]))]
    PROVE  LET s == Head(dispatchQueue)  r == Settled(Destroyed(sock[s])) IN
           /\ KeepsLink(s, r)
           /\ r = NoSock => sock[s].peer = NoPeer
           /\ r # NoSock => r.peer = sock[s].peer
<1> DEFINE s == Head(dispatchQueue)
           q == Destroyed(sock[s])
           r == Settled(q)
<1>1. s \in Open /\ s \in Socks /\ sock[s] \in Link
  BY HeadIsBusy
<1>2. q \in Link /\ SameEnds(q, sock[s]) /\ q.at = "ended"
  BY <1>1, DestroyedLink
<1> HIDE DEF q, s
<1>3. /\ r = NoSock => q.closed /\ q.peer = NoPeer
      /\ r # NoSock => r = q
  BY <1>2, NoSockAssumption DEF Settled
<1>4. r \in Link \cup {NoSock}
  BY <1>2, <1>3
<1> HIDE DEF r
<1>5. sock' = [sock EXCEPT ![s] = r]
  BY DEF r, q, s
<1>6. KeepsLink(s, r)
  <2>1. r # NoSock => (r.at \in {"hello", "auth"} => r.phase = "pending")
    BY <1>2, <1>3
  <2> QED
    BY <1>1, <1>2, <1>3, <1>4, <1>5, <2>1 DEF KeepsLink, HeldIn, SameEnds, Open
<1>7. (r = NoSock => sock[s].peer = NoPeer) /\ (r # NoSock => r.peer = sock[s].peer)
  BY <1>2, <1>3 DEF SameEnds
<1> QED
  BY <1>6, <1>7 DEF r, q, s

LEMMA RespondKeeps == ASSUME Inv, Respond \/ RespondError PROVE Inv'
<1> DEFINE s == Head(dispatchQueue)
<1>1. dispatchQueue # <<>> /\ dispatchQueue' = Tail(dispatchQueue)
  BY DEF Respond, RespondError
<1>2. s \in Open /\ s \in Socks /\ sock[s] \in Link /\ sock[s].at = "busy"
  BY <1>1, HeadIsBusy
<1>3. /\ UNCHANGED <<caller, counters>>
      /\ answeredIds' \subseteq IpcCallers
      /\ daemon' \in {"up", "stopping", "down"}
      /\ ipcFaults' \in Nat
  <2>1. sock[s].of \in IpcCallers
    BY <1>2 DEF Link
  <2>2. CASE Respond
    BY <2>1, <2>2 DEF Respond, Inv, IpcTypeOK
  <2>3. CASE RespondError
    BY <2>3 DEF RespondError, Inv, IpcTypeOK
  <2> QED
    BY <2>2, <2>3
<1>4. CASE ~CanReply(sock[s])
  <2>1. sock' = [sock EXCEPT ![s] = Settled(Destroyed(sock[s]))]
    BY <1>2, <1>4 DEF Respond, RespondError, Inv, IpcTypeOK
  <2> DEFINE r == Settled(Destroyed(sock[s]))
  <2>2. /\ KeepsLink(s, r)
        /\ r = NoSock => sock[s].peer = NoPeer
        /\ r # NoSock => r.peer = sock[s].peer
    BY <1>1, <2>1, UnansweredLink
  <2> HIDE DEF r
  <2> QED
    BY <1>1, <1>3, <2>2, DequeueKeeps
<1>5. CASE CanReply(sock[s])
  <2>1. PICK r \in Link : /\ sock' = [sock EXCEPT ![s] = r] /\ SameEnds(r, sock[s])
                          /\ r.at \in {"request", "ended"}
    <3>1. "ok" \in Frames /\ "error" \in Frames
      BY DEF Frames
    <3>2. CASE Respond
      <4> DEFINE q == WithReply(sock[s], "ok", "ended")
                 r == [q EXCEPT !.live = FALSE]
      <4>1. CASE StopsDaemon(sock[s].of)
        <5>1. sock' = [sock EXCEPT ![s] = r]
          BY <1>5, <3>2, <4>1 DEF Respond
        <5>2. q \in Link /\ SameEnds(q, sock[s]) /\ q.at = "ended"
          BY <1>2, <3>1, AnswerLink
        <5> HIDE DEF q
        <5>3. r \in Link /\ SameEnds(r, sock[s]) /\ r.at = "ended"
          BY <5>2 DEF Link, SameEnds
        <5> QED
          BY <5>1, <5>3
      <4>2. CASE ~StopsDaemon(sock[s].of)
        <5>1. sock' = [sock EXCEPT ![s] = WithReply(sock[s], "ok", "request")]
          BY <1>5, <3>2, <4>2 DEF Respond
        <5> QED
          BY <5>1, <1>2, <3>1, AnswerLink
      <4> QED
        BY <4>1, <4>2
    <3>3. CASE RespondError
      <4>1. sock' = [sock EXCEPT ![s] = WithReply(sock[s], "error", "request")]
        BY <1>5, <3>3 DEF RespondError
      <4> QED
        BY <4>1, <1>2, <3>1, AnswerLink
    <3> QED
      BY <3>2, <3>3
  <2>2. r # NoSock
    BY NoSockAssumption
  <2>3. KeepsLink(s, r)
    BY <1>2, <2>1, <2>2 DEF KeepsLink, HeldIn, SameEnds, Open
  <2> QED
    BY <1>1, <1>3, <2>1, <2>2, <2>3, DequeueKeeps DEF SameEnds
<1> QED
  BY <1>4, <1>5

LEMMA CloseEventKeeps == ASSUME Inv, NEW s \in Socks, CloseEvent(s) PROVE Inv'
<1> DEFINE q == [sock[s] EXCEPT !.closed = TRUE,
                                !.at = IF Awaits(sock[s]) THEN "ended" ELSE @]
           r == Settled(q)
<1>1. /\ s \in Held /\ s \in Open /\ sock[s] \in Link /\ ~sock[s].closed
      /\ sock[s].phase \in {"pending", "authenticated"}
  BY DEF CloseEvent, Held, Open, Inv, IpcTypeOK, Link
<1>2. /\ q \in Link /\ q.closed = TRUE /\ q.peer = sock[s].peer
      /\ q.at \in {"busy", "ended"} /\ (sock[s].at = "busy" => q.at = "busy")
  BY <1>1 DEF Link, Awaits
<1>3. sock' = [sock EXCEPT ![s] = r]
  BY DEF CloseEvent
<1> HIDE DEF q
<1>4. /\ r = NoSock => q.at = "ended" /\ q.peer = NoPeer
      /\ r # NoSock => r = q
  BY <1>2, NoSockAssumption DEF Settled
<1>5. /\ r \in Link \cup {NoSock} /\ (r # NoSock => r.closed)
      /\ r # NoSock => r.peer = sock[s].peer /\ r.at \in {"busy", "ended"}
      /\ r = NoSock => sock[s].peer = NoPeer
      /\ sock[s].at = "busy" => r # NoSock /\ r.at = "busy"
  BY <1>2, <1>4
<1> HIDE DEF r
<1>6. \A phase : InPhase(phase)' = InPhase(phase) \ {s}
  BY <1>1, <1>3, <1>5 DEF InPhase, Held, Open, Inv, IpcTypeOK
<1>7. \A phase : Cardinality(InPhase(phase)') =
          Cardinality(InPhase(phase)) - (IF sock[s].phase = phase THEN 1 ELSE 0)
  <2> TAKE phase
  <2>0. IsFiniteSet(InPhase(phase)) /\ Cardinality(InPhase(phase)) \in Nat
    BY PhaseSets, FS_CardinalityType
  <2>1. CASE sock[s].phase = phase
    <3>1. s \in InPhase(phase)
      BY <1>1, <2>1 DEF InPhase
    <3> QED
      BY <2>0, <2>1, <3>1, <1>6, FS_RemoveElement
  <2>2. CASE sock[s].phase # phase
    <3>1. InPhase(phase)' = InPhase(phase)
      BY <1>6, <2>2 DEF InPhase
    <3> QED
      BY <2>0, <2>2, <3>1
  <2> QED
    BY <2>1, <2>2
<1>8. \A phase : Cardinality(InPhase(phase)') \in Nat
  <2> TAKE phase
  <2>1. IsFiniteSet(InPhase(phase) \ {s})
    BY PhaseSets, FS_Subset
  <2> QED
    BY <2>1, <1>6, FS_CardinalityType
<1>9. /\ pendingHandshakes' = Cardinality(InPhase("pending")')
      /\ authenticatedConnections' = Cardinality(InPhase("authenticated")')
  BY <1>7 DEF CloseEvent, Inv, CountersExact
<1>10. pendingHandshakes' <= pendingHandshakes /\ authenticatedConnections' <= authenticatedConnections
  BY DEF CloseEvent, Inv, IpcTypeOK
<1>11. CountersExact' /\ pendingHandshakes' \in Nat /\ authenticatedConnections' \in Nat
  BY <1>8, <1>9, <1>10, IpcAssumption DEF CountersExact, Inv, IpcTypeOK
<1>12. IpcTypeOK'
  BY <1>3, <1>5, <1>11 DEF Inv, IpcTypeOK, CloseEvent
<1>13. OwnEnds'
  <2> SUFFICES ASSUME NEW c \in IpcCallers, caller[c].st \in Calling
               PROVE  caller[c].s \in Open' /\ sock'[caller[c].s].peer = c
    BY DEF OwnEnds, CloseEvent
  <2>1. caller[c].s \in Open /\ sock[caller[c].s].peer = c /\ c # NoPeer
    BY IpcAssumption DEF Inv, OwnEnds
  <2> QED
    BY <1>3, <1>5, <2>1 DEF Inv, IpcTypeOK, Open
<1>14. InHandshake'
  BY <1>3, <1>5 DEF Inv, IpcTypeOK, InHandshake, Open
<1>15. Chained'
  <2>1. \A i \in 1 .. Len(dispatchQueue) :
           dispatchQueue[i] \in Open' /\ sock'[dispatchQueue[i]].at = "busy"
    BY <1>3, <1>5 DEF Inv, IpcTypeOK, Open, Chained
  <2> QED
    BY <2>1 DEF Chained, Inv, CloseEvent
<1> QED
  BY <1>11, <1>12, <1>13, <1>14, <1>15 DEF Inv

LEMMA CloseServerKeeps == ASSUME Inv, CloseServer PROVE Inv'
<1>1. /\ sock' \in [Socks -> Link \cup {NoSock}]
      /\ \A s \in Socks : sock'[s] = NoSock <=> sock[s] = NoSock
      /\ \A s \in Open : SameEnds(sock'[s], sock[s]) /\ sock'[s].at = sock[s].at
  <2>1. \A s \in Socks : sock'[s] = IF s \in Held THEN [sock[s] EXCEPT !.live = FALSE] ELSE sock[s]
    BY DEF CloseServer
  <2>2. \A s \in Held : /\ s \in Open /\ sock'[s] \in Link
                        /\ SameEnds(sock'[s], sock[s]) /\ sock'[s].at = sock[s].at
    <3> TAKE s \in Held
    <3>1. s \in Socks /\ s \in Open /\ sock[s] \in Link
      BY DEF Held, Open, Inv, IpcTypeOK
    <3> QED
      BY <2>1, <3>1 DEF Link, SameEnds
  <2>3. \A s \in Socks : s \notin Held => sock'[s] = sock[s]
    BY <2>1
  <2>4. \A s \in Socks : sock'[s] \in Link \cup {NoSock}
    BY <2>2, <2>3 DEF Inv, IpcTypeOK
  <2>5. sock' \in [Socks -> Link \cup {NoSock}]
    BY <2>4 DEF CloseServer
  <2>6. \A s \in Open : s \in Socks
    BY DEF Open
  <2>7. \A s \in Socks : sock'[s] = NoSock <=> sock[s] = NoSock
    BY <2>2, <2>3, NoSockAssumption DEF Open
  <2> QED
    BY <2>2, <2>3, <2>5, <2>6, <2>7 DEF SameEnds
<1>2. Open' = Open
  BY <1>1 DEF Open
<1>3. \A phase : InPhase(phase)' = InPhase(phase)
  BY <1>1, <1>2 DEF InPhase, Held, SameEnds
<1>4. /\ UNCHANGED <<caller, pendingHandshakes, authenticatedConnections, dispatchQueue,
                      answeredIds, ipcFaults>>
      /\ daemon' = "down"
  BY DEF CloseServer, counters
<1>5. IpcTypeOK'
  BY <1>1, <1>4 DEF Inv, IpcTypeOK
<1>6. OwnEnds' /\ InHandshake' /\ Chained'
  BY <1>1, <1>2, <1>4 DEF Inv, OwnEnds, InHandshake, Chained, SameEnds
<1>7. CountersExact'
  BY <1>3, <1>4 DEF Inv, CountersExact
<1> QED
  BY <1>5, <1>6, <1>7 DEF Inv

-----------------------------------------------------------------------------

LEMMA InvStep == Inv /\ [IpcNext]_ipcVars => Inv'
<1> SUFFICES ASSUME Inv, [IpcNext]_ipcVars PROVE Inv'
  OBVIOUS
<1>1. ASSUME NEW c \in IpcCallers, CallerStep(c) PROVE Inv'
  BY <1>1, ConnectKeeps, ConnectRefusedKeeps, CallerTurnKeeps, LeavesKeep DEF CallerStep
<1>2. ASSUME NEW s \in Socks, ServerStep(s) PROVE Inv'
  BY <1>2, ServeHelloKeeps, ServeProofKeeps, ServeRequestKeeps, EndsKeeps, CloseEventKeeps
     DEF ServerStep
<1>3. CASE Respond \/ RespondError
  BY <1>3, RespondKeeps
<1>4. CASE CloseServer
  BY <1>4, CloseServerKeeps
<1>5. ASSUME NEW c \in IpcCallers, CallerTimesOut(c) \/ GoesSilent(c) PROVE Inv'
  BY <1>5, LeavesKeep, GoesSilentKeeps
<1>6. ASSUME NEW s \in Socks, StrayFrame(s) PROVE Inv'
  BY <1>6, StrayFrameKeeps
<1>7. CASE UNCHANGED ipcVars
  <2> USE <1>7 DEF ipcVars
  <2>1. Open' = Open /\ \A phase : InPhase(phase)' = InPhase(phase)
    BY DEF Open, Held, InPhase
  <2> QED
    BY <2>1 DEF Inv, IpcTypeOK, OwnEnds, InHandshake, Chained, CountersExact
<1> QED
  BY <1>1, <1>2, <1>3, <1>4, <1>5, <1>6, <1>7 DEF IpcNext, IpcFault

\* The connections' inductive invariant holds in every reachable state: whose
\* socket is whose, which requests are chained, and the counters.
THEOREM ConnectionInvariant == IpcSpec => []Inv
<1>1. IpcInit => Inv
  BY InvInit
<1>2. Inv /\ [IpcNext]_ipcVars => Inv'
  BY InvStep
<1> QED
  BY <1>1, <1>2, PTL DEF IpcSpec

\* However connections begin, fail, are abandoned, time out or are closed under
\* a request, the two counters of the server count the sockets of their phase
\* and stay in their limits (server.ts:126-160): no leak locks callers out.
THEOREM CountersAlwaysExact == IpcSpec => []CountersExact
<1>1. Inv => CountersExact
  BY DEF Inv
<1> QED
  BY <1>1, ConnectionInvariant, PTL

-----------------------------------------------------------------------------
\* The clients of the authority.

\* How a task can end: answered or refused, by whom.
Ends == {"none", "ok", "conflict", "reused", "daemon-request-failed", "protocol-error",
         "invalid-params", "not-initialized", "invalid-input", "side-effects-disabled",
         "capability-required", "approval-required", "approval-invalid"}

AnswerTasks == [at : {"writing", "answered"}, outcome : Ends]
CallTasks   == [at : {"daemon", "writing"}, call : ToolCalls, stage : 1 .. 2, outcome : Ends]

\* The id of the first request of a two-stage import.
ArtifactRequest(call) == <<call.approval.id, call.tool, "artifact-import", call.args>>

\* A request of an approved call: its id, its intent and its payload are fixed
\* by the call, but for the manifest, which is the one its first stage got.
IsCallOf(q, call) ==
    /\ ~IsRead(call)
    /\ q.stage \in (IF call.tool = "import" THEN {"artifact-import", "credential-import"}
                    ELSE {"authority"})
    /\ q.id = <<call.approval.id, call.tool, q.stage, call.args>>
    /\ q.intent = <<call.approval.id, call.tool, call.args>>
    /\ q.rec = call.args.rec /\ q.ver = call.args.ver
    /\ IF q.stage = "credential-import"
       THEN /\ ArtifactRequest(call) \in DOMAIN agentReceipts
            /\ q.manifest = agentReceipts[ArtifactRequest(call)].manifest
       ELSE q.manifest = NoManifest

IsCommand(q) ==
    \E via, c : q.id = <<via, c>> /\ q.intent = <<via, c>> /\ q.stage = "authority"

Known(q) == IsCommand(q) \/ \E call \in ToolCalls : IsCallOf(q, call)

TasksTypeOK ==
    /\ tasks \in Seq(AnswerTasks \cup CallTasks)
    /\ \A n \in DOMAIN tasks : tasks[n].at = "daemon" => tasks[n] \in CallTasks /\ tasks[n].outcome = "none"

\* What is under way, and whose it is.
UnderWay ==
    /\ \A m \in atDaemon : m.q.stage = "read" \/ Known(m.q)
    /\ \A m \in atDaemon : m.n # 0 =>
         /\ m.n \in DOMAIN tasks
         /\ tasks[m.n].at = "daemon" =>
              LET t == tasks[m.n] IN
              /\ t.stage \in DOMAIN Stages(t.call)
              /\ m.q.stage = Stages(t.call)[t.stage]
              /\ ~IsRead(t.call) => IsCallOf(m.q, t.call)
              /\ \A o \in atDaemon : o.n = m.n => o = m

\* What was done: every effect has its receipt, and every receipt its effect.
Done ==
    /\ \A e \in effects :
         /\ e.intent = e.q.intent /\ e.stage = e.q.stage /\ Known(e.q)
         /\ e.q.id \in DOMAIN agentReceipts
         /\ agentReceipts[e.q.id].payload = Payload(e.q)
    /\ \A id \in DOMAIN agentReceipts : \E e \in effects : e.q.id = id

DoneOnce == \A e, f \in effects : e.intent = f.intent /\ e.stage = f.stage => e = f

\* The inductive invariant of the clients.
AgentInv == TasksTypeOK /\ UnderWay /\ Done /\ DoneOnce

LEMMA AgentInitInv == AgentInit => AgentInv
<1> SUFFICES ASSUME AgentInit PROVE AgentInv
  OBVIOUS
<1>1. tasks = <<>> /\ atDaemon = {} /\ effects = {} /\ agentReceipts = << >>
  BY DEF AgentInit
<1> QED
  BY <1>1 DEF AgentInv, TasksTypeOK, UnderWay, Done, DoneOnce

\* Tuples of different lengths differ.
LEMMA TupleLengths ==
    ASSUME NEW a, NEW b, NEW w, NEW x, NEW y, NEW z
    PROVE  <<a, b>> # <<x, y, z>> /\ <<a, b>> # <<w, x, y, z>>
<1>1. Len(<<a, b>>) = 2 /\ Len(<<x, y, z>>) = 3 /\ Len(<<w, x, y, z>>) = 4
  OBVIOUS
<1> QED
  BY <1>1

\* The id of a request is that of its intent and stage.
LEMMA SameId ==
    ASSUME NEW p, NEW q, Known(p), Known(q), p.intent = q.intent, p.stage = q.stage
    PROVE  p.id = q.id
<1>1. CASE IsCommand(p) /\ IsCommand(q)
  BY <1>1 DEF IsCommand
<1>2. ASSUME NEW c \in ToolCalls, NEW d \in ToolCalls, IsCallOf(p, c), IsCallOf(q, d)
      PROVE  p.id = q.id
  <2>1. /\ <<c.approval.id, c.tool, c.args>> = <<d.approval.id, d.tool, d.args>>
        /\ p.id = <<c.approval.id, c.tool, p.stage, c.args>>
        /\ q.id = <<d.approval.id, d.tool, q.stage, d.args>>
    BY <1>2 DEF IsCallOf
  <2>2. c.approval.id = d.approval.id /\ c.tool = d.tool /\ c.args = d.args
    BY <2>1
  <2> QED
    BY <2>1, <2>2
<1>3. ASSUME NEW c \in ToolCalls, IsCommand(p), IsCallOf(q, c) PROVE FALSE
  BY <1>3, TupleLengths DEF IsCallOf, IsCommand
<1>4. ASSUME NEW c \in ToolCalls, IsCommand(q), IsCallOf(p, c) PROVE FALSE
  BY <1>4, TupleLengths DEF IsCallOf, IsCommand
<1> QED
  BY <1>1, <1>2, <1>3, <1>4 DEF Known

\* A request of a call that has a receipt is the request the receipt is of.
LEMMA CallSettled ==
    ASSUME AgentInv, NEW q, NEW call \in ToolCalls, IsCallOf(q, call), q.id \in DOMAIN agentReceipts
    PROVE  agentReceipts[q.id].payload = Payload(q)
<1>1. PICK e \in effects : e.q.id = q.id
  BY DEF AgentInv, Done
<1>2. agentReceipts[q.id].payload = Payload(e.q) /\ Known(e.q)
  BY <1>1 DEF AgentInv, Done
<1>3. ~IsCommand(e.q)
  BY <1>1, TupleLengths DEF IsCommand, IsCallOf
<1>4. PICK d \in ToolCalls : IsCallOf(e.q, d)
  BY <1>2, <1>3 DEF Known
<1>5. /\ d.approval.id = call.approval.id /\ d.tool = call.tool /\ d.args = call.args
      /\ e.q.stage = q.stage
  BY <1>1, <1>4 DEF IsCallOf
<1>6. ArtifactRequest(d) = ArtifactRequest(call)
  BY <1>5 DEF ArtifactRequest
<1>7. e.q.rec = q.rec /\ e.q.ver = q.ver /\ e.q.manifest = q.manifest
  BY <1>4, <1>5, <1>6 DEF IsCallOf
<1> QED
  BY <1>2, <1>5, <1>7 DEF Payload

\* Receipts are never taken back.
ReceiptsStand ==
    \A id \in DOMAIN agentReceipts :
        id \in DOMAIN agentReceipts' /\ agentReceipts'[id] = agentReceipts[id]

LEMMA KnownStays ==
    ASSUME ReceiptsStand
    PROVE  /\ \A q, call : IsCallOf(q, call) => IsCallOf(q, call)'
           /\ \A q : Known(q) => Known(q)'
<1>1. ASSUME NEW q, NEW call, IsCallOf(q, call) PROVE IsCallOf(q, call)'
  <2>1. PICK id : id = ArtifactRequest(call)
    OBVIOUS
  <2> QED
    BY <1>1, <2>1 DEF IsCallOf, ReceiptsStand, IsRead, ArtifactRequest
<1>2. \A q : IsCommand(q) => IsCommand(q)'
  BY DEF IsCommand
<1> QED
  BY <1>1, <1>2 DEF Known

\* Steps that leave effects and receipts alone.
LEMMA DoneStays ==
    ASSUME AgentInv, UNCHANGED <<agentReceipts, effects>>
    PROVE  Done' /\ DoneOnce' /\ ReceiptsStand
<1>1. ReceiptsStand
  BY DEF ReceiptsStand
<1>2. DoneOnce'
  BY DEF AgentInv, DoneOnce
<1>3. Done'
  <2>1. \A e \in effects : Known(e.q)'
    BY <1>1, KnownStays DEF AgentInv, Done
  <2> QED
    BY <2>1 DEF AgentInv, Done, Payload
<1> QED
  BY <1>1, <1>2, <1>3

\* The request a call sends, by its stage.
LEMMA RequestOfCall ==
    ASSUME NEW call \in ToolCalls, NEW k \in DOMAIN Stages(call), NEW manifest, NEW n,
           ~IsRead(call),
           Stages(call)[k] = "credential-import" =>
             /\ ArtifactRequest(call) \in DOMAIN agentReceipts
             /\ manifest = agentReceipts[ArtifactRequest(call)].manifest,
           Stages(call)[k] # "credential-import" => manifest = NoManifest
    PROVE  IsCallOf(RequestAt(call, k, manifest, n), call)
<1>1. Stages(call)[k] \in (IF call.tool = "import" THEN {"artifact-import", "credential-import"}
                           ELSE {"authority"})
  BY DEF Stages
<1> QED
  BY <1>1 DEF IsCallOf, RequestAt, RequestId, Intent

\* Tasks that stay as they were, with one more or one that waits no longer.
LEMMA SentStays ==
    ASSUME AgentInv, ReceiptsStand, atDaemon' \subseteq atDaemon,
           DOMAIN tasks \subseteq DOMAIN tasks',
           \A n \in DOMAIN tasks : tasks'[n].at = "daemon" => tasks'[n] = tasks[n]
    PROVE  UnderWay'
<1>1. \A m \in atDaemon' : (m.q.stage = "read" \/ Known(m.q))'
  BY KnownStays DEF AgentInv, UnderWay
<1>2. ASSUME NEW m \in atDaemon', m.n # 0
      PROVE  /\ m.n \in DOMAIN tasks'
             /\ tasks'[m.n].at = "daemon" =>
                  /\ tasks'[m.n].stage \in DOMAIN Stages(tasks'[m.n].call)
                  /\ m.q.stage = Stages(tasks'[m.n].call)[tasks'[m.n].stage]
                  /\ ~IsRead(tasks'[m.n].call) => IsCallOf(m.q, tasks[m.n].call)'
                  /\ \A o \in atDaemon' : o.n = m.n => o = m
  <2>1. m \in atDaemon /\ m.n \in DOMAIN tasks
    BY <1>2 DEF AgentInv, UnderWay
  <2>2. m.n \in DOMAIN tasks'
    BY <2>1
  <2>3. ASSUME tasks'[m.n].at = "daemon"
        PROVE  /\ tasks'[m.n].stage \in DOMAIN Stages(tasks'[m.n].call)
               /\ m.q.stage = Stages(tasks'[m.n].call)[tasks'[m.n].stage]
               /\ ~IsRead(tasks'[m.n].call) => IsCallOf(m.q, tasks[m.n].call)'
               /\ \A o \in atDaemon' : o.n = m.n => o = m
    <3>1. PICK t : t = tasks[m.n] /\ t = tasks'[m.n] /\ t.at = "daemon"
      BY <2>1, <2>3
    <3>2. /\ t.stage \in DOMAIN Stages(t.call) /\ m.q.stage = Stages(t.call)[t.stage]
          /\ ~IsRead(t.call) => IsCallOf(m.q, t.call)
          /\ \A o \in atDaemon : o.n = m.n => o = m
      BY <1>2, <2>1, <3>1 DEF AgentInv, UnderWay
    <3>3. ~IsRead(t.call) => IsCallOf(m.q, t.call)'
      BY <3>2, KnownStays
    <3> QED
      BY <3>1, <3>2, <3>3
  <2> QED
    BY <2>2, <2>3
<1> QED
  BY <1>1, <1>2 DEF UnderWay, Stages, IsRead

LEMMA NewTaskKeeps ==
    ASSUME AgentInv, UNCHANGED <<agentReceipts, effects, atDaemon>>,
           NEW t \in AnswerTasks, tasks' = Append(tasks, t)
    PROVE  AgentInv'
<1>1. tasks \in Seq(AnswerTasks \cup CallTasks)
  BY DEF AgentInv, TasksTypeOK
<1>2. /\ tasks' \in Seq(AnswerTasks \cup CallTasks) /\ DOMAIN tasks \subseteq DOMAIN tasks'
      /\ \A n \in DOMAIN tasks : tasks'[n] = tasks[n]
      /\ \A n \in DOMAIN tasks' : n \in DOMAIN tasks \/ tasks'[n] = t
  BY <1>1
<1>3. t.at # "daemon"
  BY DEF AnswerTasks
<1>4. TasksTypeOK'
  BY <1>2, <1>3 DEF AgentInv, TasksTypeOK
<1> QED
  BY <1>2, <1>4, SentStays, DoneStays DEF AgentInv

\* A task whose response is queued or written.
LEMMA TaskEnds ==
    ASSUME AgentInv, ReceiptsStand, atDaemon' \subseteq atDaemon,
           NEW n, NEW t \in AnswerTasks \cup CallTasks, t.at # "daemon",
           tasks' = [tasks EXCEPT ![n] = t]
    PROVE  TasksTypeOK' /\ UnderWay'
<1>1. PICK S : S = AnswerTasks \cup CallTasks
  OBVIOUS
<1>0. tasks \in Seq(S) /\ t \in S
  BY <1>1 DEF AgentInv, TasksTypeOK
<1>2. /\ tasks' \in Seq(S) /\ DOMAIN tasks = DOMAIN tasks'
      /\ \A k \in DOMAIN tasks : tasks'[k] = tasks[k] \/ tasks'[k] = t
  <2>1. DOMAIN tasks = 1 .. Len(tasks) /\ Len(tasks) \in Nat /\ \A k \in 1 .. Len(tasks) : tasks[k] \in S
    BY <1>0
  <2>2. DOMAIN tasks' = 1 .. Len(tasks) /\ \A k \in 1 .. Len(tasks) : tasks'[k] = tasks[k] \/ tasks'[k] = t
    BY <2>1
  <2>3. tasks' = [k \in 1 .. Len(tasks) |-> tasks'[k]]
    BY <2>1
  <2>4. tasks' \in [1 .. Len(tasks) -> S]
    BY <1>0, <2>1, <2>2, <2>3
  <2>5. tasks' \in Seq(S)
    BY <2>1, <2>4, SeqDef
  <2> QED
    BY <2>1, <2>2, <2>5
<1>3. TasksTypeOK'
  BY <1>1, <1>2 DEF AgentInv, TasksTypeOK
<1> QED
  BY <1>2, <1>3, SentStays

LEMMA TaskEndsKeeps ==
    ASSUME AgentInv, UNCHANGED <<agentReceipts, effects>>, atDaemon' \subseteq atDaemon,
           NEW n, NEW t \in AnswerTasks \cup CallTasks, t.at # "daemon",
           tasks' = [tasks EXCEPT ![n] = t]
    PROVE  AgentInv'
<1>1. Done' /\ DoneOnce' /\ ReceiptsStand
  BY DoneStays
<1>2. TasksTypeOK' /\ UnderWay'
  BY <1>1, TaskEnds
<1> QED
  BY <1>1, <1>2 DEF AgentInv

LEMMA QuietKeeps ==
    ASSUME AgentInv, UNCHANGED <<agentReceipts, effects, tasks>>, atDaemon' \subseteq atDaemon
    PROVE  AgentInv'
BY SentStays, DoneStays DEF AgentInv, TasksTypeOK

LEMMA WaitingTask ==
    ASSUME AgentInv, NEW n \in DOMAIN tasks, tasks[n].at = "daemon", NEW outcome \in Ends
    PROVE  /\ tasks[n] \in CallTasks
           /\ [tasks[n] EXCEPT !.at = "writing", !.outcome = outcome] \in CallTasks
           /\ [tasks[n] EXCEPT !.at = "writing", !.outcome = outcome].at = "writing"
<1>1. PICK t \in CallTasks : t = tasks[n]
  BY DEF AgentInv, TasksTypeOK
<1> QED
  BY <1>1 DEF CallTasks

LEMMA FailsKeeps ==
    ASSUME AgentInv, NEW n \in DOMAIN tasks, tasks[n].at = "daemon", Fails(n),
           UNCHANGED <<agentReceipts, effects, atDaemon>>
    PROVE  AgentInv'
<1>1. PICK t \in CallTasks : t.at = "writing" /\
          t = [tasks[n] EXCEPT !.at = "writing", !.outcome = "daemon-request-failed"]
  <2>1. "daemon-request-failed" \in Ends
    BY DEF Ends
  <2> QED
    BY <2>1, WaitingTask
<1>2. tasks' = [tasks EXCEPT ![n] = t]
  BY <1>1 DEF Fails
<1> QED
  BY <1>1, <1>2, TaskEndsKeeps

LEMMA AnswersKeep == ASSUME AgentInv, NEW outcome \in Ends, ScheduleAnswer(outcome),
                            UNCHANGED <<agentReceipts, effects>>
                     PROVE AgentInv'
<1>1. PICK t \in AnswerTasks : t = [at |-> "writing", outcome |-> outcome]
  BY DEF AnswerTasks
<1> QED
  BY <1>1, NewTaskKeeps DEF ScheduleAnswer

LEMMA WriteLineKeeps == ASSUME AgentInv, WriteLine PROVE AgentInv'
<1>1. PICK t \in AnswerTasks : t = [at |-> "answered", outcome |-> "none"]
  BY DEF AnswerTasks, Ends
<1> QED
  BY <1>1, TaskEndsKeeps DEF WriteLine, AnswerTasks

\* A task whose next request is the only one it waits for.
LEMMA SentOne ==
    ASSUME AgentInv, ReceiptsStand, NEW m, NEW t \in CallTasks, m.n # 0, m.n \in DOMAIN tasks',
           tasks'[m.n] = t, atDaemon' \subseteq atDaemon \cup {m},
           DOMAIN tasks \subseteq DOMAIN tasks',
           \A k \in DOMAIN tasks : k # m.n => tasks'[k] = tasks[k],
           t.stage \in DOMAIN Stages(t.call), m.q.stage = Stages(t.call)[t.stage],
           ~IsRead(t.call) => IsCallOf(m.q, t.call)',
           \A o \in atDaemon' : o.n = m.n => o = m
    PROVE  UnderWay'
<1>1. \A o \in atDaemon' : (o.q.stage = "read" \/ Known(o.q))'
  <2>1. \A o \in atDaemon : o.q.stage = "read" \/ Known(o.q)'
    BY KnownStays DEF AgentInv, UnderWay
  <2>2. m.q.stage = "read" \/ Known(m.q)'
    <3>1. t.call \in ToolCalls
      BY DEF CallTasks
    <3>2. IsRead(t.call) => m.q.stage = "read"
      <4> SUFFICES ASSUME IsRead(t.call) PROVE m.q.stage = "read"
        OBVIOUS
      <4>1. Stages(t.call) = <<"read">>
        BY DEF Stages, IsRead
      <4>2. t.stage = 1
        BY <4>1
      <4> QED
        BY <4>1, <4>2
    <3> QED
      BY <3>1, <3>2 DEF Known
  <2> QED
    BY <2>1, <2>2
<1>2. ASSUME NEW o \in atDaemon', o.n # 0
      PROVE  /\ o.n \in DOMAIN tasks'
             /\ tasks'[o.n].at = "daemon" =>
                  /\ tasks'[o.n].stage \in DOMAIN Stages(tasks'[o.n].call)
                  /\ o.q.stage = Stages(tasks'[o.n].call)[tasks'[o.n].stage]
                  /\ ~IsRead(tasks'[o.n].call) => IsCallOf(o.q, tasks[o.n].call)'
                  /\ \A x \in atDaemon' : x.n = o.n => x = o
  <2>1. CASE o.n = m.n
    <3>1. o = m /\ tasks'[o.n] = t
      BY <1>2, <2>1
    <3>2. ~IsRead(tasks'[o.n].call) => IsCallOf(o.q, tasks[o.n].call)'
      <4>1. (tasks[o.n].call)' = t.call
        BY <3>1
      <4> QED
        BY <3>1, <4>1 DEF IsCallOf
    <3> QED
      BY <2>1, <3>1, <3>2
  <2>2. CASE o.n # m.n
    <3>1. o \in atDaemon /\ o.n \in DOMAIN tasks /\ tasks'[o.n] = tasks[o.n]
      BY <1>2, <2>2 DEF AgentInv, UnderWay
    <3>2. ASSUME tasks'[o.n].at = "daemon"
          PROVE  /\ tasks'[o.n].stage \in DOMAIN Stages(tasks'[o.n].call)
                 /\ o.q.stage = Stages(tasks'[o.n].call)[tasks'[o.n].stage]
                 /\ ~IsRead(tasks'[o.n].call) => IsCallOf(o.q, tasks[o.n].call)'
                 /\ \A x \in atDaemon' : x.n = o.n => x = o
      <4>1. PICK u : u = tasks[o.n] /\ u = tasks'[o.n] /\ u.at = "daemon"
        BY <3>1, <3>2
      <4>2. /\ u.stage \in DOMAIN Stages(u.call) /\ o.q.stage = Stages(u.call)[u.stage]
            /\ ~IsRead(u.call) => IsCallOf(o.q, u.call)
            /\ \A x \in atDaemon : x.n = o.n => x = o
        BY <1>2, <3>1, <4>1 DEF AgentInv, UnderWay
      <4>3. ~IsRead(u.call) => IsCallOf(o.q, u.call)'
        BY <4>2, KnownStays
      <4>4. ~IsRead(tasks'[o.n].call) => IsCallOf(o.q, tasks[o.n].call)'
        BY <4>1, <4>3 DEF IsCallOf
      <4> QED
        BY <2>2, <4>1, <4>2, <4>4
    <3> QED
      BY <3>1, <3>2
  <2> QED
    BY <2>1, <2>2
<1> QED
  BY <1>1, <1>2 DEF UnderWay, Stages, IsRead

LEMMA StagesOf ==
    ASSUME NEW call
    PROVE  /\ 1 \in DOMAIN Stages(call) /\ DOMAIN Stages(call) \subseteq 1 .. 2
           /\ Stages(call)[1] # "credential-import"
           /\ \A k \in DOMAIN Stages(call) : k # Len(Stages(call)) =>
                /\ k = 1 /\ 2 \in DOMAIN Stages(call) /\ ~IsRead(call) /\ call.tool = "import"
                /\ Stages(call)[1] = "artifact-import" /\ Stages(call)[2] = "credential-import"
<1>1. CASE IsRead(call)
  <2>1. Stages(call) = <<"read">>
    BY <1>1 DEF Stages, IsRead
  <2>2. DOMAIN Stages(call) = 1 .. 1 /\ Len(Stages(call)) = 1 /\ Stages(call)[1] = "read"
    BY <2>1
  <2>3. \A k \in DOMAIN Stages(call) : k = Len(Stages(call))
    BY <2>2
  <2>4. "read" # "credential-import"
    OBVIOUS
  <2> QED
    BY <2>2, <2>3, <2>4
<1>2. CASE ~IsRead(call) /\ call.tool = "import"
  <2>1. Stages(call) = <<"artifact-import", "credential-import">>
    BY <1>2 DEF Stages
  <2>2. DOMAIN Stages(call) = 1 .. 2 /\ Len(Stages(call)) = 2
    BY <2>1
  <2>3. Stages(call)[1] = "artifact-import" /\ Stages(call)[2] = "credential-import"
    BY <2>1
  <2>4. \A k \in DOMAIN Stages(call) : k # Len(Stages(call)) => k = 1
    BY <2>2
  <2> QED
    BY <1>2, <2>2, <2>3, <2>4
<1>3. CASE ~IsRead(call) /\ call.tool # "import"
  <2>1. Stages(call) = <<"authority">>
    BY <1>3 DEF Stages
  <2>2. DOMAIN Stages(call) = 1 .. 1 /\ Len(Stages(call)) = 1 /\ Stages(call)[1] = "authority"
    BY <2>1
  <2>3. \A k \in DOMAIN Stages(call) : k = Len(Stages(call))
    BY <2>2
  <2> QED
    BY <2>2, <2>3
<1> QED
  BY <1>1, <1>2, <1>3

LEMMA ScheduleCallKeeps ==
    ASSUME AgentInv, NEW call \in ToolCalls, ScheduleCall(call), UNCHANGED <<agentReceipts, effects>>
    PROVE  AgentInv'
<1>1. PICK n : n = Len(tasks) + 1
  OBVIOUS
<1>2. PICK t \in CallTasks : t = [at |-> "daemon", call |-> call, stage |-> 1, outcome |-> "none"]
  <2>1. "none" \in Ends /\ 1 \in 1 .. 2 /\ "daemon" \in {"daemon", "writing"}
    BY DEF Ends
  <2> QED
    BY <2>1 DEF CallTasks
<1>3. PICK m : m = [n |-> n, q |-> RequestAt(call, 1, NoManifest, n)]
  OBVIOUS
<1>4. tasks' = Append(tasks, t) /\ atDaemon' = atDaemon \cup {m}
  BY <1>1, <1>2, <1>3 DEF ScheduleCall
<1>5. PICK S : S = AnswerTasks \cup CallTasks
  OBVIOUS
<1>6. tasks \in Seq(S) /\ t \in S
  BY <1>2, <1>5 DEF AgentInv, TasksTypeOK
<1>7. /\ tasks' \in Seq(S) /\ DOMAIN tasks \subseteq DOMAIN tasks' /\ n \in DOMAIN tasks'
      /\ tasks'[n] = t /\ n \notin DOMAIN tasks /\ n # 0
      /\ \A k \in DOMAIN tasks : tasks'[k] = tasks[k]
      /\ \A k \in DOMAIN tasks' : k \in DOMAIN tasks \/ k = n
  BY <1>1, <1>4, <1>6
<1>8. TasksTypeOK'
  BY <1>2, <1>5, <1>7 DEF AgentInv, TasksTypeOK
<1>9. Done' /\ DoneOnce' /\ ReceiptsStand
  BY DoneStays
<1>10. UnderWay'
  <2>1. \A o \in atDaemon' : o.n = n => o = m
    BY <1>4, <1>7 DEF AgentInv, UnderWay
  <2>2. 1 \in DOMAIN Stages(call) /\ Stages(call)[1] # "credential-import"
    BY StagesOf
  <2>3. ~IsRead(call) => IsCallOf(m.q, call)
    BY <1>3, <2>2, RequestOfCall
  <2>4. ~IsRead(call) => IsCallOf(m.q, call)'
    BY <1>9, <2>3, KnownStays
  <2>5. m.n = n /\ m.q.stage = Stages(call)[1] /\ t.call = call /\ t.stage = 1
    BY <1>2, <1>3 DEF RequestAt
  <2> QED
    BY <1>4, <1>7, <1>9, <2>1, <2>2, <2>4, <2>5, SentOne
<1> QED
  BY <1>8, <1>9, <1>10 DEF AgentInv

LEMMA ReadCallKeeps == ASSUME AgentInv, NEW call \in ToolCalls, ReadCall(call) PROVE AgentInv'
<1>1. UNCHANGED <<agentReceipts, effects>>
  BY DEF ReadCall
<1>2. PolicyError(call) \in Ends
  BY DEF PolicyError, Ends
<1>3. {"not-initialized", "invalid-input"} \subseteq Ends
  BY DEF Ends
<1>4. (\E outcome \in Ends : ScheduleAnswer(outcome)) \/ ScheduleCall(call)
  <2>1. CASE mcpState # "ready"
    BY <1>3, <2>1 DEF ReadCall
  <2>2. CASE mcpState = "ready" /\ PolicyError(call) # "none"
    BY <1>2, <2>2 DEF ReadCall
  <2>3. CASE mcpState = "ready" /\ PolicyError(call) = "none" /\ ~call.wellFormed
    BY <1>3, <2>3 DEF ReadCall
  <2>4. CASE mcpState = "ready" /\ PolicyError(call) = "none" /\ ~(~call.wellFormed)
    BY <2>4 DEF ReadCall
  <2> QED
    BY <2>1, <2>2, <2>3, <2>4
<1> QED
  BY <1>1, <1>4, AnswersKeep, ScheduleCallKeeps

LEMMA GiveCommandKeeps ==
    ASSUME AgentInv, NEW cmd \in OperatorCommands, GiveCommand(cmd) PROVE AgentInv'
<1>1. PICK m : /\ atDaemon' = atDaemon \cup {m} /\ m.n = 0
               /\ m.q.id = <<cmd.via, gwCount>> /\ m.q.intent = <<cmd.via, gwCount>>
               /\ m.q.stage = "authority"
  <2>1. PICK m : m = [n |-> 0, q |-> [id |-> <<cmd.via, gwCount>>, stage |-> "authority",
                       rec |-> cmd.rec, ver |-> cmd.ver, manifest |-> NoManifest,
                       intent |-> <<cmd.via, gwCount>>]]
    OBVIOUS
  <2>2. atDaemon' = atDaemon \cup {m}
    BY <2>1 DEF GiveCommand
  <2> QED
    BY <2>1, <2>2
<1>2. UNCHANGED <<tasks, agentReceipts, effects>>
  BY DEF GiveCommand
<1>3. Known(m.q)'
  BY <1>1 DEF Known, IsCommand
<1>4. Done' /\ DoneOnce' /\ ReceiptsStand
  BY <1>2, DoneStays
<1>5. UnderWay'
  <2>1. \A o \in atDaemon : (o.q.stage = "read" \/ Known(o.q))'
    BY <1>4, KnownStays DEF AgentInv, UnderWay
  <2>2. \A o \in atDaemon' : (o.q.stage = "read" \/ Known(o.q))'
    BY <1>1, <1>3, <2>1
  <2>3. ASSUME NEW o \in atDaemon', o.n # 0
        PROVE  /\ o.n \in DOMAIN tasks
               /\ tasks[o.n].at = "daemon" =>
                  /\ tasks[o.n].stage \in DOMAIN Stages(tasks[o.n].call)
                  /\ o.q.stage = Stages(tasks[o.n].call)[tasks[o.n].stage]
                  /\ ~IsRead(tasks[o.n].call) => IsCallOf(o.q, tasks[o.n].call)'
                  /\ \A x \in atDaemon' : x.n = o.n => x = o
    <3>1. o \in atDaemon /\ \A x \in atDaemon' : x.n = o.n => x \in atDaemon
      BY <1>1, <2>3
    <3>2. PICK call : call = tasks[o.n].call /\ call = tasks'[o.n].call
      BY <1>2
    <3>3. IsCallOf(o.q, call) => IsCallOf(o.q, call)'
      BY <1>4, KnownStays
    <3>4. IsCallOf(o.q, call)' => IsCallOf(o.q, tasks[o.n].call)'
      BY <3>2 DEF IsCallOf
    <3> QED
      BY <2>3, <3>1, <3>2, <3>3, <3>4 DEF AgentInv, UnderWay
  <2> QED
    BY <1>2, <2>2, <2>3 DEF UnderWay, Stages, IsRead
<1>6. TasksTypeOK'
  BY <1>2 DEF AgentInv, TasksTypeOK
<1> QED
  BY <1>4, <1>5, <1>6 DEF AgentInv

\* What the authority does with a request: it takes effect at most once, and a
\* request that succeeded has a receipt with its manifest.
LEMMA ExecuteDone ==
    ASSUME AgentInv, NEW m \in atDaemon, Execute(m)
    PROVE  /\ ReceiptsStand /\ Done' /\ DoneOnce'
           /\ m.q.stage # "read" /\ Outcome(m.q) = "ok" =>
                /\ m.q.id \in DOMAIN agentReceipts'
                /\ agentReceipts'[m.q.id].manifest = ManifestOf(m.q)
<1>1. CASE ~TakesEffect(m.q)
  <2>1. UNCHANGED <<agentReceipts, effects>>
    BY <1>1 DEF Execute
  <2>2. m.q.stage # "read" /\ Outcome(m.q) = "ok" => m.q.id \in DOMAIN agentReceipts
    BY <1>1 DEF TakesEffect
  <2>3. m.q.id \in DOMAIN agentReceipts => agentReceipts[m.q.id].manifest = ManifestOf(m.q)
    BY DEF ManifestOf
  <2> QED
    BY <2>1, <2>2, <2>3, DoneStays
<1>2. CASE TakesEffect(m.q)
  <2>1. m.q.stage # "read" /\ m.q.id \notin DOMAIN agentReceipts
    BY <1>2 DEF TakesEffect
  <2>2. PICK r : r = [payload |-> Payload(m.q), manifest |-> ManifestOf(m.q)]
    OBVIOUS
  <2>3. agentReceipts' = [id \in DOMAIN agentReceipts \cup {m.q.id} |->
                            IF id = m.q.id THEN r ELSE agentReceipts[id]]
    BY <1>2, <2>2 DEF Execute
  <2>4. /\ DOMAIN agentReceipts' = DOMAIN agentReceipts \cup {m.q.id}
        /\ agentReceipts'[m.q.id] = r
        /\ \A id \in DOMAIN agentReceipts : agentReceipts'[id] = agentReceipts[id]
    BY <2>1, <2>3
  <2>5. PICK f : f = [intent |-> m.q.intent, stage |-> m.q.stage, q |-> m.q]
    OBVIOUS
  <2>6. effects' = effects \cup {f}
    BY <1>2, <2>5 DEF Execute
  <2>7. ReceiptsStand
    BY <2>4 DEF ReceiptsStand
  <2>8. Known(m.q)
    BY <2>1 DEF AgentInv, UnderWay
  <2>9. Done'
    <3>1. \A e \in effects' : Known(e.q)'
      BY <2>5, <2>6, <2>7, <2>8, KnownStays DEF AgentInv, Done
    <3>2. ASSUME NEW e \in effects'
          PROVE  /\ e.intent = e.q.intent /\ e.stage = e.q.stage
                 /\ e.q.id \in DOMAIN agentReceipts'
                 /\ agentReceipts'[e.q.id].payload = Payload(e.q)
      <4>1. CASE e \in effects
        BY <2>4, <4>1 DEF AgentInv, Done
      <4>2. CASE e = f
        BY <2>2, <2>4, <2>5, <4>2
      <4> QED
        BY <2>6, <4>1, <4>2
    <3>3. \A id \in DOMAIN agentReceipts' : \E e \in effects' : e.q.id = id
      BY <2>4, <2>5, <2>6 DEF AgentInv, Done
    <3> QED
      BY <3>1, <3>2, <3>3 DEF Done, Payload
  <2>10. \A e \in effects : ~(e.intent = f.intent /\ e.stage = f.stage)
    <3> SUFFICES ASSUME NEW e \in effects, e.intent = f.intent, e.stage = f.stage PROVE FALSE
      OBVIOUS
    <3>1. /\ e.q.intent = m.q.intent /\ e.q.stage = m.q.stage /\ Known(e.q)
          /\ e.q.id \in DOMAIN agentReceipts
      BY <2>5 DEF AgentInv, Done
    <3>2. e.q.id = m.q.id
      BY <2>8, <3>1, SameId
    <3> QED
      BY <2>1, <3>1, <3>2
  <2>11. DoneOnce'
    BY <2>6, <2>10 DEF AgentInv, DoneOnce
  <2> QED
    BY <2>2, <2>4, <2>7, <2>9, <2>11
<1> QED
  BY <1>1, <1>2

\* The task that waits for a request under way.
LEMMA Awaited ==
    ASSUME AgentInv, NEW m \in atDaemon, AwaitsDaemon(m)
    PROVE  /\ m.n # 0 /\ m.n \in DOMAIN tasks /\ tasks[m.n] \in CallTasks
           /\ tasks[m.n].at = "daemon"
           /\ tasks[m.n].stage \in DOMAIN Stages(tasks[m.n].call)
           /\ m.q.stage = Stages(tasks[m.n].call)[tasks[m.n].stage]
           /\ ~IsRead(tasks[m.n].call) => IsCallOf(m.q, tasks[m.n].call)
           /\ \A o \in atDaemon : o.n = m.n => o = m
BY DEF AgentInv, UnderWay, TasksTypeOK, AwaitsDaemon

LEMMA ExecuteKeeps == ASSUME AgentInv, NEW m \in atDaemon, Execute(m) PROVE AgentInv'
<1>1. ReceiptsStand /\ Done' /\ DoneOnce'
  BY ExecuteDone
<1>2. TasksTypeOK' /\ UnderWay'
  <2>1. CASE ~AwaitsDaemon(m)
    <3>1. atDaemon' \subseteq atDaemon /\ UNCHANGED tasks
      BY <2>1 DEF Execute
    <3>2. TasksTypeOK'
      BY <3>1 DEF AgentInv, TasksTypeOK
    <3> QED
      BY <1>1, <3>1, <3>2, SentStays
  <2>2. CASE AwaitsDaemon(m)
    <3>1. PICK t \in CallTasks : /\ t = tasks[m.n] /\ m.n # 0 /\ m.n \in DOMAIN tasks /\ t.at = "daemon"
                                 /\ t.stage \in DOMAIN Stages(t.call)
                                 /\ m.q.stage = Stages(t.call)[t.stage]
                                 /\ ~IsRead(t.call) => IsCallOf(m.q, t.call)
                                 /\ \A o \in atDaemon : o.n = m.n => o = m
      BY <2>2, Awaited
    <3>2. Resume(m)
      BY <2>2 DEF Execute
    <3>3. CASE Outcome(m.q) # "ok" \/ t.stage = Len(Stages(t.call))
      <4>1. Outcome(m.q) \in Ends
        BY DEF Outcome, Ends
      <4>2. PICK u \in CallTasks : u.at = "writing" /\
                u = [tasks[m.n] EXCEPT !.at = "writing", !.outcome = Outcome(m.q)]
        BY <3>1, <4>1, WaitingTask
      <4>3. tasks' = [tasks EXCEPT ![m.n] = u] /\ atDaemon' \subseteq atDaemon
        BY <3>1, <3>2, <3>3, <4>2 DEF Resume
      <4> QED
        BY <1>1, <4>2, <4>3, TaskEnds
    <3>4. CASE Outcome(m.q) = "ok" /\ t.stage # Len(Stages(t.call))
      <4>1. /\ t.stage = 1 /\ 2 \in DOMAIN Stages(t.call) /\ ~IsRead(t.call) /\ t.call.tool = "import"
            /\ Stages(t.call)[1] = "artifact-import" /\ Stages(t.call)[2] = "credential-import"
        BY <3>1, <3>4, StagesOf
      <4>2. PICK o : o = [n |-> m.n, q |-> RequestAt(t.call, 2, ManifestOf(m.q), m.n)]
        OBVIOUS
      <4>3. PICK u : u = [t EXCEPT !.stage = 2]
        OBVIOUS
      <4>4. tasks' = [tasks EXCEPT ![m.n] = u] /\ atDaemon' = (atDaemon \ {m}) \cup {o}
        BY <3>1, <3>2, <3>4, <4>1, <4>2, <4>3 DEF Resume
      <4>5. u \in CallTasks /\ u.stage = 2 /\ u.call = t.call /\ u.outcome = t.outcome
        BY <4>3 DEF CallTasks
      <4>6. t.outcome = "none"
        BY <3>1 DEF AgentInv, TasksTypeOK
      <4>7. PICK S : S = AnswerTasks \cup CallTasks
        OBVIOUS
      <4>8. tasks \in Seq(S) /\ u \in S
        BY <4>5, <4>7 DEF AgentInv, TasksTypeOK
      <4>9. /\ tasks' \in Seq(S) /\ DOMAIN tasks' = DOMAIN tasks /\ tasks'[m.n] = u
            /\ \A k \in DOMAIN tasks : k # m.n => tasks'[k] = tasks[k]
        BY <3>1, <4>4, <4>8
      <4>10. TasksTypeOK'
        BY <4>5, <4>6, <4>7, <4>9 DEF AgentInv, TasksTypeOK
      <4>11. IsCallOf(o.q, t.call)'
        <5>1. m.q.stage = "artifact-import" /\ IsCallOf(m.q, t.call)
          BY <3>1, <4>1
        <5>2. m.q.id = ArtifactRequest(t.call)
          BY <5>1 DEF IsCallOf, ArtifactRequest
        <5>3. PICK id : id = ArtifactRequest(t.call)
          OBVIOUS
        <5>4. id \in DOMAIN agentReceipts' /\ agentReceipts'[id].manifest = ManifestOf(m.q)
          BY <3>4, <5>1, <5>2, <5>3, ExecuteDone
        <5>5. /\ o.q.stage = "credential-import" /\ o.q.manifest = ManifestOf(m.q)
              /\ o.q.id = <<t.call.approval.id, t.call.tool, o.q.stage, t.call.args>>
              /\ o.q.intent = <<t.call.approval.id, t.call.tool, t.call.args>>
              /\ o.q.rec = t.call.args.rec /\ o.q.ver = t.call.args.ver
          BY <4>1, <4>2 DEF RequestAt, RequestId, Intent
        <5> QED
          BY <4>1, <5>3, <5>4, <5>5 DEF IsCallOf, IsRead, ArtifactRequest
      <4>12. o.n = m.n /\ o.q.stage = Stages(u.call)[u.stage] /\ u.stage \in DOMAIN Stages(u.call)
        BY <4>1, <4>2, <4>5 DEF RequestAt
      <4>13. \A x \in atDaemon' : x.n = o.n => x = o
        BY <3>1, <4>4, <4>12
      <4>14. ~IsRead(u.call) => IsCallOf(o.q, u.call)'
        <5>1. PICK c : c = u.call /\ c = t.call
          BY <4>5
        <5> QED
          BY <4>11, <5>1 DEF IsCallOf
      <4>15. UnderWay'
        BY <1>1, <3>1, <4>4, <4>5, <4>9, <4>12, <4>13, <4>14, SentOne
      <4> QED
        BY <4>10, <4>15
    <3> QED
      BY <3>3, <3>4
  <2> QED
    BY <2>1, <2>2
<1> QED
  BY <1>1, <1>2 DEF AgentInv

LEMMA AgentNextInv == AgentInv /\ [AgentNext]_agentVars => AgentInv'
<1> SUFFICES ASSUME AgentInv, [AgentNext]_agentVars PROVE AgentInv'
  OBVIOUS
<1>1. CASE ReadMalformed
  <2>1. "protocol-error" \in Ends
    BY DEF Ends
  <2> QED
    BY <1>1, <2>1, AnswersKeep DEF ReadMalformed
<1>2. CASE ReadInitialize
  <2>1. PICK outcome \in Ends : outcome = IF mcpState = "pre-initialize" THEN "ok" ELSE "invalid-params"
    BY DEF Ends
  <2> QED
    BY <1>2, <2>1, AnswersKeep DEF ReadInitialize
<1>3. CASE ReadInitialized
  BY <1>3, QuietKeeps DEF ReadInitialized
<1>4. CASE \E call \in ToolCalls : ReadCall(call)
  BY <1>4, ReadCallKeeps
<1>5. CASE \E cmd \in OperatorCommands : GiveCommand(cmd)
  BY <1>5, GiveCommandKeeps
<1>6. CASE \E m \in atDaemon : Execute(m)
  BY <1>6, ExecuteKeeps
<1>7. CASE \E n \in 1..MaxFrames : TimeoutLate(n) \/ TimeoutEarly(n)
  <2>1. PICK n \in 1..MaxFrames : TimeoutLate(n) \/ TimeoutEarly(n)
    BY <1>7
  <2>2. /\ n \in DOMAIN tasks /\ tasks[n].at = "daemon" /\ Fails(n)
        /\ UNCHANGED <<agentReceipts, effects, atDaemon>>
    BY <2>1 DEF TimeoutLate, TimeoutEarly
  <2> QED
    BY <2>2, FailsKeeps
<1>8. CASE WriteLine
  BY <1>8, WriteLineKeeps
<1>9. CASE LoseRequest
  <2>1. atDaemon' \subseteq atDaemon /\ UNCHANGED <<agentReceipts, effects, tasks>>
    BY <1>9 DEF LoseRequest
  <2> QED
    BY <2>1, QuietKeeps
<1>10. CASE EditSource \/ Tick
  <2>1. UNCHANGED <<agentReceipts, effects, tasks, atDaemon>>
    BY <1>10 DEF EditSource, Tick
  <2> QED
    BY <2>1, QuietKeeps
<1>11. CASE UNCHANGED agentVars
  <2>1. UNCHANGED <<agentReceipts, effects, tasks, atDaemon>>
    BY <1>11 DEF agentVars
  <2> QED
    BY <2>1, QuietKeeps
<1> QED
  BY <1>1, <1>2, <1>3, <1>4, <1>5, <1>6, <1>7, <1>8, <1>9, <1>10, <1>11 DEF AgentNext

\* A waiting call is refused only by the authority's answer to its request.
LEMMA RefusedByAuthority ==
    ASSUME AgentInv, [AgentNext]_agentVars, NEW n \in DOMAIN tasks, tasks[n].at = "daemon",
           tasks'[n].outcome \in {"conflict", "reused"}
    PROVE  \E m \in atDaemon : AwaitsDaemon(m) /\ m.n = n /\ Outcome(m.q) = tasks'[n].outcome
<1>1. PICK S : S = AnswerTasks \cup CallTasks
  OBVIOUS
<1>2. tasks \in Seq(S) /\ tasks[n] \in CallTasks /\ tasks[n].outcome = "none"
  BY <1>1 DEF AgentInv, TasksTypeOK
<1>3. ~(UNCHANGED tasks)
  BY <1>2
<1>4. ~(\E t : tasks' = Append(tasks, t))
  BY <1>2
<1>5. CASE \E m \in atDaemon : Execute(m)
  <2>1. PICK m \in atDaemon : Execute(m)
    BY <1>5
  <2>2. AwaitsDaemon(m) /\ Resume(m)
    BY <1>3, <2>1 DEF Execute
  <2>3. PICK t \in CallTasks : t = tasks[m.n] /\ m.n \in DOMAIN tasks
    BY <2>2, Awaited
  <2>4. n = m.n
    BY <1>2, <2>2, <2>3 DEF Resume
  <2>5. CASE Outcome(m.q) # "ok" \/ t.stage = Len(Stages(t.call))
    <3>1. tasks'[n] = [t EXCEPT !.at = "writing", !.outcome = Outcome(m.q)]
      BY <1>2, <2>2, <2>3, <2>4, <2>5 DEF Resume
    <3>2. tasks'[n].outcome = Outcome(m.q)
      BY <3>1 DEF CallTasks
    <3> QED
      BY <2>2, <2>4, <3>2
  <2>6. CASE ~(Outcome(m.q) # "ok" \/ t.stage = Len(Stages(t.call)))
    <3>1. tasks'[n] = [t EXCEPT !.stage = t.stage + 1]
      BY <1>2, <2>2, <2>3, <2>4, <2>6 DEF Resume
    <3>2. tasks'[n].outcome = t.outcome
      BY <3>1 DEF CallTasks
    <3> QED
      BY <1>2, <2>3, <2>4, <3>2
  <2> QED
    BY <2>5, <2>6
<1>6. ASSUME NEW k, Fails(k) PROVE FALSE
  <2>1. tasks'[n] = tasks[n] \/ tasks'[n] = [tasks[n] EXCEPT !.at = "writing", !.outcome = "daemon-request-failed"]
    BY <1>2, <1>6 DEF Fails
  <2>2. [tasks[n] EXCEPT !.at = "writing", !.outcome = "daemon-request-failed"].outcome = "daemon-request-failed"
    BY <1>2 DEF CallTasks
  <2> QED
    BY <1>2, <2>1, <2>2
<1>7. ~WriteLine
  <2> SUFFICES ASSUME WriteLine PROVE FALSE
    OBVIOUS
  <2>1. PICK k : tasks' = [tasks EXCEPT ![k] = [at |-> "answered", outcome |-> "none"]]
    BY DEF WriteLine
  <2>2. tasks'[n] = tasks[n] \/ tasks'[n].outcome = "none"
    BY <1>2, <2>1
  <2> QED
    BY <1>2, <2>2
<1>8. ~(\E n_1 \in 1..MaxFrames : TimeoutLate(n_1) \/ TimeoutEarly(n_1))
  BY <1>6 DEF TimeoutLate, TimeoutEarly
<1>9. ASSUME NEW call \in ToolCalls, ReadCall(call) PROVE FALSE
  <2>1. (\E outcome : ScheduleAnswer(outcome)) \/ ScheduleCall(call)
    <3>1. CASE mcpState # "ready"
      BY <1>9, <3>1 DEF ReadCall
    <3>2. CASE mcpState = "ready" /\ PolicyError(call) # "none"
      BY <1>9, <3>2 DEF ReadCall
    <3>3. CASE mcpState = "ready" /\ PolicyError(call) = "none" /\ ~call.wellFormed
      BY <1>9, <3>3 DEF ReadCall
    <3>4. CASE mcpState = "ready" /\ PolicyError(call) = "none" /\ ~(~call.wellFormed)
      BY <1>9, <3>4 DEF ReadCall
    <3> QED
      BY <3>1, <3>2, <3>3, <3>4
  <2> QED
    BY <1>4, <2>1 DEF ScheduleAnswer, ScheduleCall
<1>10. ~ReadMalformed /\ ~ReadInitialize
  BY <1>4 DEF ReadMalformed, ReadInitialize, ScheduleAnswer
<1>11. ~ReadInitialized /\ ~LoseRequest /\ ~EditSource /\ ~Tick
  BY <1>3 DEF ReadInitialized, LoseRequest, EditSource, Tick
<1>12. ~(\E cmd \in OperatorCommands : GiveCommand(cmd))
  BY <1>3 DEF GiveCommand
<1>13. ~(UNCHANGED agentVars)
  BY <1>3 DEF agentVars
<1> QED
  BY <1>5, <1>7, <1>8, <1>9, <1>10, <1>11, <1>12, <1>13 DEF AgentNext

\* A refused call has had no effect but the artifact it stored.
LEMMA RefusedHarmless ==
    ASSUME AgentInv, [AgentNext]_agentVars, NEW n \in DOMAIN tasks, tasks[n].at = "daemon",
           tasks'[n].outcome \in {"conflict", "reused"},
           NEW e \in effects, e.intent = Intent(tasks[n].call)
    PROVE  e.stage = "artifact-import" /\ tasks'[n].outcome = "conflict"
<1>1. PICK m \in atDaemon : AwaitsDaemon(m) /\ m.n = n /\ Outcome(m.q) = tasks'[n].outcome
  BY RefusedByAuthority
<1>2. PICK t \in CallTasks : /\ t = tasks[n] /\ t.stage \in DOMAIN Stages(t.call)
                             /\ m.q.stage = Stages(t.call)[t.stage]
                             /\ ~IsRead(t.call) => IsCallOf(m.q, t.call)
  BY <1>1, Awaited
<1>3. m.q.stage # "read"
  BY <1>1 DEF Outcome
<1>4. ~IsRead(t.call)
  <2> SUFFICES ASSUME IsRead(t.call) PROVE FALSE
    OBVIOUS
  <2>1. Stages(t.call) = <<"read">>
    BY DEF Stages, IsRead
  <2>2. t.stage = 1
    BY <1>2, <2>1
  <2> QED
    BY <1>2, <1>3, <2>1, <2>2
<1>5. IsCallOf(m.q, t.call) /\ t.call \in ToolCalls
  BY <1>2, <1>4 DEF CallTasks
<1>6. m.q.id \notin DOMAIN agentReceipts
  <2> SUFFICES ASSUME m.q.id \in DOMAIN agentReceipts PROVE FALSE
    OBVIOUS
  <2>1. agentReceipts[m.q.id].payload = Payload(m.q)
    BY <1>5, CallSettled
  <2>2. Outcome(m.q) = "ok"
    BY <1>3, <2>1 DEF Outcome
  <2> QED
    BY <1>1, <2>2
<1>7. Outcome(m.q) = "conflict" /\ m.q.stage # "artifact-import"
  BY <1>1, <1>3, <1>6 DEF Outcome
<1>8. /\ e.intent = e.q.intent /\ e.stage = e.q.stage /\ Known(e.q) /\ e.q.id \in DOMAIN agentReceipts
  BY DEF AgentInv, Done
<1>9. Known(m.q) /\ e.q.intent = m.q.intent
  BY <1>2, <1>4, <1>5, <1>8 DEF Known, IsCallOf, Intent
<1>10. e.q.stage # m.q.stage
  BY <1>6, <1>8, <1>9, SameId
<1>11. ~IsCommand(e.q)
  BY <1>5, <1>9, TupleLengths DEF IsCommand, IsCallOf
<1>12. PICK d \in ToolCalls : IsCallOf(e.q, d)
  BY <1>8, <1>11 DEF Known
<1>13. d.tool = t.call.tool
  BY <1>5, <1>9, <1>12 DEF IsCallOf
<1> QED
  BY <1>1, <1>5, <1>7, <1>8, <1>10, <1>12, <1>13 DEF IsCallOf

\* An approved call has each of its effects once, and is refused only before it
\* had any but the artifact an import stored (backend.ts:29-42, index.ts:277-324).
THEOREM ApprovedAlwaysOnce == AgentSpec => ApprovedOnce
<1>1. AgentInv /\ [AgentNext]_agentVars =>
        [/\ \A e, f \in effects' : e.intent = f.intent /\ e.stage = f.stage => e = f
         /\ \A n \in DOMAIN tasks :
              tasks[n].at = "daemon" /\ tasks'[n].outcome \in {"conflict", "reused"} =>
                \A e \in effects : e.intent = Intent(tasks[n].call) =>
                   e.stage = "artifact-import" /\ tasks'[n].outcome = "conflict"]_agentVars
  <2> SUFFICES ASSUME AgentInv, [AgentNext]_agentVars
               PROVE  /\ \A e, f \in effects' : e.intent = f.intent /\ e.stage = f.stage => e = f
                      /\ \A n \in DOMAIN tasks :
                           tasks[n].at = "daemon" /\ tasks'[n].outcome \in {"conflict", "reused"} =>
                             \A e \in effects : e.intent = Intent(tasks[n].call) =>
                                e.stage = "artifact-import" /\ tasks'[n].outcome = "conflict"
    OBVIOUS
  <2>1. \A e, f \in effects' : e.intent = f.intent /\ e.stage = f.stage => e = f
    BY AgentNextInv DEF AgentInv, DoneOnce
  <2> QED
    BY <2>1, RefusedHarmless
<1> QED
  BY <1>1, AgentInitInv, AgentNextInv, PTL DEF AgentSpec, ApprovedOnce

=============================================================================
