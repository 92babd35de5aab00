------------------------------ MODULE Reactor -------------------------------
(***************************************************************************)
(* The network layer: the reactor threads of a host, the sessions other    *)
(* threads send on, the session actors and the transports                  *)
(* (dignus-actor-network: reactor.rs, session.rs, send_buffer.rs,          *)
(* tcp_transport.rs, tls_transport.rs, tcp_host.rs, session_actor_host.rs).*)
(*                                                                         *)
(* A step is one critical section, one atomic operation or one call on a   *)
(* socket.  Operations of one thread are put into one step where no other  *)
(* thread can tell: a write and the reregister after it, the removal of a  *)
(* connection with its mark_disposed and on_disconnected.                  *)
(*                                                                         *)
(* The operating system is modelled from how the code uses it.  Readiness  *)
(* is edge triggered, as mio registers it: an event is queued when data,   *)
(* room or an end of stream arrives, or when register or reregister finds  *)
(* the socket ready; poll collects the queued events that are still ready. *)
(* A waker is such an event.  What a client sends is abstracted to "there  *)
(* is unread data"; the bytes a session sends are numbered in the order    *)
(* they were appended.  SessionInbound models what the data decodes to.    *)
(***************************************************************************)
EXTENDS Naturals, Sequences, FiniteSets, SequencesExt

CONSTANTS
  WorkerCount,   \* HostOptions::worker_count
  Streams,       \* the connections clients make; bounds a run
  Threads,       \* the threads that hold senders of the sessions
  Size,          \* the bytes of one send
  MaxSent,       \* the bytes sent on one session; bounds a run
  MaxPending,    \* HostOptions::max_pending_send
  SocketRoom,    \* the bytes a socket takes before the client reads
  Transports,    \* the hosts considered: "tcp" for TcpHost, "tls" for TlsHost
  TlsRoom,       \* the bytes a TlsTransport buffers
  Environment    \* what clients do and which calls fail: a subset of AnyEvent

AnyEvent == {"data", "half", "reset", "shutdown", "poll", "accept", "register", "spawn"}

ASSUME ReactorAssumption ==
  /\ WorkerCount \in Nat \ {0}
  /\ {Size, MaxSent, MaxPending, SocketRoom, TlsRoom} \subseteq Nat \ {0}
  /\ Transports \subseteq {"tcp", "tls"}
  /\ Environment \subseteq AnyEvent

VARIABLES
  shared,    \* per worker: ReactorShared
  reactor,   \* per worker: Reactor, with the locals of its run loop
  session,   \* per stream: its Session, or what it becomes one from
  socket,    \* per stream: the socket and the client at its other end
  listener,  \* the listener's backlog and event, accept's next_worker
  call,      \* per thread: where it is in Session::send or Session::close
  host       \* run_reactors and HostShutdown::shutdown

vars == <<shared, reactor, session, socket, listener, call, host>>

Workers == 0 .. WorkerCount - 1
NoCall == [pc |-> "idle"]

Event(t, r, w) == [token |-> t, readable |-> r, writable |-> w]
ListenerToken == 0
WakerToken == 1
NoEvent == Event(WakerToken, FALSE, FALSE)

\* reactor[w].due is a history: per stream, how many bytes had been sent when
\* the waker's event began to be handled, if a write was queued then.
NothingDue == [s \in Streams |-> 0]

Init ==
  /\ host \in [transport : Transports, joined : {0}, result : {"running"},
               stopping : {0}, pc : {"idle"}]
  /\ shared = [w \in Workers |->
       [stopped |-> FALSE, woken |-> FALSE, incoming |-> << >>,
        pending_writes |-> << >>, pending_closes |-> << >>]]
  /\ reactor = [w \in Workers |->
       [pc |-> "event", events |-> {}, todo |-> << >>, now |-> NoEvent, closed |-> FALSE,
        next_token |-> 2, connections |-> << >>, due |-> NothingDue]]
  /\ session = [s \in Streams |->
       [state |-> "none", worker |-> 0, token |-> 0, disposed |-> FALSE,
        close_requested |-> FALSE, data |-> << >>, offset |-> 0, sent |-> 0,
        secured |-> host.transport = "tcp", tls |-> << >>, actor |-> "none"]]
  /\ socket = [s \in Streams |->
       [peer |-> "none", unread |-> FALSE, event |-> FALSE, interest |-> {},
        wire |-> << >>, taken |-> 0]]
  /\ listener = [backlog |-> << >>, event |-> FALSE, next_worker |-> 0]
  /\ call = [t \in Threads |-> NoCall]

-----------------------------------------------------------------------------
(* SendBuffer and the transports *)

Pending(s) == SubSeq(session[s].data, session[s].offset + 1, Len(session[s].data))

Room(s) == SocketRoom - (Len(socket[s].wire) - socket[s].taken)

CanWrite(s) == Len(Pending(s)) + Size <= MaxPending

\* Mutant: a short write clears the buffer.
Advance_Clears(buffer, count) == [buffer EXCEPT !.offset = 0, !.data = << >>]

\* SendBuffer::advance: the data is cleared only when all of it is written
Advance(buffer, count) ==
  LET offset == buffer.offset + count
      drained == offset >= Len(buffer.data)
  IN  [buffer EXCEPT !.offset = IF drained THEN 0 ELSE offset,
                     !.data = IF drained THEN << >> ELSE @]

Take(bytes, count) == SubSeq(bytes, 1, Min({count, Len(bytes)}))

\* Transport::write, up to the bytes that are on their way to the socket:
\* TcpTransport writes what the buffer holds, TlsTransport moves it into the
\* connection first and writes what that holds once the handshake is over.
Plain(s) == IF host.transport = "tcp" THEN << >>
            ELSE Take(Pending(s), TlsRoom - Len(session[s].tls))
Cipher(s) == IF host.transport = "tcp" THEN Pending(s) ELSE session[s].tls \o Plain(s)
Outgoing(s) == IF session[s].secured THEN Take(Cipher(s), Room(s)) ELSE << >>

\* Mutant: WouldBlock is an error like others.
WriteFails_WouldBlock(s) ==
  session[s].secured /\ Cipher(s) # << >> /\ (socket[s].peer = "reset" \/ Room(s) = 0)

WriteFails(s) == session[s].secured /\ Cipher(s) # << >> /\ socket[s].peer = "reset"

Written(s) ==
  LET count == Len(Outgoing(s))
  IN  IF host.transport = "tcp" THEN Advance(session[s], count)
      ELSE [Advance(session[s], Len(Plain(s))) EXCEPT !.tls = SubSeq(Cipher(s), count + 1,
                                                              Len(Cipher(s)))]

StillPending(after) ==
  \/ after.offset < Len(after.data)
  \/ after.secured /\ after.tls # << >>

\* Mutants: flush never asks for writability, or always.
Interest_ReadOnly(after) == {"R"}
Interest_Both(after) == {"R", "W"}

\* What flush asks to be told of
Interest(after) == IF StillPending(after) THEN {"R", "W"} ELSE {"R"}

\* What the socket reports to a registration with this interest
Writable(sock) ==
  /\ "W" \in sock.interest
  /\ Len(sock.wire) - sock.taken < SocketRoom \/ sock.peer = "reset"

Ready(sock, interest) ==
  \/ sock.unread \/ sock.peer \in {"half", "reset"}
  \/ Writable([sock EXCEPT !.interest = interest])

-----------------------------------------------------------------------------
(* What the reactor does to one connection *)

Stream(w, token) == reactor[w].connections[token]
Connected(w, token) == token \in DOMAIN reactor[w].connections

\* Reactor::close of some connections: they are removed, their sessions are
\* marked as disposed and their actors killed by on_disconnected.  The
\* reactor goes on as next says.
Close(w, tokens, next) ==
  LET closing == {Stream(w, t) : t \in tokens \cap DOMAIN reactor[w].connections}
  IN  /\ session' = [s \in Streams |->
           IF s \notin closing THEN session[s]
           ELSE [session[s] EXCEPT !.disposed = TRUE, !.actor = "killed"]]
      /\ socket' = [s \in Streams |->
           IF s \notin closing THEN socket[s]
           ELSE [socket[s] EXCEPT !.interest = {}, !.event = FALSE]]
      /\ reactor' = [reactor EXCEPT ![w] =
           [next EXCEPT !.connections = Restrict(@, DOMAIN @ \ tokens)]]

\* flush: write, then ask to be told of room as long as bytes are left; a
\* write that fails closes the connection.
Flush(w, token, next) ==
  IF ~Connected(w, token)
  THEN /\ reactor' = [reactor EXCEPT ![w] = next]
       /\ UNCHANGED <<session, socket>>
  ELSE LET s == Stream(w, token)
           interest == Interest(Written(s))
           after == [socket[s] EXCEPT !.wire = @ \o Outgoing(s), !.interest = interest]
       IN  IF WriteFails(s) THEN Close(w, {token}, next)
           ELSE /\ session' = [session EXCEPT ![s] = Written(s)]
                /\ socket' = [socket EXCEPT
                     ![s] = [after EXCEPT !.event = @ \/ Ready(after, interest)]]
                /\ reactor' = [reactor EXCEPT ![w] = next]

-----------------------------------------------------------------------------
(* Session::send and Session::close, by any thread that holds the session *)

\* The bound on the bytes sent, those of the sends under way included
MaySend(s) ==
  LET appending == {t \in Threads : call[t].pc = "append" /\ call[t].stream = s}
  IN  session[s].sent + Size * (1 + Cardinality(appending)) <= MaxSent

Refused(s) == session[s].disposed \/ shared[session[s].worker].stopped

Appended(s) == [session[s] EXCEPT !.data = @ \o [i \in 1 .. Size |-> session[s].sent + i],
                                  !.sent = @ + Size]

CallSend(t, s) ==
  /\ call[t] = NoCall
  /\ session[s].state = "open"
  /\ MaySend(s)
  /\ ~Refused(s)
  /\ call' = [call EXCEPT ![t] = [pc |-> "append", stream |-> s]]
  /\ UNCHANGED <<shared, reactor, session, socket, listener, host>>

\* The bytes are appended unless too many are pending.
AppendBytes(t) ==
  LET s == call[t].stream
  IN  /\ call[t].pc = "append"
      /\ IF CanWrite(s)
         THEN /\ session' = [session EXCEPT ![s] = Appended(s)]
              /\ call' = [call EXCEPT ![t].pc = "push_write"]
         ELSE call' = [call EXCEPT ![t] = NoCall] /\ UNCHANGED session
      /\ UNCHANGED <<shared, reactor, socket, listener, host>>

CallClose(t, s) ==
  /\ call[t] = NoCall
  /\ session[s].state = "open"
  /\ ~session[s].disposed /\ ~session[s].close_requested
  /\ call' = [call EXCEPT ![t] = [pc |-> "push_close", stream |-> s]]
  /\ session' = [session EXCEPT ![s].close_requested = TRUE]
  /\ UNCHANGED <<shared, reactor, socket, listener, host>>

\* Mutant: the token is queued and the reactor is not woken.
PushToken_NoWake(t) ==
  LET s == call[t].stream
      w == session[s].worker
  IN  /\ \/ /\ call[t].pc = "push_write"
            /\ shared' = [shared EXCEPT ![w].pending_writes = Append(@, session[s].token)]
         \/ /\ call[t].pc = "push_close"
            /\ shared' = [shared EXCEPT ![w].pending_closes = Append(@, session[s].token)]
      /\ call' = [call EXCEPT ![t] = NoCall]
      /\ UNCHANGED <<reactor, session, socket, listener, host>>

PushToken(t) ==
  LET s == call[t].stream
      w == session[s].worker
  IN  /\ \/ /\ call[t].pc = "push_write"
            /\ shared' = [shared EXCEPT ![w].pending_writes = Append(@, session[s].token)]
         \/ /\ call[t].pc = "push_close"
            /\ shared' = [shared EXCEPT ![w].pending_closes = Append(@, session[s].token)]
      /\ call' = [call EXCEPT ![t].pc = "wake"]
      /\ UNCHANGED <<reactor, session, socket, listener, host>>

Wake(t) ==
  /\ call[t].pc = "wake"
  /\ shared' = [shared EXCEPT ![session[call[t].stream].worker].woken = TRUE]
  /\ call' = [call EXCEPT ![t] = NoCall]
  /\ UNCHANGED <<reactor, session, socket, listener, host>>

-----------------------------------------------------------------------------
(* run: wait for events, then handle them one by one *)

Events(w) ==
  LET queued == {t \in DOMAIN reactor[w].connections :
                   LET sock == socket[Stream(w, t)]
                   IN  sock.event /\ Ready(sock, sock.interest)}
  IN  {Event(t, Ready(socket[Stream(w, t)], {}), Writable(socket[Stream(w, t)])) : t \in queued}
      \cup {e \in {NoEvent} : shared[w].woken}
      \cup {e \in {Event(ListenerToken, FALSE, FALSE)} :
              w = 0 /\ listener.event /\ listener.backlog # << >>}

AtPoll(w) == reactor[w].pc = "event" /\ reactor[w].events = {}

Poll(w) ==
  /\ AtPoll(w)
  /\ Events(w) # {}
  /\ reactor' = [reactor EXCEPT ![w].events = Events(w)]
  /\ shared' = [shared EXCEPT ![w].woken = FALSE]
  /\ listener' = IF w = 0 THEN [listener EXCEPT !.event = FALSE] ELSE listener
  /\ socket' = [s \in Streams |->
       IF \E t \in DOMAIN reactor[w].connections : Stream(w, t) = s
       THEN [socket[s] EXCEPT !.event = FALSE] ELSE socket[s]]
  /\ UNCHANGED <<session, call, host>>

\* The reactor takes event e out of the batch and goes on at pc.
Taking(w, e, pc) == [reactor[w] EXCEPT !.pc = pc, !.events = @ \ {e}, !.now = e]

Handled(w) == [reactor[w] EXCEPT !.pc = "event", !.now = NoEvent, !.closed = FALSE]

\* The listener is readable: accept until the backlog is empty.
ListenerEvent(w) ==
  /\ reactor[w].pc = "event"
  /\ \E e \in reactor[w].events : e.token = ListenerToken
       /\ reactor' = [reactor EXCEPT ![w] = Taking(w, e, "accept")]
  /\ UNCHANGED <<shared, session, socket, listener, call, host>>

\* accept, one iteration: the stream is handed to the workers in turn.
Accept(w) ==
  /\ reactor[w].pc = "accept"
  /\ IF listener.backlog = << >>
     THEN /\ reactor' = [reactor EXCEPT ![w] = Handled(w)]
          /\ UNCHANGED <<listener, shared>>
     ELSE /\ listener' = [listener EXCEPT !.backlog = Tail(@),
                                          !.next_worker = (@ + 1) % WorkerCount]
          /\ shared' = [shared EXCEPT ![listener.next_worker].incoming =
                                        Append(@, Head(listener.backlog))]
          /\ reactor' = [reactor EXCEPT ![w].pc = "accept_wake",
                                        ![w].now.token = listener.next_worker]
  /\ UNCHANGED <<session, socket, call, host>>

\* Mutant: the worker that accepts wakes itself.
AcceptWake_Self(w) ==
  /\ reactor[w].pc = "accept_wake"
  /\ shared' = [shared EXCEPT ![w].woken = TRUE]
  /\ reactor' = [reactor EXCEPT ![w].pc = "accept"]
  /\ UNCHANGED <<session, socket, listener, call, host>>

AcceptWake(w) ==
  /\ reactor[w].pc = "accept_wake"
  /\ shared' = [shared EXCEPT ![reactor[w].now.token].woken = TRUE]
  /\ reactor' = [reactor EXCEPT ![w].pc = "accept"]
  /\ UNCHANGED <<session, socket, listener, call, host>>

-----------------------------------------------------------------------------
(* The waker's event: stop, or take what other threads have queued *)

\* Mutant: run returns without close_all.
WakerStops_KeepsOpen(w) ==
  /\ reactor[w].pc = "event"
  /\ \E e \in reactor[w].events : e.token = WakerToken
  /\ shared[w].stopped
  /\ Close(w, {}, [reactor[w] EXCEPT !.pc = "returned", !.events = {}])
  /\ UNCHANGED <<shared, listener, call, host>>

WakerStops(w) ==
  /\ reactor[w].pc = "event"
  /\ \E e \in reactor[w].events : e.token = WakerToken
  /\ shared[w].stopped
  /\ Close(w, DOMAIN reactor[w].connections, [reactor[w] EXCEPT !.pc = "returned", !.events = {}])
  /\ UNCHANGED <<shared, listener, call, host>>

Due(w) ==
  [s \in Streams |->
     IF session[s].worker = w /\ session[s].token \in Range(shared[w].pending_writes)
     THEN session[s].sent ELSE 0]

TakeIncoming(w) ==
  /\ reactor[w].pc = "event"
  /\ ~shared[w].stopped
  /\ \E e \in reactor[w].events : e.token = WakerToken
       /\ reactor' = [reactor EXCEPT
            ![w] = [Taking(w, e, "incoming") EXCEPT !.todo = shared[w].incoming, !.due = Due(w)]]
  /\ shared' = [shared EXCEPT ![w].incoming = << >>]
  /\ UNCHANGED <<session, socket, listener, call, host>>

TokenAfter(token) == token + 1

\* take_incoming, one stream: register it, make its session and spawn its
\* actor in on_accepted.  A stream that cannot be registered is dropped; a
\* spawn that panics ends the thread.
Register(w) ==
  LET s == Head(reactor[w].todo)
      token == reactor[w].next_token
      rest == [reactor[w] EXCEPT !.todo = Tail(@), !.next_token = TokenAfter(@)]
      open == [rest EXCEPT !.connections =
                 [t \in DOMAIN @ \cup {token} |-> IF t = token THEN s ELSE @[t]]]
      accepted == [session[s] EXCEPT !.state = "open", !.worker = w, !.token = token]
  IN  /\ reactor[w].pc = "incoming"
      /\ reactor[w].todo # << >>
      /\ \/ /\ reactor' = [reactor EXCEPT ![w] = open]
            /\ session' = [session EXCEPT ![s] = [accepted EXCEPT !.actor = "running"]]
            /\ socket' = [socket EXCEPT ![s].interest = {"R"},
                                        ![s].event = Ready(socket[s], {"R"})]
         \/ /\ "register" \in Environment
            /\ reactor' = [reactor EXCEPT ![w] = rest]
            /\ session' = [session EXCEPT ![s].state = "dropped"]
            /\ UNCHANGED socket
         \/ /\ "spawn" \in Environment
            /\ reactor' = [reactor EXCEPT ![w] = [open EXCEPT !.pc = "failed"]]
            /\ session' = [session EXCEPT ![s].state = "dropped"]
            /\ UNCHANGED socket
      /\ UNCHANGED <<shared, listener, call, host>>

\* Mutant: close_pending comes before flush_pending.
TakeWrites_ClosesFirst(w) ==
  LET closes == shared[w].pending_closes
  IN  /\ reactor[w].pc = "incoming" /\ reactor[w].todo = << >>
      /\ reactor' = [reactor EXCEPT
           ![w].pc = IF closes # << >> THEN "close" ELSE "flush",
           ![w].todo = IF closes # << >> THEN closes ELSE shared[w].pending_writes]
      /\ shared' = [shared EXCEPT ![w].pending_closes = << >>,
                                  ![w].pending_writes = IF closes # << >> THEN @ ELSE << >>]
      /\ UNCHANGED <<session, socket, listener, call, host>>

\* flush_pending and close_pending: take the tokens, then work them off
TakeWrites(w) ==
  /\ reactor[w].pc = "incoming" /\ reactor[w].todo = << >>
  /\ reactor' = [reactor EXCEPT ![w].pc = "flush", ![w].todo = shared[w].pending_writes]
  /\ shared' = [shared EXCEPT ![w].pending_writes = << >>]
  /\ UNCHANGED <<session, socket, listener, call, host>>

FlushPending(w) ==
  /\ reactor[w].pc = "flush" /\ reactor[w].todo # << >>
  /\ Flush(w, Head(reactor[w].todo), [reactor[w] EXCEPT !.todo = Tail(@)])
  /\ UNCHANGED <<shared, listener, call, host>>

\* The reactor goes on with the tokens to close; without any it is done with
\* the waker's event.
Closing(w, tokens) ==
  [reactor[w] EXCEPT !.pc = IF tokens = << >> THEN "event" ELSE "close",
                     !.todo = tokens,
                     !.due = IF tokens = << >> THEN NothingDue ELSE @]

TakeCloses(w) ==
  /\ reactor[w].pc = "flush" /\ reactor[w].todo = << >>
  /\ reactor' = [reactor EXCEPT ![w] = Closing(w, shared[w].pending_closes)]
  /\ shared' = [shared EXCEPT ![w].pending_closes = << >>]
  /\ UNCHANGED <<session, socket, listener, call, host>>

ClosePending(w) ==
  /\ reactor[w].pc = "close"
  /\ Close(w, {Head(reactor[w].todo)}, Closing(w, Tail(reactor[w].todo)))
  /\ UNCHANGED <<shared, listener, call, host>>

-----------------------------------------------------------------------------
(* handle_connection *)

\* Transport::read takes everything there is and says whether the stream has
\* ended or failed; a TLS error counts as a reset.
ReadCloses(s) == socket[s].peer # "open"

\* The first data a TlsTransport reads completes its handshake and is not for
\* the handler.
Plaintext(s) == socket[s].unread /\ session[s].secured

\* Data is handled before the end of the stream.
ReadConnection(w) ==
  \E e \in reactor[w].events :
    LET s == Stream(w, e.token)
        next == [Taking(w, e, "flush_read") EXCEPT !.closed = ReadCloses(s)]
    IN  /\ reactor[w].pc = "event"
        /\ e.readable
        /\ Connected(w, e.token)
        /\ reactor' = [reactor EXCEPT
             ![w] = IF Plaintext(s) THEN [next EXCEPT !.pc = "on_data"] ELSE next]
        /\ socket' = [socket EXCEPT ![s].unread = FALSE]
        /\ session' = [session EXCEPT ![s].secured = @ \/ socket[s].unread]
        /\ UNCHANGED <<shared, listener, call, host>>

\* The event of a connection that is closed by now, or that is only writable
OtherEvent(w) ==
  /\ reactor[w].pc = "event"
  /\ \E e \in reactor[w].events :
       /\ e.token \notin {ListenerToken, WakerToken}
       /\ ~e.readable \/ ~Connected(w, e.token)
       /\ reactor' = [reactor EXCEPT
            ![w] = IF Connected(w, e.token) THEN Taking(w, e, "flush_writable")
                   ELSE [Handled(w) EXCEPT !.events = @ \ {e}]]
  /\ UNCHANGED <<shared, session, socket, listener, call, host>>

\* on_data: SessionActorHost posts the messages and closes the session when
\* the data is corrupt; another handler may send an answer.  These calls go
\* to the reactor's own queues, which nobody else takes from: one step.
OnData(w) ==
  LET s == Stream(w, reactor[w].now.token)
  IN  /\ reactor[w].pc = "on_data"
      /\ reactor' = [reactor EXCEPT ![w].pc = "flush_read"]
      /\ \/ UNCHANGED <<session, shared>>
         \/ /\ MaySend(s) /\ ~Refused(s) /\ CanWrite(s)
            /\ session' = [session EXCEPT ![s] = Appended(s)]
            /\ shared' = [shared EXCEPT ![w].pending_writes = Append(@, session[s].token),
                                        ![w].woken = TRUE]
         \/ /\ ~session[s].close_requested
            /\ session' = [session EXCEPT ![s].close_requested = TRUE]
            /\ shared' = [shared EXCEPT ![w].pending_closes = Append(@, session[s].token),
                                        ![w].woken = TRUE]
      /\ UNCHANGED <<socket, listener, call, host>>

\* The end of read: a connection that is still open is flushed.
FlushRead(w) ==
  LET token == reactor[w].now.token
  IN  /\ reactor[w].pc = "flush_read"
      /\ IF reactor[w].closed THEN Close(w, {token}, Handled(w))
         ELSE Flush(w, token, IF reactor[w].now.writable
                              THEN [reactor[w] EXCEPT !.pc = "flush_writable"] ELSE Handled(w))
      /\ UNCHANGED <<shared, listener, call, host>>

FlushWritable(w) ==
  /\ reactor[w].pc = "flush_writable"
  /\ Flush(w, reactor[w].now.token, Handled(w))
  /\ UNCHANGED <<shared, listener, call, host>>

\* poll or accept returns an error: run returns it.  The connections and the
\* handler are dropped: no session is marked as disposed, no actor killed.
WorkerFails(w) ==
  /\ \/ "poll" \in Environment /\ AtPoll(w)
     \/ "accept" \in Environment /\ reactor[w].pc = "accept"
  /\ reactor' = [reactor EXCEPT ![w].pc = "failed"]
  /\ UNCHANGED <<shared, session, socket, listener, call, host>>

-----------------------------------------------------------------------------
(* The clients, the host that joins its workers and the thread that stops it *)

Connect(s) ==
  /\ socket[s].peer = "none"
  /\ socket' = [socket EXCEPT ![s].peer = "open"]
  /\ listener' = [listener EXCEPT !.backlog = Append(@, s), !.event = TRUE]
  /\ UNCHANGED <<shared, reactor, session, call, host>>

\* The client sends, ends its stream or resets the connection.
Arrives(s, sock) ==
  /\ socket' = [socket EXCEPT ![s] = [sock EXCEPT !.event = @ \/ sock.interest # {}]]
  /\ UNCHANGED <<shared, reactor, session, listener, call, host>>

ClientSends(s) ==
  /\ "data" \in Environment
  /\ socket[s].peer = "open"
  /\ ~socket[s].unread
  /\ Arrives(s, [socket[s] EXCEPT !.unread = TRUE])

ClientEnds(s) ==
  \E peer \in {"half", "reset"} \cap Environment :
    /\ socket[s].peer \in {"open", "half"} \ {peer}
    /\ Arrives(s, [socket[s] EXCEPT !.peer = peer])

ClientReads(s) ==
  /\ socket[s].taken < Len(socket[s].wire)
  /\ socket[s].peer # "reset"
  /\ socket' = [socket EXCEPT ![s].taken = @ + 1,
                              ![s].event = @ \/ "W" \in socket[s].interest]
  /\ UNCHANGED <<shared, reactor, session, listener, call, host>>

\* HostShutdown::shutdown, worker by worker: store stopped, then wake
Shutdown ==
  /\ "shutdown" \in Environment
  /\ host.pc = "idle"
  /\ host' = [host EXCEPT !.pc = "store"]
  /\ UNCHANGED <<shared, reactor, session, socket, listener, call>>

\* Mutant: the flags are set and nobody is woken.
ShutdownStep_NoWake ==
  /\ host.stopping \in Workers /\ host.pc = "store"
  /\ shared' = [shared EXCEPT ![host.stopping].stopped = TRUE]
  /\ host' = [host EXCEPT !.stopping = @ + 1]
  /\ UNCHANGED <<reactor, session, socket, listener, call>>

ShutdownStep ==
  /\ host.stopping \in Workers
  /\ \/ /\ host.pc = "store"
        /\ shared' = [shared EXCEPT ![host.stopping].stopped = TRUE]
        /\ host' = [host EXCEPT !.pc = "wake"]
     \/ /\ host.pc = "wake"
        /\ shared' = [shared EXCEPT ![host.stopping].woken = TRUE]
        /\ host' = [host EXCEPT !.pc = "store", !.stopping = @ + 1]
  /\ UNCHANGED <<reactor, session, socket, listener, call>>

\* run_reactors: join the workers in order; the first error ends it.
Join ==
  /\ host.result = "running"
  /\ LET pc == reactor[host.joined].pc
     IN  \/ /\ pc = "returned"
            /\ host' = [host EXCEPT !.joined = @ + 1,
                          !.result = IF host.joined + 1 = WorkerCount THEN "ok" ELSE @]
         \/ pc = "failed" /\ host' = [host EXCEPT !.result = "error"]
  /\ UNCHANGED <<shared, reactor, session, socket, listener, call>>

-----------------------------------------------------------------------------

ReactorStep(w) ==
  \/ Poll(w) \/ ListenerEvent(w) \/ Accept(w) \/ AcceptWake(w)
  \/ WakerStops(w) \/ TakeIncoming(w) \/ Register(w) \/ TakeWrites(w) \/ FlushPending(w)
  \/ TakeCloses(w) \/ ClosePending(w)
  \/ ReadConnection(w) \/ OtherEvent(w) \/ OnData(w)
  \/ FlushRead(w) \/ FlushWritable(w)

CallStep(t) == AppendBytes(t) \/ PushToken(t) \/ Wake(t)

Next ==
  \/ \E w \in Workers : ReactorStep(w) \/ WorkerFails(w)
  \/ \E t \in Threads : CallStep(t)
  \/ \E t \in Threads, s \in Streams : CallSend(t, s) \/ CallClose(t, s)
  \/ \E s \in Streams : Connect(s) \/ ClientSends(s) \/ ClientEnds(s) \/ ClientReads(s)
  \/ Shutdown \/ ShutdownStep \/ Join

Spec == Init /\ [][Next]_vars

\* Threads are scheduled by the operating system, so a thread that can take a
\* step takes one; a client that stays connected reads in the end.  Nobody
\* has to connect, send, close, shut down or fail.
FairSpec ==
  /\ Spec
  /\ \A w \in Workers : WF_vars(ReactorStep(w))
  /\ \A t \in Threads : WF_vars(CallStep(t))
  /\ \A s \in Streams : WF_vars(ClientReads(s))
  /\ WF_vars(ShutdownStep) /\ WF_vars(Join)

-----------------------------------------------------------------------------
(* Properties *)

\* The bytes of a session are written in the order its sends appended them,
\* none lost and none twice, however the socket cuts the writes up: what is
\* on the wire, what the TLS connection holds and what the SendBuffer holds
\* are, in this order, the bytes that were sent.
BytesInOrder ==
  \A s \in Streams :
    socket[s].wire \o session[s].tls \o Pending(s) = [i \in 1 .. session[s].sent |-> i]

\* A connection is closed only for a reason of its own: its session asked
\* for it, its client ended the stream, or its worker stops: not because a
\* socket is full or the handshake of its transport is not over.
ClosedForCause ==
  [][\A s \in Streams : session'[s].disposed /\ ~session[s].disposed =>
       \/ session[s].close_requested
       \/ socket[s].peer # "open"
       \/ shared[session[s].worker].stopped]_vars

\* A close does not overtake a send: when the reactor closes a session that
\* was asked to close, every byte whose token was queued when it began to take
\* what other threads have queued has gone to the transport, unless the socket
\* did not take it.  What is left is a send that was queued after that.
SentBeforeClose ==
  [][\A w \in Workers, s \in Streams :
       /\ ClosePending(w)
       /\ session'[s].disposed /\ ~session[s].disposed
       => \/ "W" \in socket[s].interest
          \/ \A i \in DOMAIN Pending(s) : Pending(s)[i] > reactor[w].due[s]]_vars

\* When run returns Ok nothing is left behind: every session that was handed
\* to an actor is disposed and its actor killed, whatever was accepted or had
\* ended while the workers stopped.
HostOkClosedAll ==
  host.result = "ok" =>
    \A s \in Streams : session[s].state = "open" =>
      session[s].disposed /\ session[s].actor = "killed"

Failed(s) == reactor[session[s].worker].pc = "failed"

Unwritten(s) == Len(socket[s].wire) < session[s].sent

\* What send has accepted is written as long as the client reads: a token
\* that is queued while the reactor takes the queue, a wake that is merged
\* with another, a short write, none of them leaves bytes behind.
SentIsWritten ==
  \A s \in Streams :
    Unwritten(s) /\ session[s].secured ~> ~Unwritten(s) \/ session[s].disposed \/ Failed(s)

\* A session that is asked to close is closed, and one whose client has gone
\* away too: its actor is killed, unless its worker has failed.
EndedIsKilled ==
  \A s \in Streams :
    session[s].state = "open" /\ (session[s].close_requested \/ socket[s].peer # "open") ~>
      session[s].actor = "killed" \/ Failed(s)

\* A worker does not spin: unless clients go on sending it comes to wait in
\* poll again and again, whatever is pending on a socket that is full.  A
\* TLS session is excepted that has more to send than the TLS connection
\* buffers before the handshake is over: it keeps the interest in
\* writability although the socket has room.
WorkerWaits ==
  \A w \in Workers :
    \/ []<>(reactor[w].pc \in {"returned", "failed"} \/ (AtPoll(w) /\ Events(w) = {}))
    \/ []<>(\E s \in Streams : socket[s].unread)
    \/ <>[](\E s \in Streams : ~session[s].secured /\ Pending(s) # << >>)

\* A client that connects gets its session, unless the registration failed,
\* the host is being stopped or one of its workers has failed.
ConnectedIsServed ==
  \A s \in Streams :
    socket[s].peer # "none" ~>
      \/ session[s].state # "none"
      \/ \E w \in Workers : shared[w].stopped \/ reactor[w].pc = "failed"

\* After shutdown run returns, with an error if a worker had failed.
ShutdownReturns == host.pc # "idle" ~> host.result # "running"
=============================================================================
