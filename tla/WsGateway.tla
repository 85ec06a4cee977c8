------------------------------ MODULE WsGateway ------------------------------
(***************************************************************************)
(* The WebSocket gateway: the connection manager's bookkeeping under its   *)
(* lock, the handler task of every client, and the one task that pumps     *)
(* messages of the shared Redis pub/sub connection to the clients.  The    *)
(* lock is held across the calls to Redis.  Redis itself and its client    *)
(* are external: commands travel in order, a command takes effect when     *)
(* Redis reads it, and after a lost connection the client subscribes again *)
(* to what it remembers.                                                   *)
(***************************************************************************)
EXTENDS Integers, Sequences, SequencesExt

CONSTANTS
  Conns,           \* clients
  Chans,           \* topics
  MaxAsks,         \* bound: frames the clients send
  MaxEvents,       \* bound: events published
  NoOne

ASSUME WsAssumption ==
  /\ NoOne \notin Conns
  /\ MaxAsks \in Nat /\ MaxEvents \in Nat

VARIABLES
  conn,        \* the handler of a client: [pc, ask, channels]
  registered,  \* _connections
  listeners,   \* _channel_listeners
  lock,        \* who holds _lock across an await
  hasSub,      \* _has_subscription
  wanted,      \* the channels the Redis client remembers
  pipe,        \* commands sent to Redis and not yet read by it
  subs,        \* channels Redis has this connection subscribed to
  inbox,       \* messages Redis sent on the connection
  disp,        \* the dispatcher: [msg, to]
  asks,        \* frames sent so far
  acked,       \* topics a client was told it is subscribed to
  events,      \* events published so far
  owed,        \* deliveries due: event published to a live, acked topic
  got,         \* deliveries made
  orphaned     \* topics whose SUBSCRIBE raised and that kept a listener since

vars == <<conn, registered, listeners, lock, hasSub, wanted, pipe, subs, inbox,
          disp, asks, acked, events, owed, got, orphaned>>
book == <<registered, listeners, lock, hasSub, orphaned>>
redis == <<wanted, pipe, subs, inbox>>
flow == <<disp, asks, events, owed, got>>

PCs == {"new", "open", "subscribe", "subscribing", "subscribed", "unsubscribe",
        "unsubscribing", "unsubscribed", "closing", "removing", "gone"}
Cmd == [do : {"SUB", "UNSUB"}, ch : Chans]
Msg == [ch : Chans, n : 1..MaxEvents]
Idle == [msg |-> NoOne, to |-> {}]

At(c, pc) == conn[c].pc = pc
Goto(c, pc) == conn' = [conn EXCEPT ![c].pc = pc]
\* The frame is answered, or the loop is left.
Return(c, pc) == conn' = [conn EXCEPT ![c].pc = pc, ![c].ask = NoOne]
LockFree == lock = NoOne
Drop(c, ch) == [listeners EXCEPT ![ch] = @ \ {c}]
NoListeners(idx) == \A ch \in Chans : idx[ch] = {}
Listened(chs, idx) == {ch \in chs : idx[ch] # {}}

Send(do, ch) == pipe' = Append(pipe, [do |-> do, ch |-> ch])

----------------------------------------------------------------------------
\* ws_endpoint: accept and add, then one frame at a time.
Open(c) ==
  /\ At(c, "new") /\ LockFree
  /\ registered' = registered \cup {c}
  /\ Goto(c, "open")
  /\ UNCHANGED <<listeners, lock, hasSub, orphaned, redis, flow, acked>>

Ask(c) ==
  /\ At(c, "open") /\ asks < MaxAsks
  /\ asks' = asks + 1
  /\ \E ch \in Chans, pc \in {"subscribe", "unsubscribe"} :
       conn' = [conn EXCEPT ![c].pc = pc, ![c].ask = ch]
  /\ UNCHANGED <<book, redis, disp, events, owed, got, acked>>

\* The client goes away; its handler leaves the loop.
Disconnect(c) ==
  /\ At(c, "open")
  /\ Goto(c, "closing")
  /\ UNCHANGED <<book, redis, flow, acked>>

----------------------------------------------------------------------------
\* subscribe: the bookkeeping first, then the command if the channel had no
\* listener before.
Subscribe(c) ==
  LET ch == conn[c].ask
      already == listeners[ch] # {}
  IN /\ At(c, "subscribe") /\ LockFree
     /\ listeners' = [listeners EXCEPT ![ch] = @ \cup {c}]
     /\ conn' = [conn EXCEPT ![c].channels = @ \cup {ch},
                             ![c].pc = IF already THEN "subscribed" ELSE "subscribing"]
     /\ IF already THEN hasSub' = TRUE /\ UNCHANGED lock
                   ELSE lock' = c /\ UNCHANGED hasSub
     /\ UNCHANGED <<registered, orphaned, redis, flow, acked>>

\* A SUBSCRIBE that meets a lost connection raises out of the handler's loop:
\* the listener is registered and nobody asked Redis for the topic.
SubscribeCall(c) ==
  /\ At(c, "subscribing")
  /\ lock' = NoOne
  /\ \/ /\ Send("SUB", conn[c].ask)
        /\ wanted' = wanted \cup {conn[c].ask}
        /\ hasSub' = TRUE
        /\ Goto(c, "subscribed")
        /\ UNCHANGED orphaned
     \/ /\ orphaned' = orphaned \cup {conn[c].ask}
        /\ Return(c, "closing")
        /\ UNCHANGED <<pipe, wanted, hasSub>>
  /\ UNCHANGED <<registered, listeners, subs, inbox, flow, acked>>

AckSubscribe(c) ==
  /\ At(c, "subscribed")
  /\ acked' = [acked EXCEPT ![c] = @ \cup {conn[c].ask}]
  /\ Return(c, "open")
  /\ UNCHANGED <<book, redis, flow>>

----------------------------------------------------------------------------
\* Mutant: the listener loop is put to sleep when any channel empties.
AfterDropEager(idx) == hasSub' = FALSE

\* The listener loop idles only when no channel has a listener.
AfterDrop(idx) == hasSub' = (hasSub /\ ~NoListeners(idx))

\* unsubscribe: the command is sent under the lock when the last listener of
\* the channel goes, and its failure is suppressed.
Unsubscribe(c) ==
  LET ch == conn[c].ask
      idx == Drop(c, ch)
      last == listeners[ch] # {} /\ idx[ch] = {}
  IN /\ At(c, "unsubscribe") /\ LockFree
     /\ listeners' = idx /\ orphaned' = Listened(orphaned, idx)
     /\ conn' = [conn EXCEPT ![c].channels = @ \ {ch},
                             ![c].pc = IF last THEN "unsubscribing" ELSE "unsubscribed"]
     /\ IF last THEN lock' = c /\ UNCHANGED hasSub
        ELSE /\ UNCHANGED lock
             /\ IF listeners[ch] = {} THEN UNCHANGED hasSub ELSE AfterDrop(idx)
     /\ UNCHANGED <<registered, redis, flow, acked>>

\* Mutant: the lock is not released after the command.
UnsubscribeCallHolds(c) ==
  /\ At(c, "unsubscribing")
  /\ Send("UNSUB", conn[c].ask)
  /\ AfterDrop(listeners)
  /\ Goto(c, "unsubscribed")
  /\ UNCHANGED <<registered, listeners, lock, orphaned, wanted, subs, inbox, flow, acked>>

UnsubscribeCall(c) ==
  /\ At(c, "unsubscribing")
  /\ Send("UNSUB", conn[c].ask) \/ UNCHANGED pipe
  /\ AfterDrop(listeners)
  /\ lock' = NoOne
  /\ Goto(c, "unsubscribed")
  /\ UNCHANGED <<registered, listeners, orphaned, wanted, subs, inbox, flow, acked>>

AckUnsubscribe(c) ==
  /\ At(c, "unsubscribed")
  /\ acked' = [acked EXCEPT ![c] = @ \ {conn[c].ask}]
  /\ Return(c, "open")
  /\ UNCHANGED <<book, redis, flow>>

----------------------------------------------------------------------------
\* remove: under one hold of the lock, every channel the client joined.
StartRemove(c) ==
  /\ At(c, "closing") /\ LockFree
  /\ registered' = registered \ {c}
  /\ lock' = c
  /\ acked' = [acked EXCEPT ![c] = {}]
  /\ Goto(c, "removing")
  /\ UNCHANGED <<listeners, hasSub, orphaned, redis, flow>>

\* Mutant: the command is sent whenever a client leaves a channel.
LastListenerAny(idx, ch) == TRUE

LastListener(idx, ch) == idx[ch] = {}

RemoveChannel(c) ==
  /\ At(c, "removing")
  /\ \E ch \in conn[c].channels :
       LET idx == Drop(c, ch)
       IN /\ listeners' = idx /\ orphaned' = Listened(orphaned, idx)
          /\ conn' = [conn EXCEPT ![c].channels = @ \ {ch}]
          /\ \/ LastListener(idx, ch) /\ Send("UNSUB", ch)
             \/ UNCHANGED pipe /\ (LastListener(idx, ch) \/ idx[ch] # {})
  /\ UNCHANGED <<registered, lock, hasSub, wanted, subs, inbox, flow, acked>>

\* Mutant: the bookkeeping of a leaving client is left for later.
RemovedEarly(c) ==
  /\ At(c, "removing")
  /\ AfterDrop(listeners)
  /\ lock' = NoOne
  /\ Goto(c, "gone")
  /\ UNCHANGED <<registered, listeners, orphaned, redis, flow, acked>>

Removed(c) ==
  /\ At(c, "removing") /\ conn[c].channels = {}
  /\ AfterDrop(listeners)
  /\ lock' = NoOne
  /\ Goto(c, "gone")
  /\ UNCHANGED <<registered, listeners, orphaned, redis, flow, acked>>

----------------------------------------------------------------------------
\* Redis reads a command.  The client forgets a channel when its UNSUBSCRIBE
\* is confirmed and no SUBSCRIBE of it was sent since.
RedisReads ==
  /\ pipe # <<>>
  /\ pipe' = Tail(pipe)
  /\ LET cmd == Head(pipe)
     IN IF cmd.do = "SUB"
        THEN subs' = subs \cup {cmd.ch} /\ UNCHANGED wanted
        ELSE /\ subs' = subs \ {cmd.ch}
             /\ wanted' = IF [do |-> "SUB", ch |-> cmd.ch] \in ToSet(Tail(pipe))
                          THEN wanted ELSE wanted \ {cmd.ch}
  /\ UNCHANGED <<conn, book, inbox, flow, acked>>

\* The connection is lost and made again: commands and messages on it are
\* gone, and the remembered channels are subscribed.
Reconnect ==
  /\ subs # {} \/ pipe # <<>>
  /\ subs' = wanted /\ pipe' = <<>> /\ inbox' = <<>>
  /\ owed' = owed \cap UNION {{[to |-> c, msg |-> disp.msg] : c \in disp.to}, got}
  /\ UNCHANGED <<conn, book, wanted, disp, asks, acked, events, got>>

\* Somebody publishes; every acked client of a channel Redis has is owed it.
Publish(ch) ==
  /\ events < MaxEvents
  /\ events' = events + 1
  /\ LET m == [ch |-> ch, n |-> events + 1]
     IN IF ch \in subs
        THEN /\ inbox' = Append(inbox, m)
             /\ owed' = owed \cup {[to |-> c, msg |-> m] :
                                     c \in {d \in Conns : ch \in acked[d]}}
        ELSE UNCHANGED <<inbox, owed>>
  /\ UNCHANGED <<conn, book, wanted, pipe, subs, disp, asks, acked, got>>

----------------------------------------------------------------------------
\* _listen and _dispatch: the listeners are read under the lock, the sends
\* happen after it.
Dispatch ==
  /\ hasSub /\ disp = Idle /\ inbox # <<>> /\ LockFree
  /\ inbox' = Tail(inbox)
  /\ LET to == listeners[Head(inbox).ch] \cap registered
     IN disp' = IF to = {} THEN Idle ELSE [msg |-> Head(inbox), to |-> to]
  /\ UNCHANGED <<conn, book, wanted, pipe, subs, asks, acked, events, owed, got>>

\* A send to a client that has gone raises, which is logged.
SendText(c) ==
  /\ disp # Idle /\ c \in disp.to
  /\ disp' = IF disp.to = {c} THEN Idle ELSE [disp EXCEPT !.to = @ \ {c}]
  /\ got' = IF At(c, "gone") THEN got ELSE got \cup {[to |-> c, msg |-> disp.msg]}
  /\ UNCHANGED <<conn, book, redis, asks, acked, events, owed>>

----------------------------------------------------------------------------
Init ==
  /\ conn = [c \in Conns |-> [pc |-> "new", ask |-> NoOne, channels |-> {}]]
  /\ registered = {} /\ listeners = [ch \in Chans |-> {}]
  /\ lock = NoOne /\ hasSub = FALSE
  /\ wanted = {} /\ pipe = <<>> /\ subs = {} /\ inbox = <<>>
  /\ disp = Idle /\ asks = 0 /\ acked = [c \in Conns |-> {}]
  /\ events = 0 /\ owed = {} /\ got = {} /\ orphaned = {}

Handler(c) ==
  \/ Open(c)
  \/ Subscribe(c) \/ SubscribeCall(c) \/ AckSubscribe(c)
  \/ Unsubscribe(c) \/ UnsubscribeCall(c) \/ AckUnsubscribe(c)
  \/ StartRemove(c) \/ RemoveChannel(c) \/ Removed(c)
Client(c) == Ask(c) \/ Disconnect(c)
Listener == Dispatch \/ \E c \in Conns : SendText(c)

Next ==
  \/ \E c \in Conns : Handler(c) \/ Client(c)
  \/ Listener \/ RedisReads \/ Reconnect
  \/ \E ch \in Chans : Publish(ch)

Spec == Init /\ [][Next]_vars
\* The tasks of the event loop go on, and Redis reads what it is sent.  The
\* lock serves its waiters in turn, so a task waiting for it gets it.
LiveSpec ==
  /\ Spec
  /\ \A c \in Conns : SF_vars(Handler(c))
  /\ SF_vars(Listener)
  /\ WF_vars(RedisReads)

----------------------------------------------------------------------------
\* Types of the variables; the lock is kept only by a handler in a call.
WsTypeOK ==
  /\ \A c \in Conns :
       /\ conn[c].pc \in PCs /\ conn[c].ask \in Chans \cup {NoOne}
       /\ conn[c].channels \subseteq Chans
       /\ acked[c] \subseteq Chans
  /\ registered \subseteq Conns /\ \A ch \in Chans : listeners[ch] \subseteq Conns
  /\ lock \in Conns \cup {NoOne} /\ hasSub \in BOOLEAN
  /\ wanted \subseteq Chans /\ subs \subseteq Chans /\ orphaned \subseteq Chans
  /\ \A i \in DOMAIN pipe : pipe[i] \in Cmd
  /\ \A i \in DOMAIN inbox : inbox[i] \in Msg
  /\ asks \in 0..MaxAsks
  /\ lock # NoOne => conn[lock].pc \in {"subscribing", "unsubscribing", "removing"}

\* The two indexes agree whenever nobody is inside the lock, and a client
\* that has gone is in neither: nothing is sent on its behalf for ever.
IndexesAgree ==
  LockFree =>
    \A c \in Conns, ch \in Chans :
      /\ c \in listeners[ch] <=> ch \in conn[c].channels
      /\ At(c, "gone") => c \notin listeners[ch] /\ c \notin registered

\* What a client that was told it is subscribed to ch may rely on: the
\* connection remembers ch, and Redis has it or its SUBSCRIBE is on the way.
Backed(c, ch) ==
  ~At(c, "unsubscribing") /\ ~At(c, "unsubscribed") =>
    /\ ch \in wanted
    /\ \/ [do |-> "SUB", ch |-> ch] \in ToSet(pipe)
       \/ ch \in subs /\ [do |-> "UNSUB", ch |-> ch] \notin ToSet(pipe)

\* No interleaving of joins, leaves, lost connections and failing commands
\* leaves a client listening to a topic Redis will not send, but for the
\* topic whose own SUBSCRIBE raised: there the listener stays behind and the
\* next client is acknowledged without a command.  That damage is confined to
\* the topic and ends when it has no listener left.
AckedIsBacked == \A c \in Conns : \A ch \in acked[c] \ orphaned : Backed(c, ch)

\* The same of every topic, as an acknowledgement suggests.  It does not hold:
\* between the raise and the removal of the client that met it, another client
\* joins and sends no SUBSCRIBE.
EveryAckIsBacked == \A c \in Conns : \A ch \in acked[c] : Backed(c, ch)

\* An event published to a topic Redis has live reaches every client that was
\* told it is subscribed, unless the client leaves the topic or the
\* connection to Redis is lost first.
EventsReach ==
  \A c \in Conns, ch \in Chans, n \in 1..MaxEvents :
    LET d == [to |-> c, msg |-> [ch |-> ch, n |-> n]]
    IN (d \in owed) ~> (d \in got \/ d \notin owed \/ ch \notin acked[c])

\* The manager's header: subscribe, unsubscribe and disconnect cannot race
\* the listener.  The sends follow the lock, so an event can reach a client
\* after its unsubscribe was acknowledged.
NoEventAfterLeaving ==
  [][\A c \in Conns, ch \in Chans, n \in 1..MaxEvents :
       LET d == [to |-> c, msg |-> [ch |-> ch, n |-> n]]
       IN d \in got' \ got => ch \in acked[c] \cup conn[c].channels]_vars
=============================================================================
