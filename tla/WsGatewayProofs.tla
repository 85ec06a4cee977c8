--------------------------- MODULE WsGatewayProofs ---------------------------
(***************************************************************************)
(* Proofs about WsGateway, for any clients and topics.                     *)
(*                                                                         *)
(* A topic with a listener is backed, unless its own SUBSCRIBE raised: the *)
(* connection remembers it, and the commands under way end with a          *)
(* SUBSCRIBE of it.  This holds while the bookkeeping and the command are  *)
(* one critical section (CallInv), which is why the lock is held across    *)
(* the call to Redis.                                                      *)
(***************************************************************************)
EXTENDS WsGateway, SequenceTheorems, TLAPS

InCall == {"subscribing", "unsubscribing", "removing"}
Asking == {"subscribe", "subscribing", "subscribed",
           "unsubscribe", "unsubscribing", "unsubscribed"}

SUB(ch) == [do |-> "SUB", ch |-> ch]
UNSUB(ch) == [do |-> "UNSUB", ch |-> ch]

\* The commands in p leave channel ch subscribed, s being so before them.
Alive(p, s, ch) ==
  /\ \A i \in DOMAIN p : p[i] = UNSUB(ch) => \E j \in DOMAIN p : j > i /\ p[j] = SUB(ch)
  /\ ch \in s \/ \E i \in DOMAIN p : p[i] = SUB(ch)

Shape ==
  /\ conn \in [Conns -> [pc : PCs, ask : Chans \cup {NoOne}, channels : SUBSET Chans]]
  /\ acked \in [Conns -> SUBSET Chans]
  /\ registered \subseteq Conns
  /\ listeners \in [Chans -> SUBSET Conns]
  /\ lock \in Conns \cup {NoOne}
  /\ hasSub \in BOOLEAN
  /\ wanted \subseteq Chans
  /\ subs \subseteq Chans
  /\ orphaned \subseteq Chans
  /\ pipe \in Seq(Cmd)
  /\ inbox \in Seq(Msg)
  /\ asks \in 0 .. MaxAsks
  /\ events \in 0 .. MaxEvents

\* Whoever is in a call to Redis holds the lock, and nobody else does.
LockInv ==
  /\ \A c \in Conns : conn[c].pc \in InCall => lock = c
  /\ lock # NoOne => conn[lock].pc \in InCall

AskInv == \A c \in Conns : conn[c].pc \in Asking => conn[c].ask \in Chans

Mirrored == \A c \in Conns, ch \in Chans : c \in listeners[ch] <=> ch \in conn[c].channels

GoneInv ==
  \A c \in Conns :
    /\ conn[c].pc = "gone" => conn[c].channels = {}
    /\ conn[c].pc \in {"removing", "gone"} => c \notin registered /\ acked[c] = {}

\* What a client was told, against its own set of channels.
AckInv ==
  \A c \in Conns :
    /\ conn[c].pc = "subscribed" => conn[c].ask \in conn[c].channels
    /\ \A ch \in acked[c] :
         \/ ch \in conn[c].channels
         \/ conn[c].pc \in {"unsubscribing", "unsubscribed"} /\ conn[c].ask = ch

\* The listeners of the channel a call to Redis is about.
CallInv ==
  \A c \in Conns :
    /\ conn[c].pc = "subscribing" =>
         listeners[conn[c].ask] = {c} /\ conn[c].ask \notin acked[c]
    /\ conn[c].pc = "unsubscribing" => listeners[conn[c].ask] = {}

Subscribing(ch) == \E c \in Conns : conn[c].pc = "subscribing" /\ conn[c].ask = ch

BackInv ==
  \A ch \in Chans :
    listeners[ch] # {} =>
      Subscribing(ch) \/ ch \in orphaned \/ (ch \in wanted /\ Alive(pipe, subs, ch))

BookInv == Shape /\ LockInv /\ AskInv /\ Mirrored /\ GoneInv /\ AckInv /\ CallInv

WsInv == BookInv /\ BackInv

-----------------------------------------------------------------------------
\* What a step of one handler does to its own record and to the others'.
Moved(c, pc, ask, chs) ==
  /\ conn'[c].pc = pc /\ conn'[c].ask = ask /\ conn'[c].channels = chs
  /\ \A d \in Conns : d # c => conn'[d] = conn[d]

LEMMA Going ==
  ASSUME Shape, NEW c \in Conns, NEW pc \in PCs, Goto(c, pc)
  PROVE  /\ Moved(c, pc, conn[c].ask, conn[c].channels)
         /\ conn' \in [Conns -> [pc : PCs, ask : Chans \cup {NoOne}, channels : SUBSET Chans]]
  BY DEF Shape, Goto, Moved

LEMMA Returning ==
  ASSUME Shape, NEW c \in Conns, NEW pc \in PCs, Return(c, pc)
  PROVE  /\ Moved(c, pc, NoOne, conn[c].channels)
         /\ conn' \in [Conns -> [pc : PCs, ask : Chans \cup {NoOne}, channels : SUBSET Chans]]
<1> DEFINE m == [conn EXCEPT ![c].pc = pc]
           T == [Conns -> [pc : PCs, ask : Chans \cup {NoOne}, channels : SUBSET Chans]]
<1>1. m \in T
  BY DEF Shape
<1>2. /\ m[c].pc = pc /\ m[c].channels = conn[c].channels
      /\ \A d \in Conns : d # c => m[d] = conn[d]
  BY DEF Shape
<1>3. conn' = [m EXCEPT ![c].ask = NoOne]
  BY DEF Return
<1> HIDE DEF m
<1>4. conn' \in T
  BY <1>1, <1>3
<1>5. Moved(c, pc, NoOne, conn[c].channels)
  BY <1>1, <1>2, <1>3 DEF Moved
<1> QED
  BY <1>4, <1>5

LEMMA Sent ==
  ASSUME Shape, NEW do \in {"SUB", "UNSUB"}, NEW ch \in Chans, Send(do, ch)
  PROVE  pipe' \in Seq(Cmd)
<1>1. [do |-> do, ch |-> ch] \in Cmd
  BY DEF Cmd
<1>2. pipe \in Seq(Cmd) /\ pipe' = Append(pipe, [do |-> do, ch |-> ch])
  BY DEF Shape, Send
<1> QED
  BY <1>1, <1>2, AppendProperties

LEMMA OpenBook == ASSUME BookInv, NEW c \in Conns, Open(c) PROVE BookInv'
<1> USE DEF BookInv
<1>1. /\ Moved(c, "open", conn[c].ask, conn[c].channels)
      /\ conn' \in [Conns -> [pc : PCs, ask : Chans \cup {NoOne}, channels : SUBSET Chans]]
  BY Going DEF Open, PCs
<1>2. Shape'
  BY <1>1 DEF Open, Shape, book, redis, flow, Send, Cmd, AfterDrop, AskInv, At, Asking
<1>3. LockInv'
  BY <1>1, WsAssumption DEF Open, Moved, LockInv, LockFree, InCall, At, book, redis, flow, Shape
<1>4. AskInv'
  BY <1>1 DEF Open, Moved, AskInv, Asking, At, book, redis, flow
<1>5. Mirrored'
  BY <1>1 DEF Open, Moved, Mirrored, At, book, redis, flow
<1>6. GoneInv'
  BY <1>1 DEF Open, Moved, GoneInv, At, book, redis, flow, Shape
<1>7. AckInv'
  BY <1>1 DEF Open, Moved, AckInv, At, book, redis, flow, Shape
<1>8. CallInv'
  BY <1>1 DEF Open, Moved, CallInv, At, book, redis, flow, Shape
<1> QED
  BY <1>2, <1>3, <1>4, <1>5, <1>6, <1>7, <1>8

LEMMA DisconnectBook == ASSUME BookInv, NEW c \in Conns, Disconnect(c) PROVE BookInv'
<1> USE DEF BookInv
<1>1. /\ Moved(c, "closing", conn[c].ask, conn[c].channels)
      /\ conn' \in [Conns -> [pc : PCs, ask : Chans \cup {NoOne}, channels : SUBSET Chans]]
  BY Going DEF Disconnect, PCs
<1>2. Shape'
  BY <1>1 DEF Disconnect, Shape, book, redis, flow, Send, Cmd, AfterDrop, AskInv, At, Asking
<1>3. LockInv'
  BY <1>1, WsAssumption DEF Disconnect, Moved, LockInv, LockFree, InCall, At, book, redis, flow, Shape
<1>4. AskInv'
  BY <1>1 DEF Disconnect, Moved, AskInv, Asking, At, book, redis, flow
<1>5. Mirrored'
  BY <1>1 DEF Disconnect, Moved, Mirrored, At, book, redis, flow
<1>6. GoneInv'
  BY <1>1 DEF Disconnect, Moved, GoneInv, At, book, redis, flow, Shape
<1>7. AckInv'
  BY <1>1 DEF Disconnect, Moved, AckInv, At, book, redis, flow, Shape
<1>8. CallInv'
  BY <1>1 DEF Disconnect, Moved, CallInv, At, book, redis, flow, Shape
<1> QED
  BY <1>2, <1>3, <1>4, <1>5, <1>6, <1>7, <1>8

LEMMA AckSubscribeBook == ASSUME BookInv, NEW c \in Conns, AckSubscribe(c) PROVE BookInv'
<1> USE DEF BookInv
<1>1. /\ Moved(c, "open", NoOne, conn[c].channels)
      /\ conn' \in [Conns -> [pc : PCs, ask : Chans \cup {NoOne}, channels : SUBSET Chans]]
  BY Returning DEF AckSubscribe, PCs
<1>2. Shape'
  BY <1>1 DEF AckSubscribe, Shape, book, redis, flow, Send, Cmd, AfterDrop, AskInv, At, Asking
<1>3. LockInv'
  BY <1>1, WsAssumption DEF AckSubscribe, Moved, LockInv, LockFree, InCall, At, book, redis, flow, Shape
<1>4. AskInv'
  BY <1>1 DEF AckSubscribe, Moved, AskInv, Asking, At, book, redis, flow
<1>5. Mirrored'
  BY <1>1 DEF AckSubscribe, Moved, Mirrored, At, book, redis, flow
<1>6. GoneInv'
  BY <1>1 DEF AckSubscribe, Moved, GoneInv, At, book, redis, flow, Shape
<1>7. AckInv'
  BY <1>1 DEF AckSubscribe, Moved, AckInv, At, book, redis, flow, Shape
<1>8. CallInv'
  BY <1>1 DEF AckSubscribe, Moved, CallInv, At, book, redis, flow, Shape
<1> QED
  BY <1>2, <1>3, <1>4, <1>5, <1>6, <1>7, <1>8

LEMMA AckUnsubscribeBook == ASSUME BookInv, NEW c \in Conns, AckUnsubscribe(c) PROVE BookInv'
<1> USE DEF BookInv
<1>1. /\ Moved(c, "open", NoOne, conn[c].channels)
      /\ conn' \in [Conns -> [pc : PCs, ask : Chans \cup {NoOne}, channels : SUBSET Chans]]
  BY Returning DEF AckUnsubscribe, PCs
<1>2. Shape'
  BY <1>1 DEF AckUnsubscribe, Shape, book, redis, flow, Send, Cmd, AfterDrop, AskInv, At, Asking
<1>3. LockInv'
  BY <1>1, WsAssumption DEF AckUnsubscribe, Moved, LockInv, LockFree, InCall, At, book, redis, flow, Shape
<1>4. AskInv'
  BY <1>1 DEF AckUnsubscribe, Moved, AskInv, Asking, At, book, redis, flow
<1>5. Mirrored'
  BY <1>1 DEF AckUnsubscribe, Moved, Mirrored, At, book, redis, flow
<1>6. GoneInv'
  BY <1>1 DEF AckUnsubscribe, Moved, GoneInv, At, book, redis, flow, Shape
<1>7. AckInv'
  BY <1>1 DEF AckUnsubscribe, Moved, AckInv, At, book, redis, flow, Shape
<1>8. CallInv'
  BY <1>1 DEF AckUnsubscribe, Moved, CallInv, At, book, redis, flow, Shape
<1> QED
  BY <1>2, <1>3, <1>4, <1>5, <1>6, <1>7, <1>8

LEMMA StartRemoveBook == ASSUME BookInv, NEW c \in Conns, StartRemove(c) PROVE BookInv'
<1> USE DEF BookInv
<1>1. /\ Moved(c, "removing", conn[c].ask, conn[c].channels)
      /\ conn' \in [Conns -> [pc : PCs, ask : Chans \cup {NoOne}, channels : SUBSET Chans]]
  BY Going DEF StartRemove, PCs
<1>2. Shape'
  BY <1>1 DEF StartRemove, Shape, book, redis, flow, Send, Cmd, AfterDrop, AskInv, At, Asking
<1>3. LockInv'
  BY <1>1, WsAssumption DEF StartRemove, Moved, LockInv, LockFree, InCall, At, book, redis, flow, Shape
<1>4. AskInv'
  BY <1>1 DEF StartRemove, Moved, AskInv, Asking, At, book, redis, flow
<1>5. Mirrored'
  BY <1>1 DEF StartRemove, Moved, Mirrored, At, book, redis, flow
<1>6. GoneInv'
  BY <1>1 DEF StartRemove, Moved, GoneInv, At, book, redis, flow, Shape
<1>7. AckInv'
  BY <1>1 DEF StartRemove, Moved, AckInv, At, book, redis, flow, Shape
<1>8. CallInv'
  BY <1>1 DEF StartRemove, Moved, CallInv, At, book, redis, flow, Shape
<1> QED
  BY <1>2, <1>3, <1>4, <1>5, <1>6, <1>7, <1>8

LEMMA RemovedBook == ASSUME BookInv, NEW c \in Conns, Removed(c) PROVE BookInv'
<1> USE DEF BookInv
<1>1. /\ Moved(c, "gone", conn[c].ask, conn[c].channels)
      /\ conn' \in [Conns -> [pc : PCs, ask : Chans \cup {NoOne}, channels : SUBSET Chans]]
  BY Going DEF Removed, PCs
<1>2. Shape'
  BY <1>1 DEF Removed, Shape, book, redis, flow, Send, Cmd, AfterDrop, AskInv, At, Asking
<1>3. LockInv'
  BY <1>1, WsAssumption DEF Removed, Moved, LockInv, LockFree, InCall, At, book, redis, flow, Shape
<1>4. AskInv'
  BY <1>1 DEF Removed, Moved, AskInv, Asking, At, book, redis, flow
<1>5. Mirrored'
  BY <1>1 DEF Removed, Moved, Mirrored, At, book, redis, flow
<1>6. GoneInv'
  BY <1>1 DEF Removed, Moved, GoneInv, At, book, redis, flow, Shape
<1>7. AckInv'
  BY <1>1 DEF Removed, Moved, AckInv, GoneInv, At, book, redis, flow, Shape
<1>8. CallInv'
  BY <1>1 DEF Removed, Moved, CallInv, At, book, redis, flow, Shape
<1> QED
  BY <1>2, <1>3, <1>4, <1>5, <1>6, <1>7, <1>8

LEMMA UnsubscribeCallBook == ASSUME BookInv, NEW c \in Conns, UnsubscribeCall(c) PROVE BookInv'
<1> USE DEF BookInv
<1>1. /\ Moved(c, "unsubscribed", conn[c].ask, conn[c].channels)
      /\ conn' \in [Conns -> [pc : PCs, ask : Chans \cup {NoOne}, channels : SUBSET Chans]]
  BY Going DEF UnsubscribeCall, PCs
<1>2. /\ conn[c].pc = "unsubscribing" /\ conn[c].ask \in Chans /\ lock' = NoOne
      /\ UNCHANGED <<registered, listeners, acked, wanted, subs, inbox, asks, events, orphaned>>
  BY DEF UnsubscribeCall, At, flow, AskInv, Asking
<1>3. pipe' \in Seq(Cmd) /\ hasSub' \in BOOLEAN
  BY <1>2, Sent DEF UnsubscribeCall, AfterDrop, Shape
<1>4. Shape'
  BY <1>1, <1>2, <1>3 DEF Shape
<1>5. LockInv'
  BY <1>1, <1>2, WsAssumption DEF Moved, LockInv, InCall, Shape
<1>6. AskInv' /\ Mirrored' /\ GoneInv'
  BY <1>1, <1>2 DEF Moved, AskInv, Asking, Mirrored, GoneInv
<1>7. AckInv'
  BY <1>1, <1>2 DEF Moved, AckInv
<1>8. CallInv'
  BY <1>1, <1>2 DEF Moved, CallInv
<1> QED
  BY <1>4, <1>5, <1>6, <1>7, <1>8

LEMMA AskBook == ASSUME BookInv, NEW c \in Conns, Ask(c) PROVE BookInv'
<1> USE DEF BookInv
<1>1. PICK ch \in Chans, pc \in {"subscribe", "unsubscribe"} :
        conn' = [conn EXCEPT ![c].pc = pc, ![c].ask = ch]
  BY DEF Ask
<1>2. /\ Moved(c, pc, ch, conn[c].channels)
      /\ conn' \in [Conns -> [pc : PCs, ask : Chans \cup {NoOne}, channels : SUBSET Chans]]
  <2> DEFINE m == [conn EXCEPT ![c].pc = pc]
             T == [Conns -> [pc : PCs, ask : Chans \cup {NoOne}, channels : SUBSET Chans]]
  <2>1. m \in T
    BY DEF PCs, Shape
  <2>2. m[c].pc = pc /\ m[c].channels = conn[c].channels
        /\ \A d \in Conns : d # c => m[d] = conn[d]
    BY DEF Shape
  <2>3. conn' = [m EXCEPT ![c].ask = ch]
    BY <1>1
  <2> HIDE DEF m
  <2>4. conn' \in T
    BY <2>1, <2>3
  <2>5. Moved(c, pc, ch, conn[c].channels)
    BY <2>1, <2>2, <2>3 DEF Moved
  <2> QED
    BY <2>4, <2>5
<1>3. /\ conn[c].pc = "open" /\ asks' \in 0 .. MaxAsks
      /\ UNCHANGED <<registered, listeners, lock, hasSub, wanted, pipe, subs, inbox, events, acked,
                    orphaned>>
  BY WsAssumption DEF Ask, At, book, redis, Shape
<1>4. Shape'
  BY <1>2, <1>3 DEF Shape
<1>5. LockInv'
  BY <1>2, <1>3, WsAssumption DEF Moved, LockInv, InCall, Shape
<1>6. AskInv' /\ Mirrored' /\ GoneInv'
  BY <1>2, <1>3 DEF Moved, AskInv, Asking, Mirrored, GoneInv
<1>7. AckInv'
  BY <1>2, <1>3 DEF Moved, AckInv
<1>8. CallInv'
  BY <1>2, <1>3 DEF Moved, CallInv
<1> QED
  BY <1>4, <1>5, <1>6, <1>7, <1>8

LEMMA SubscribeBook == ASSUME BookInv, NEW c \in Conns, Subscribe(c) PROVE BookInv'
<1> USE DEF BookInv
<1> DEFINE ch == conn[c].ask
           already == listeners[ch] # {}
           pc == IF already THEN "subscribed" ELSE "subscribing"
<1>1. /\ conn[c].pc = "subscribe" /\ ch \in Chans /\ lock = NoOne
      /\ listeners' = [listeners EXCEPT ![ch] = @ \cup {c}]
      /\ conn' = [conn EXCEPT ![c].channels = @ \cup {ch}, ![c].pc = pc]
      /\ IF already THEN hasSub' = TRUE /\ lock' = NoOne ELSE lock' = c /\ hasSub' = hasSub
      /\ UNCHANGED <<registered, wanted, pipe, subs, inbox, asks, events, acked, orphaned>>
  BY DEF Subscribe, At, LockFree, AskInv, Asking, redis, flow
<1>2. pc \in {"subscribed", "subscribing"} /\ (pc = "subscribing" <=> ~already)
  OBVIOUS
<1> HIDE DEF already, pc
<1>3. /\ Moved(c, pc, ch, conn[c].channels \cup {ch})
      /\ conn' \in [Conns -> [pc : PCs, ask : Chans \cup {NoOne}, channels : SUBSET Chans]]
  BY <1>1, <1>2 DEF Moved, PCs, Shape
<1>4. \A x \in Chans : listeners'[x] = IF x = ch THEN listeners[ch] \cup {c} ELSE listeners[x]
  BY <1>1 DEF Shape
<1>5. Shape'
  BY <1>1, <1>3 DEF Shape
<1>6. LockInv'
  BY <1>1, <1>2, <1>3, WsAssumption DEF Moved, LockInv, InCall, Shape
<1>7. AskInv' /\ GoneInv'
  BY <1>1, <1>2, <1>3 DEF Moved, AskInv, Asking, GoneInv
<1>8. Mirrored'
  BY <1>1, <1>3, <1>4 DEF Moved, Mirrored
<1>9. AckInv'
  BY <1>1, <1>2, <1>3 DEF Moved, AckInv
<1>10. CallInv'
  <2>1. \A d \in Conns : d # c => conn[d].pc \notin InCall
    BY <1>1, WsAssumption DEF LockInv
  <2>2. ~already => listeners'[ch] = {c} /\ ch \notin acked[c]
    BY <1>1, <1>4 DEF already, Mirrored, AckInv
  <2> QED
    BY <1>1, <1>2, <1>3, <2>1, <2>2 DEF Moved, CallInv, InCall
<1> QED
  BY <1>5, <1>6, <1>7, <1>8, <1>9, <1>10

LEMMA SubscribeCallBook == ASSUME BookInv, NEW c \in Conns, SubscribeCall(c) PROVE BookInv'
<1> USE DEF BookInv
<1>1. PICK pc \in {"subscribed", "closing"} : IF pc = "subscribed" THEN Goto(c, pc) ELSE Return(c, pc)
  BY DEF SubscribeCall
<1>2. /\ Moved(c, pc, IF pc = "subscribed" THEN conn[c].ask ELSE NoOne, conn[c].channels)
      /\ conn' \in [Conns -> [pc : PCs, ask : Chans \cup {NoOne}, channels : SUBSET Chans]]
  BY <1>1, Going, Returning DEF PCs
<1>3. /\ conn[c].pc = "subscribing" /\ conn[c].ask \in Chans /\ lock' = NoOne
      /\ UNCHANGED <<registered, listeners, acked, subs, inbox, asks, events>>
  BY DEF SubscribeCall, At, flow, AskInv, Asking
<1>4. /\ pipe' \in Seq(Cmd) /\ hasSub' \in BOOLEAN
      /\ wanted' \subseteq Chans /\ orphaned' \subseteq Chans
  BY <1>3, Sent DEF SubscribeCall, Shape
<1>5. Shape'
  BY <1>2, <1>3, <1>4 DEF Shape
<1>6. LockInv'
  BY <1>2, <1>3, WsAssumption DEF Moved, LockInv, InCall, Shape
<1>7. AskInv' /\ Mirrored' /\ GoneInv'
  BY <1>2, <1>3 DEF Moved, AskInv, Asking, Mirrored, GoneInv
<1>8. AckInv'
  <2>1. conn[c].ask \in conn[c].channels
    BY <1>3 DEF CallInv, Mirrored
  <2> QED
    BY <1>2, <1>3, <2>1 DEF Moved, AckInv
<1>9. CallInv'
  BY <1>2, <1>3 DEF Moved, CallInv
<1> QED
  BY <1>5, <1>6, <1>7, <1>8, <1>9

LEMMA UnsubscribeBook == ASSUME BookInv, NEW c \in Conns, Unsubscribe(c) PROVE BookInv'
<1> USE DEF BookInv
<1> DEFINE ch == conn[c].ask
           last == listeners[ch] # {} /\ Drop(c, ch)[ch] = {}
           pc == IF last THEN "unsubscribing" ELSE "unsubscribed"
<1>1. /\ conn[c].pc = "unsubscribe" /\ ch \in Chans /\ lock = NoOne
      /\ listeners' = Drop(c, ch)
      /\ conn' = [conn EXCEPT ![c].channels = @ \ {ch}, ![c].pc = pc]
      /\ lock' = IF last THEN c ELSE NoOne
      /\ hasSub' \in BOOLEAN /\ orphaned' \subseteq Chans
      /\ UNCHANGED <<registered, wanted, pipe, subs, inbox, asks, events, acked>>
  BY DEF Unsubscribe, At, LockFree, AskInv, Asking, redis, flow, AfterDrop, Listened, Shape
<1>2. pc \in {"unsubscribed", "unsubscribing"} /\ (pc = "unsubscribing" <=> last)
  OBVIOUS
<1>3. last => listeners'[ch] = {}
  BY <1>1
<1> HIDE DEF last, pc
<1>4. /\ Moved(c, pc, ch, conn[c].channels \ {ch})
      /\ conn' \in [Conns -> [pc : PCs, ask : Chans \cup {NoOne}, channels : SUBSET Chans]]
  BY <1>1, <1>2 DEF Moved, PCs, Shape
<1>5. \A x \in Chans : listeners'[x] = IF x = ch THEN listeners[ch] \ {c} ELSE listeners[x]
  BY <1>1 DEF Shape, Drop
<1>6. Shape'
  BY <1>1, <1>4 DEF Shape, Drop
<1>7. LockInv'
  BY <1>1, <1>2, <1>4, WsAssumption DEF Moved, LockInv, InCall, Shape
<1>8. AskInv' /\ GoneInv'
  BY <1>1, <1>2, <1>4 DEF Moved, AskInv, Asking, GoneInv
<1>9. Mirrored'
  BY <1>1, <1>4, <1>5 DEF Moved, Mirrored
<1>10. AckInv'
  BY <1>1, <1>2, <1>4 DEF Moved, AckInv
<1>11. CallInv'
  <2>1. \A d \in Conns : d # c => conn[d].pc \notin InCall
    BY <1>1, WsAssumption DEF LockInv
  <2> QED
    BY <1>1, <1>2, <1>3, <1>4, <2>1 DEF Moved, CallInv, InCall
<1> QED
  BY <1>6, <1>7, <1>8, <1>9, <1>10, <1>11

LEMMA RemoveChannelBook == ASSUME BookInv, NEW c \in Conns, RemoveChannel(c) PROVE BookInv'
<1> USE DEF BookInv
<1>1. conn[c].pc = "removing" /\ conn[c].channels \subseteq Chans
      /\ UNCHANGED <<registered, lock, hasSub, wanted, subs, inbox, asks, events, acked>>
  BY DEF RemoveChannel, At, flow, Shape
<1>2. PICK ch \in conn[c].channels :
        /\ listeners' = Drop(c, ch) /\ orphaned' = Listened(orphaned, Drop(c, ch))
        /\ conn' = [conn EXCEPT ![c].channels = @ \ {ch}]
        /\ Send("UNSUB", ch) \/ UNCHANGED pipe
  BY DEF RemoveChannel
<1>3. ch \in Chans
  BY <1>1
<1>4. /\ Moved(c, "removing", conn[c].ask, conn[c].channels \ {ch})
      /\ conn' \in [Conns -> [pc : PCs, ask : Chans \cup {NoOne}, channels : SUBSET Chans]]
  BY <1>1, <1>2 DEF Moved, PCs, Shape
<1>5. \A x \in Chans : listeners'[x] = IF x = ch THEN listeners[ch] \ {c} ELSE listeners[x]
  BY <1>2 DEF Shape, Drop
<1>6. pipe' \in Seq(Cmd) /\ orphaned' \subseteq Chans
  BY <1>2, <1>3, Sent DEF Shape, Listened
<1>7. Shape'
  BY <1>1, <1>2, <1>4, <1>6 DEF Shape, Drop
<1>8. LockInv'
  BY <1>1, <1>4, WsAssumption DEF Moved, LockInv, InCall, Shape
<1>9. AskInv' /\ GoneInv'
  BY <1>1, <1>4 DEF Moved, AskInv, Asking, GoneInv
<1>10. Mirrored'
  BY <1>1, <1>3, <1>4, <1>5 DEF Moved, Mirrored
<1>11. AckInv'
  BY <1>1, <1>4 DEF Moved, AckInv, GoneInv
<1>12. CallInv'
  <2>1. \A d \in Conns : d # c => conn[d].pc \notin InCall
    BY <1>1 DEF LockInv, InCall
  <2> QED
    BY <1>1, <1>4, <2>1 DEF Moved, CallInv, InCall
<1> QED
  BY <1>7, <1>8, <1>9, <1>10, <1>11, <1>12

\* What changes neither the handlers nor the manager's bookkeeping.
LEMMA AsideBook ==
  ASSUME BookInv, Shape', UNCHANGED <<conn, registered, listeners, lock, acked>>
  PROVE  BookInv'
<1> USE DEF BookInv
<1>1. LockInv' /\ AskInv' /\ Mirrored' /\ GoneInv'
  BY DEF LockInv, AskInv, Mirrored, GoneInv
<1>2. AckInv' /\ CallInv'
  BY DEF AckInv, CallInv
<1> QED
  BY <1>1, <1>2

LEMMA ListenerBook ==
  ASSUME BookInv, Listener
  PROVE  BookInv' /\ UNCHANGED <<conn, acked, listeners, wanted, pipe, subs, orphaned>>
<1>1. UNCHANGED <<conn, registered, listeners, lock, hasSub, acked, wanted, pipe, subs, asks, events,
                 orphaned>>
  BY DEF Listener, Dispatch, SendText, book, redis
<1>2. inbox' \in Seq(Msg)
  <2>1. CASE Dispatch
    BY <2>1, HeadTailProperties DEF Dispatch, BookInv, Shape
  <2>2. CASE \E c \in Conns : SendText(c)
    BY <2>2 DEF SendText, redis, BookInv, Shape
  <2> QED
    BY <2>1, <2>2 DEF Listener
<1>3. Shape'
  BY <1>1, <1>2 DEF BookInv, Shape
<1> QED
  BY <1>1, <1>3, AsideBook

LEMMA PublishBook ==
  ASSUME BookInv, NEW ch \in Chans, Publish(ch)
  PROVE  BookInv' /\ UNCHANGED <<conn, acked, listeners, wanted, pipe, subs, orphaned>>
<1>1. UNCHANGED <<conn, registered, listeners, lock, hasSub, acked, wanted, pipe, subs, asks, orphaned>>
  BY DEF Publish, book
<1>2. events' \in 1 .. MaxEvents /\ events' = events + 1
  BY WsAssumption DEF Publish, BookInv, Shape
<1>3. inbox' \in Seq(Msg)
  <2> DEFINE m == [ch |-> ch, n |-> events + 1]
  <2>1. m \in Msg
    BY <1>2 DEF Msg
  <2>2. inbox' = Append(inbox, m) \/ inbox' = inbox
    BY DEF Publish
  <2> HIDE DEF m
  <2>3. inbox \in Seq(Msg)
    BY DEF BookInv, Shape
  <2> QED
    BY <2>1, <2>2, <2>3, AppendProperties
<1>4. Shape'
  BY <1>1, <1>2, <1>3, WsAssumption DEF BookInv, Shape
<1> QED
  BY <1>1, <1>4, AsideBook

LEMMA RedisReadsBook == ASSUME BookInv, RedisReads PROVE BookInv'
<1>1. /\ UNCHANGED <<conn, registered, listeners, lock, hasSub, acked, asks, events, inbox, orphaned>>
      /\ pipe # <<>> /\ pipe' = Tail(pipe)
  BY DEF RedisReads, book, flow
<1>2. pipe' \in Seq(Cmd) /\ Head(pipe) \in Cmd
  BY <1>1, HeadTailProperties DEF BookInv, Shape
<1>3. subs' \subseteq Chans /\ wanted' \subseteq Chans
  BY <1>2 DEF RedisReads, Cmd, BookInv, Shape
<1>4. Shape'
  BY <1>1, <1>2, <1>3 DEF BookInv, Shape
<1> QED
  BY <1>1, <1>4, AsideBook

LEMMA ReconnectBook == ASSUME BookInv, Reconnect PROVE BookInv'
<1>1. /\ UNCHANGED <<conn, registered, listeners, lock, hasSub, acked, asks, events, wanted, orphaned>>
      /\ subs' = wanted /\ pipe' = <<>> /\ inbox' = <<>>
  BY DEF Reconnect, book
<1>2. Shape'
  BY <1>1, EmptySeq DEF BookInv, Shape
<1> QED
  BY <1>1, <1>2, AsideBook

LEMMA HandlerBook ==
  ASSUME BookInv, NEW c \in Conns, Handler(c) \/ Client(c)
  PROVE  BookInv'
<1>1. CASE Handler(c)
  BY <1>1, OpenBook, SubscribeBook, SubscribeCallBook, AckSubscribeBook, UnsubscribeBook,
     UnsubscribeCallBook, AckUnsubscribeBook, StartRemoveBook, RemoveChannelBook,
     RemovedBook DEF Handler
<1>2. CASE Client(c)
  BY <1>2, AskBook, DisconnectBook DEF Client
<1> QED
  BY <1>1, <1>2

LEMMA BookStep == BookInv /\ [Next]_vars => BookInv'
<1> SUFFICES ASSUME BookInv, [Next]_vars PROVE BookInv'
  OBVIOUS
<1>1. CASE UNCHANGED vars
  <2>1. UNCHANGED <<conn, registered, listeners, lock, acked>>
        /\ UNCHANGED <<hasSub, wanted, subs, pipe, inbox, asks, events, orphaned>>
    BY <1>1 DEF vars
  <2>2. Shape'
    BY <2>1 DEF BookInv, Shape
  <2> QED
    BY <2>1, <2>2, AsideBook
<1>2. ASSUME NEW c \in Conns, Handler(c) \/ Client(c) PROVE BookInv'
  BY <1>2, HandlerBook
<1>3. ASSUME NEW ch \in Chans, Publish(ch) PROVE BookInv'
  BY <1>3, PublishBook
<1>4. CASE Listener \/ RedisReads \/ Reconnect
  BY <1>4, ListenerBook, RedisReadsBook, ReconnectBook
<1> QED
  BY <1>1, <1>2, <1>3, <1>4 DEF Next

LEMMA BookInit == Init => BookInv
<1> SUFFICES ASSUME Init PROVE BookInv
  OBVIOUS
<1>1. Shape
  <2>1. conn \in [Conns -> [pc : PCs, ask : Chans \cup {NoOne}, channels : SUBSET Chans]]
    BY DEF Init, PCs
  <2>2. pipe \in Seq(Cmd) /\ inbox \in Seq(Msg)
    BY EmptySeq DEF Init
  <2>3. asks \in 0 .. MaxAsks /\ events \in 0 .. MaxEvents
    BY WsAssumption DEF Init
  <2>4. acked \in [Conns -> SUBSET Chans] /\ listeners \in [Chans -> SUBSET Conns]
    BY DEF Init
  <2> QED
    BY <2>1, <2>2, <2>3, <2>4 DEF Init, Shape
<1>2. \A c \in Conns : conn[c].pc = "new" /\ conn[c].channels = {} /\ acked[c] = {}
  BY DEF Init
<1>3. lock = NoOne /\ \A ch \in Chans : listeners[ch] = {}
  BY DEF Init
<1>4. registered = {}
  BY DEF Init
<1> QED
  BY <1>1, <1>2, <1>3, <1>4
  DEF BookInv, LockInv, InCall, AskInv, Asking, Mirrored, GoneInv, AckInv, CallInv

-----------------------------------------------------------------------------
\* The types of the variables, and that the lock is kept by handlers in a call.
THEOREM WsTypeCorrect == Spec => []WsTypeOK
<1>1. BookInv => WsTypeOK
  <2> SUFFICES ASSUME BookInv PROVE WsTypeOK
    OBVIOUS
  <2>1. \A i \in DOMAIN pipe : pipe[i] \in Cmd
    BY ElementOfSeq DEF BookInv, Shape
  <2>2. \A i \in DOMAIN inbox : inbox[i] \in Msg
    BY ElementOfSeq DEF BookInv, Shape
  <2> QED
    BY <2>1, <2>2 DEF WsTypeOK, BookInv, Shape, LockInv, InCall
<1> QED
  BY <1>1, BookInit, BookStep, PTL DEF Spec

\* The manager's two indexes say the same of every client and topic whenever
\* nobody is inside the lock, and clients that have gone are in neither,
\* whatever SUBSCRIBE and UNSUBSCRIBE calls raised on the way.
THEOREM IndexesStayAgreed == Spec => []IndexesAgree
<1>1. BookInv => IndexesAgree
  BY DEF BookInv, Mirrored, GoneInv, IndexesAgree, At
<1> QED
  BY <1>1, BookInit, BookStep, PTL DEF Spec

-----------------------------------------------------------------------------
\* Commands under way

LEMMA AliveSubscribed ==
  ASSUME NEW p \in Seq(Cmd), NEW s, NEW ch \in Chans
  PROVE  Alive(Append(p, SUB(ch)), s, ch)
<1> DEFINE q == Append(p, SUB(ch))
<1>1. /\ Len(p) \in Nat /\ DOMAIN q = 1 .. Len(p) + 1 /\ q[Len(p) + 1] = SUB(ch)
      /\ \A i \in 1 .. Len(p) : q[i] = p[i]
  OBVIOUS
<1>2. SUB(ch) # UNSUB(ch)
  BY DEF SUB, UNSUB
<1> HIDE DEF q
<1>3. Alive(q, s, ch)
  BY <1>1, <1>2 DEF Alive
<1> QED
  BY <1>3 DEF q

LEMMA AliveAppended ==
  ASSUME NEW p \in Seq(Cmd), NEW s, NEW ch \in Chans, NEW cmd \in Cmd, cmd.ch # ch,
         Alive(p, s, ch)
  PROVE  Alive(Append(p, cmd), s, ch)
<1> DEFINE q == Append(p, cmd)
<1>1. /\ Len(p) \in Nat /\ DOMAIN p = 1 .. Len(p) /\ DOMAIN q = 1 .. Len(p) + 1
      /\ q[Len(p) + 1] = cmd /\ \A i \in 1 .. Len(p) : q[i] = p[i]
  OBVIOUS
<1>2. cmd # SUB(ch) /\ cmd # UNSUB(ch)
  BY DEF SUB, UNSUB
<1> HIDE DEF q
<1>3. Alive(q, s, ch)
  BY <1>1, <1>2 DEF Alive
<1> QED
  BY <1>3 DEF q

\* Redis reads the first command.
LEMMA AliveRead ==
  ASSUME NEW p \in Seq(Cmd), p # <<>>, NEW s, NEW r, NEW ch \in Chans, Alive(p, s, ch),
         Head(p) = SUB(ch) => ch \in r,
         Head(p) # SUB(ch) /\ Head(p) # UNSUB(ch) /\ ch \in s => ch \in r
  PROVE  /\ Alive(Tail(p), r, ch)
         /\ Head(p) = UNSUB(ch) => SUB(ch) \in ToSet(Tail(p))
<1> DEFINE q == Tail(p)
<1>1. /\ Len(p) \in Nat /\ Len(p) >= 1 /\ DOMAIN p = 1 .. Len(p) /\ Head(p) = p[1]
      /\ DOMAIN q = 1 .. Len(p) - 1 /\ \A i \in 1 .. Len(p) - 1 : q[i] = p[i + 1]
  BY EmptySeq
<1>2. ToSet(q) = {q[i] : i \in DOMAIN q}
  BY DEF ToSet
<1> HIDE DEF q
<1>3. ASSUME NEW j \in DOMAIN p, j > 1 PROVE j - 1 \in DOMAIN q /\ q[j - 1] = p[j]
  <2>1. j - 1 \in 1 .. Len(p) - 1 /\ (j - 1) + 1 = j
    BY <1>1, <1>3
  <2> QED
    BY <1>1, <2>1
<1>4. \A i \in DOMAIN q : i + 1 \in DOMAIN p /\ q[i] = p[i + 1] /\ i \in Nat
  BY <1>1
<1>5. ASSUME NEW i \in DOMAIN q, q[i] = UNSUB(ch)
      PROVE  \E j \in DOMAIN q : j > i /\ q[j] = SUB(ch)
  <2>1. PICK j \in DOMAIN p : j > i + 1 /\ p[j] = SUB(ch)
    BY <1>4, <1>5 DEF Alive
  <2>2. j > 1 /\ j - 1 > i
    BY <1>1, <1>4, <2>1
  <2> QED
    BY <1>3, <2>1, <2>2
<1>6. Head(p) = UNSUB(ch) => \E j \in DOMAIN q : q[j] = SUB(ch)
  <2> SUFFICES ASSUME p[1] = UNSUB(ch) PROVE \E j \in DOMAIN q : q[j] = SUB(ch)
    BY <1>1
  <2>1. PICK j \in DOMAIN p : j > 1 /\ p[j] = SUB(ch)
    BY <1>1 DEF Alive
  <2> QED
    BY <1>3, <2>1
<1>7. ch \in r \/ \E j \in DOMAIN q : q[j] = SUB(ch)
  <2>1. CASE ch \in s
    BY <1>6, <2>1
  <2>2. CASE \E j \in DOMAIN p : p[j] = SUB(ch)
    <3>1. PICK j \in DOMAIN p : p[j] = SUB(ch)
      BY <2>2
    <3>2. CASE j = 1
      BY <1>1, <3>1, <3>2
    <3>3. CASE j > 1
      BY <1>3, <3>1, <3>3
    <3> QED
      BY <1>1, <3>2, <3>3
  <2> QED
    BY <2>1, <2>2 DEF Alive
<1>8. Alive(q, r, ch)
  BY <1>5, <1>7 DEF Alive
<1> QED
  BY <1>2, <1>6, <1>8 DEF q

-----------------------------------------------------------------------------
\* A step that sends and receives nothing, gains no listener and ends no
\* SUBSCRIBE call.
LEMMA AsideBack ==
  ASSUME BackInv, UNCHANGED <<wanted, pipe, subs, orphaned>>,
         \A ch \in Chans : listeners'[ch] # {} => listeners[ch] # {},
         \A d \in Conns : conn[d].pc = "subscribing" =>
                          conn'[d].pc = "subscribing" /\ conn'[d].ask = conn[d].ask
  PROVE  BackInv'
<1>1. \A ch \in Chans : Subscribing(ch) => Subscribing(ch)'
  BY DEF Subscribing
<1> QED
  BY <1>1 DEF BackInv

LEMMA MovingBack ==
  ASSUME WsInv, NEW c \in Conns,
         \/ Open(c) \/ Ask(c) \/ Disconnect(c) \/ AckSubscribe(c) \/ AckUnsubscribe(c)
         \/ StartRemove(c) \/ Removed(c)
  PROVE  BackInv'
<1>1. /\ UNCHANGED <<listeners, wanted, pipe, subs, orphaned>>
      /\ conn[c].pc # "subscribing"
  BY DEF Open, Ask, Disconnect, AckSubscribe, AckUnsubscribe, StartRemove, Removed, At, book, redis
<1>2. \A d \in Conns : d # c => conn'[d] = conn[d]
  BY DEF Open, Ask, Disconnect, AckSubscribe, AckUnsubscribe, StartRemove, Removed, Goto, Return,
         WsInv, BookInv, Shape
<1>3. \A d \in Conns : conn[d].pc = "subscribing" =>
                          conn'[d].pc = "subscribing" /\ conn'[d].ask = conn[d].ask
  BY <1>1, <1>2
<1> QED
  BY <1>1, <1>3, AsideBack DEF WsInv

LEMMA SubscribeBack == ASSUME WsInv, NEW c \in Conns, Subscribe(c) PROVE BackInv'
<1> DEFINE x == conn[c].ask
<1>1. /\ conn[c].pc = "subscribe" /\ x \in Chans
      /\ listeners' = [listeners EXCEPT ![x] = @ \cup {c}]
      /\ UNCHANGED <<wanted, pipe, subs, orphaned>>
  BY DEF Subscribe, At, WsInv, BookInv, AskInv, Asking, redis
<1>2. /\ \A d \in Conns : d # c => conn'[d] = conn[d]
      /\ conn'[c].ask = x
      /\ listeners[x] = {} => conn'[c].pc = "subscribing"
  BY DEF Subscribe, WsInv, BookInv, Shape
<1>3. \A ch \in Chans : Subscribing(ch) => Subscribing(ch)'
  BY <1>1, <1>2 DEF Subscribing
<1>4. \A ch \in Chans : ch = x /\ listeners[ch] = {} => Subscribing(ch)'
  BY <1>2 DEF Subscribing
<1>5. \A ch \in Chans : listeners'[ch] # {} => listeners[ch] # {} \/ ch = x
  BY <1>1 DEF WsInv, BookInv, Shape
<1>6. ASSUME NEW ch \in Chans, listeners[ch] # {}
      PROVE  Subscribing(ch)' \/ ch \in orphaned' \/ (ch \in wanted' /\ Alive(pipe', subs', ch))
  <2>1. Subscribing(ch) \/ ch \in orphaned \/ (ch \in wanted /\ Alive(pipe, subs, ch))
    BY <1>6 DEF WsInv, BackInv
  <2> QED
    BY <1>1, <1>3, <2>1
<1> QED
  BY <1>4, <1>5, <1>6 DEF BackInv

LEMMA SubscribeCallBack == ASSUME WsInv, NEW c \in Conns, SubscribeCall(c) PROVE BackInv'
<1> DEFINE x == conn[c].ask
<1>1. /\ conn[c].pc = "subscribing" /\ x \in Chans /\ pipe \in Seq(Cmd)
      /\ UNCHANGED <<listeners, subs>>
      /\ \/ /\ pipe' = Append(pipe, SUB(x)) /\ wanted' = wanted \cup {x}
            /\ UNCHANGED orphaned
         \/ UNCHANGED <<pipe, wanted>> /\ orphaned' = orphaned \cup {x}
  BY DEF SubscribeCall, At, Send, SUB, WsInv, BookInv, AskInv, Asking, Shape
<1>2. SUB(x) \in Cmd /\ SUB(x).ch = x
  BY <1>1 DEF SUB, Cmd
<1>3. ASSUME NEW ch \in Chans, ch # x, listeners[ch] # {}
      PROVE  ch \in orphaned \/ (ch \in wanted /\ Alive(pipe, subs, ch))
  <2>1. ~Subscribing(ch)
    BY <1>1, <1>3 DEF Subscribing, WsInv, BookInv, LockInv, InCall
  <2> QED
    BY <1>3, <2>1 DEF WsInv, BackInv
<1>4. CASE UNCHANGED <<pipe, wanted>> /\ orphaned' = orphaned \cup {x}
  BY <1>1, <1>3, <1>4 DEF BackInv
<1>5. CASE pipe' = Append(pipe, SUB(x)) /\ wanted' = wanted \cup {x} /\ UNCHANGED orphaned
  <2>1. Alive(pipe', subs', x)
    BY <1>1, <1>5, AliveSubscribed
  <2>2. ASSUME NEW ch \in Chans, ch # x, Alive(pipe, subs, ch) PROVE Alive(pipe', subs', ch)
    <3>1. Alive(Append(pipe, SUB(x)), subs, ch)
      BY <1>1, <1>2, <2>2, AliveAppended
    <3> QED
      BY <1>1, <1>5, <3>1
  <2> QED
    BY <1>1, <1>3, <1>5, <2>1, <2>2 DEF BackInv
<1> QED
  BY <1>1, <1>4, <1>5

\* Removing a listener, and sending UNSUBSCRIBE if it was the last.
LEMMA DropBack ==
  ASSUME WsInv, NEW x \in Chans, UNCHANGED <<wanted, subs>>,
         \A ch \in Chans : listeners'[ch] # {} => listeners[ch] # {},
         \A ch \in orphaned : listeners'[ch] # {} => ch \in orphaned',
         \A d \in Conns : conn[d].pc # "subscribing",
         (Send("UNSUB", x) /\ listeners'[x] = {}) \/ UNCHANGED pipe
  PROVE  BackInv'
<1>1. UNSUB(x) \in Cmd /\ UNSUB(x).ch = x /\ pipe \in Seq(Cmd)
  BY DEF UNSUB, Cmd, WsInv, BookInv, Shape
<1>2. (pipe' = Append(pipe, UNSUB(x)) /\ listeners'[x] = {}) \/ pipe' = pipe
  BY DEF Send, UNSUB
<1> SUFFICES ASSUME NEW ch \in Chans, listeners'[ch] # {}, ch \notin orphaned'
             PROVE  ch \in wanted' /\ Alive(pipe', subs', ch)
  BY DEF BackInv
<1>3. ch \in wanted /\ Alive(pipe, subs, ch)
  BY DEF WsInv, BackInv, Subscribing
<1>4. CASE pipe' = pipe
  BY <1>3, <1>4
<1>5. CASE pipe' = Append(pipe, UNSUB(x)) /\ listeners'[x] = {}
  <2>1. UNSUB(x).ch # ch
    BY <1>1, <1>5
  <2>2. Alive(Append(pipe, UNSUB(x)), subs, ch)
    BY <1>1, <1>3, <2>1, AliveAppended
  <2> QED
    BY <1>3, <1>5, <2>2
<1> QED
  BY <1>2, <1>4, <1>5

LEMMA UnsubscribeBack ==
  ASSUME WsInv, NEW c \in Conns, Unsubscribe(c) \/ UnsubscribeCall(c) \/ RemoveChannel(c)
  PROVE  BackInv'
<1>1. CASE Unsubscribe(c)
  <2>1. /\ UNCHANGED <<wanted, pipe, subs>> /\ lock = NoOne
        /\ listeners' = Drop(c, conn[c].ask) /\ conn[c].ask \in Chans
        /\ orphaned' = Listened(orphaned, listeners')
    BY <1>1 DEF Unsubscribe, redis, LockFree, At, WsInv, BookInv, AskInv, Asking
  <2>2. /\ \A ch \in Chans : listeners'[ch] # {} => listeners[ch] # {}
        /\ \A ch \in orphaned : listeners'[ch] # {} => ch \in orphaned'
    BY <2>1 DEF Drop, Listened, WsInv, BookInv, Shape
  <2>3. \A d \in Conns : conn[d].pc # "subscribing"
    BY <2>1, WsAssumption DEF WsInv, BookInv, LockInv, InCall
  <2> QED
    BY <2>1, <2>2, <2>3, DropBack
<1>2. CASE UnsubscribeCall(c)
  <2>1. /\ UNCHANGED <<listeners, orphaned, wanted, subs>> /\ conn[c].ask \in Chans
        /\ listeners[conn[c].ask] = {} /\ conn[c].pc = "unsubscribing"
        /\ Send("UNSUB", conn[c].ask) \/ UNCHANGED pipe
    BY <1>2 DEF UnsubscribeCall, At, WsInv, BookInv, AskInv, Asking, CallInv
  <2>2. \A d \in Conns : conn[d].pc # "subscribing"
    BY <2>1 DEF WsInv, BookInv, LockInv, InCall
  <2> QED
    BY <2>1, <2>2, DropBack
<1>3. CASE RemoveChannel(c)
  <2>1. conn[c].pc = "removing" /\ UNCHANGED <<wanted, subs>>
    BY <1>3 DEF RemoveChannel, At
  <2>2. PICK ch \in conn[c].channels :
          /\ listeners' = Drop(c, ch) /\ orphaned' = Listened(orphaned, listeners')
          /\ \/ LastListener(Drop(c, ch), ch) /\ Send("UNSUB", ch)
             \/ UNCHANGED pipe
    BY <1>3 DEF RemoveChannel
  <2>3. ch \in Chans
    BY <2>2 DEF WsInv, BookInv, Shape
  <2>4. /\ \A d \in Chans : listeners'[d] # {} => listeners[d] # {}
        /\ \A d \in orphaned : listeners'[d] # {} => d \in orphaned'
    BY <2>2 DEF Drop, Listened, WsInv, BookInv, Shape
  <2>5. \A d \in Conns : conn[d].pc # "subscribing"
    BY <2>1 DEF WsInv, BookInv, LockInv, InCall
  <2>6. (Send("UNSUB", ch) /\ listeners'[ch] = {}) \/ UNCHANGED pipe
    BY <2>2 DEF LastListener
  <2> QED
    BY <2>1, <2>3, <2>4, <2>5, <2>6, DropBack
<1> QED
  BY <1>1, <1>2, <1>3

LEMMA RedisReadsBack == ASSUME WsInv, RedisReads PROVE BackInv'
<1>1. /\ UNCHANGED <<conn, listeners, orphaned>> /\ pipe \in Seq(Cmd) /\ pipe # <<>> /\ pipe' = Tail(pipe)
      /\ Head(pipe) \in Cmd
  BY HeadTailProperties DEF RedisReads, book, WsInv, BookInv, Shape
<1>2. \A ch \in Chans : Subscribing(ch)' = Subscribing(ch)
  BY <1>1 DEF Subscribing
<1>3. \A ch : Head(pipe) = SUB(ch) => ch \in subs'
  BY <1>1 DEF RedisReads, SUB
<1>4. \A ch : Head(pipe) # SUB(ch) /\ Head(pipe) # UNSUB(ch) /\ ch \in subs => ch \in subs'
  BY <1>1 DEF RedisReads, SUB, UNSUB, Cmd
<1>5. \A ch \in wanted : (Head(pipe) = UNSUB(ch) => SUB(ch) \in ToSet(Tail(pipe)))
                            => ch \in wanted'
  BY <1>1 DEF RedisReads, SUB, UNSUB, Cmd
<1>6. ASSUME NEW ch \in Chans, ch \in wanted, Alive(pipe, subs, ch)
      PROVE  ch \in wanted' /\ Alive(pipe', subs', ch)
  <2>1. /\ Alive(Tail(pipe), subs', ch)
        /\ Head(pipe) = UNSUB(ch) => SUB(ch) \in ToSet(Tail(pipe))
    BY <1>1, <1>3, <1>4, <1>6, AliveRead
  <2> QED
    BY <1>1, <1>5, <1>6, <2>1
<1> QED
  BY <1>1, <1>2, <1>6 DEF WsInv, BackInv

LEMMA ReconnectBack == ASSUME WsInv, Reconnect PROVE BackInv'
<1>1. /\ UNCHANGED <<conn, listeners, orphaned, wanted>> /\ subs' = wanted /\ pipe' = <<>>
  BY DEF Reconnect, book
<1>2. \A ch \in Chans : Subscribing(ch)' = Subscribing(ch)
  BY <1>1 DEF Subscribing
<1>3. \A ch \in wanted : Alive(pipe', subs', ch)
  BY <1>1 DEF Alive
<1> QED
  BY <1>1, <1>2, <1>3 DEF WsInv, BackInv

LEMMA WsStep == WsInv /\ [Next]_vars => WsInv'
<1> SUFFICES ASSUME WsInv, [Next]_vars PROVE BackInv'
  BY BookStep DEF WsInv
<1>1. CASE UNCHANGED vars
  BY <1>1, AsideBack DEF vars, WsInv
<1>2. ASSUME NEW c \in Conns, Handler(c) \/ Client(c) PROVE BackInv'
  BY <1>2, MovingBack, SubscribeBack, SubscribeCallBack, UnsubscribeBack DEF Handler, Client
<1>3. CASE Listener \/ \E ch \in Chans : Publish(ch)
  BY <1>3, ListenerBook, PublishBook, AsideBack DEF WsInv
<1>4. CASE RedisReads \/ Reconnect
  BY <1>4, RedisReadsBack, ReconnectBack
<1> QED
  BY <1>1, <1>2, <1>3, <1>4 DEF Next

\* Whoever was told he is subscribed has his topic subscribed in Redis, or its
\* SUBSCRIBE under way with no UNSUBSCRIBE behind it, unless that topic's own
\* SUBSCRIBE raised while it keeps a listener: joins, leaves, disconnections,
\* lost connections and failing commands in any order, of any number of
\* clients and topics.
THEOREM AckedStaysBacked == Spec => []AckedIsBacked
<1>1. WsInv => AckedIsBacked
  <2> SUFFICES ASSUME WsInv, NEW c \in Conns, NEW ch \in acked[c] \ orphaned,
                      ~At(c, "unsubscribing"), ~At(c, "unsubscribed")
               PROVE  /\ ch \in wanted
                      /\ \/ SUB(ch) \in ToSet(pipe)
                         \/ ch \in subs /\ UNSUB(ch) \notin ToSet(pipe)
    BY DEF AckedIsBacked, Backed, SUB, UNSUB
  <2>1. ch \in Chans /\ c \in listeners[ch]
    BY DEF WsInv, BookInv, AckInv, At, Mirrored, Shape
  <2>2. ~Subscribing(ch)
    BY <2>1 DEF Subscribing, WsInv, BookInv, CallInv
  <2>3. ch \in wanted /\ Alive(pipe, subs, ch)
    BY <2>1, <2>2 DEF WsInv, BackInv
  <2>4. \A x : x \in ToSet(pipe) <=> \E i \in DOMAIN pipe : pipe[i] = x
    BY DEF ToSet
  <2> QED
    BY <2>3, <2>4 DEF Alive
<1>2. Init => BackInv
  BY DEF Init, BackInv
<1>3. Init => WsInv
  BY <1>2, BookInit DEF WsInv
<1> QED
  BY <1>1, <1>3, WsStep, PTL DEF Spec
=============================================================================
