------------------------------- MODULE Broker --------------------------------
(***************************************************************************)
(* The client of the message broker: mq/rabbit/client.go.                  *)
(*                                                                         *)
(* One goroutine, the listener, reads every delivery of the node's queue   *)
(* and hands it to the buffered channel of the stream it belongs to.  The  *)
(* channel of a stream whose consumer does not read is waited on once and  *)
(* then skipped.  The same goroutine makes the connection again when it is *)
(* lost.  Every connection also has a goroutine of its own that reads the  *)
(* messaging gateway's queue.                                              *)
(*                                                                         *)
(* A message is the name of its stream.  Heartbeats and messages that do   *)
(* not parse belong to none.  The broker and the network are external:     *)
(* they deliver, break the connection and refuse to make it.               *)
(***************************************************************************)
EXTENDS Naturals, Sequences, FiniteSets

CONSTANTS
    Buffer,       \* places of a stream's channel (100)
    MaxAttempts,  \* MAX_ATTEMPTS_CONNECT (100)
    Delivered,    \* the messages the broker delivers
    MaxMessages,  \* bound on the deliveries
    MaxLosses     \* bound on the connections that are lost

(* The streams of the listener, and the messages of the gateway's queue. *)
Listened == {"call", "chat", "system_setting"}
Streams == Listened \cup {"im"}
ImMessages == {"message", "echo", "transfer", "control"}

ASSUME BrokerAssumption ==
    /\ Buffer \in Nat \ {0} /\ MaxAttempts \in Nat \ {0}
    /\ Delivered \subseteq Listened \cup ImMessages \cup {"other"}
    /\ MaxMessages \in Nat /\ MaxLosses \in Nat

VARIABLES
    useIM,      \* settings.UseIM
    link,       \* the connection: none, up, lost, closed
    number,     \* the number of the current connection
    notified,   \* errorChan reports the end of the current channel
    tries,      \* connectionAttempts
    refused,    \* dials refused in a row
    listener,   \* where the listener is, and the stream it waits for
    delivery,   \* the deliveries of the current connection, not yet read
    buffered,   \* messages in the channel of each stream
    stalled,    \* callStalled, chatStalled, imStalled, systemSettingStalled
    waits,      \* waits on a stream since it last took a message
    reading,    \* the consumer of a stream reads its channel
    readers,    \* the reader of the gateway's queue of each connection
    sent,       \* messages delivered so far
    closing,    \* Close was called
    broker      \* the process: up, exit, or gave up to connect

connection == <<useIM, link, number, notified, tries, refused>>
channels == <<buffered, stalled, waits>>
around == <<reading, sent, closing, broker>>
brokerVars == <<connection, listener, delivery, channels, readers, around>>

Readers == 1..(MaxLosses + 1)
Running == broker = "up"
At(p) == Running /\ listener.at = p
Goes(p) == listener' = [at |-> p, stream |-> "none"]

BrokerTypeOK ==
    /\ useIM \in BOOLEAN /\ notified \in BOOLEAN /\ closing \in BOOLEAN
    /\ link \in {"none", "up", "lost", "closed"}
    /\ listener.at \in {"dial", "channel", "exchange", "connect", "notify", "im", "select", "wait", "over"}
    /\ tries \in 0..MaxAttempts /\ refused \in 0..MaxAttempts
    /\ \A i \in DOMAIN delivery : delivery[i] \in Listened \cup {"other"}
    /\ buffered \in [Streams -> 0..Buffer]
    /\ stalled \in [Streams -> BOOLEAN] /\ reading \in [Streams -> BOOLEAN]
    /\ waits \in [Streams -> Nat]
    /\ \A r \in Readers : readers[r].at \in {"none", "range", "wait", "send", "over"}
    /\ number \in 0..(MaxLosses + 1) /\ sent \in 0..MaxMessages
    /\ broker \in {"up", "exit", "gave up"}

(* NewRabbitMQ makes the connection before it starts the listener. *)
BrokerInit ==
    /\ useIM \in BOOLEAN
    /\ link = "none" /\ number = 0 /\ notified = FALSE
    /\ tries = 0 /\ refused = 0
    /\ listener = [at |-> "dial", stream |-> "none"]
    /\ delivery = <<>>
    /\ buffered = [s \in Streams |-> 0] /\ stalled = [s \in Streams |-> FALSE]
    /\ waits = [s \in Streams |-> 0] /\ reading = [s \in Streams |-> TRUE]
    /\ readers = [r \in Readers |-> [at |-> "none", msgs |-> <<>>]]
    /\ sent = 0 /\ closing = FALSE /\ broker = "up"

-----------------------------------------------------------------------------
(* enqueue.  A channel with a free place takes the message; a full one of  *)
(* a stalled stream loses it; any other full channel is waited on.         *)

Accepts(s) == buffered[s] < Buffer
Put(s) ==
    /\ Accepts(s)
    /\ buffered' = [buffered EXCEPT ![s] = @ + 1]
    /\ waits' = [waits EXCEPT ![s] = 0]

Hand(s) == Put(s) /\ stalled' = [stalled EXCEPT ![s] = FALSE]
Skip(s) == ~Accepts(s) /\ stalled[s] /\ UNCHANGED channels
StartWait(s) ==
    /\ ~Accepts(s) /\ ~stalled[s]
    /\ waits' = [waits EXCEPT ![s] = @ + 1]
    /\ UNCHANGED <<buffered, stalled>>

(* The second select: the consumer reads in time, or the timer fires. *)
WaitedSend(s) == Put(s) /\ UNCHANGED stalled
MutNoTimer(s) == FALSE /\ UNCHANGED channels
MutNotStalled(s) == UNCHANGED channels
TimerFires(s) == stalled' = [stalled EXCEPT ![s] = TRUE] /\ UNCHANGED <<buffered, waits>>

-----------------------------------------------------------------------------
(* listen. *)

(* readMessage, and readChatEvent: what parses goes to its stream. *)
ReadMessage ==
    /\ At("select") /\ delivery # <<>>
    /\ delivery' = Tail(delivery)
    /\ LET s == Head(delivery)
       IN \/ s = "other" /\ UNCHANGED <<listener, channels>>
          \/ s # "other" /\ (Hand(s) \/ Skip(s)) /\ UNCHANGED listener
          \/ s # "other" /\ StartWait(s) /\ listener' = [at |-> "wait", stream |-> s]
    /\ UNCHANGED <<connection, readers, around>>

EnqueueWaits ==
    /\ At("wait")
    /\ WaitedSend(listener.stream) \/ TimerFires(listener.stream)
    /\ Goes("select")
    /\ UNCHANGED <<connection, delivery, readers, around>>

(* The error channel reports the lost connection: initConnection. *)
ReceiveError ==
    /\ At("select") /\ link = "lost" /\ notified
    /\ Goes("dial")
    /\ UNCHANGED <<connection, delivery, channels, readers, around>>

MutReceiveStop == FALSE /\ UNCHANGED brokerVars
ReceiveStop ==
    /\ At("select") /\ closing
    /\ Goes("over")
    /\ UNCHANGED <<connection, delivery, channels, readers, around>>

-----------------------------------------------------------------------------
(* initConnection: dial, open a channel, declare the exchanges, consume,   *)
(* ask for the channel's end to be reported, read the gateway's queue.     *)

DialRefused ==
    /\ At("dial") /\ tries < MaxAttempts
    /\ tries' = tries + 1 /\ refused' = refused + 1
    /\ UNCHANGED <<useIM, link, number, notified, listener, delivery, channels, readers, around>>

GivesUp ==
    /\ At("dial") /\ tries >= MaxAttempts
    /\ broker' = "gave up"
    /\ UNCHANGED <<connection, listener, delivery, channels, readers, reading, sent, closing>>

MutTriesAfterDial == tries + 1
TriesAfterDial == 0
Dialled ==
    /\ At("dial") /\ tries < MaxAttempts
    /\ tries' = TriesAfterDial /\ refused' = 0
    /\ link' = "up" /\ number' = number + 1
    /\ Goes("channel")
    /\ UNCHANGED <<useIM, notified, delivery, channels, readers, around>>

(* Each call on the channel fails when the connection is lost, and may     *)
(* fail anyhow: the process exits, or panics.                              *)
SetupFails ==
    /\ \E p \in {"channel", "exchange", "connect", "im"} : At(p)
    /\ broker' = "exit"
    /\ UNCHANGED <<connection, listener, delivery, channels, readers, reading, sent, closing>>

OpenChannel ==
    /\ At("channel") /\ link = "up"
    /\ Goes("exchange")
    /\ UNCHANGED <<connection, delivery, channels, readers, around>>

InitExchange ==
    /\ At("exchange") /\ link = "up"
    /\ Goes("connect")
    /\ UNCHANGED <<connection, delivery, channels, readers, around>>

(* connect: the queue, its bindings and a new delivery channel. *)
ConnectQueue ==
    /\ At("connect") /\ link = "up"
    /\ delivery' = <<>>
    /\ Goes("notify")
    /\ UNCHANGED <<connection, channels, readers, around>>

(* NotifyClose on a channel that is closed already closes the error        *)
(* channel: the listener never hears of that loss.                         *)
MutNotifies == FALSE
Notifies == link = "up"
NotifyClose ==
    /\ At("notify")
    /\ notified' = Notifies
    /\ Goes(IF useIM THEN "im" ELSE "select")
    /\ UNCHANGED <<useIM, link, number, tries, refused, delivery, channels, readers, around>>

SubscribeIM ==
    /\ At("im") /\ link = "up"
    /\ readers' = [readers EXCEPT ![number].at = "range"]
    /\ Goes("select")
    /\ UNCHANGED <<connection, delivery, channels, around>>

-----------------------------------------------------------------------------
(* The readers of the gateway's queue.  A transfer is sent without the     *)
(* timer; echoes are not passed on.                                        *)

Moves(r, p) == readers' = [readers EXCEPT ![r] = [at |-> p, msgs |-> Tail(@.msgs)]]

ReadIM(r) ==
    /\ Running /\ readers[r].at = "range" /\ readers[r].msgs # <<>>
    /\ LET m == Head(readers[r].msgs)
       IN \/ m = "echo" /\ Moves(r, "range") /\ UNCHANGED channels
          \/ m \in {"message", "control"} /\ (Hand("im") \/ Skip("im")) /\ Moves(r, "range")
          \/ m \in {"message", "control"} /\ StartWait("im") /\ Moves(r, "wait")
          \/ m = "transfer" /\ Moves(r, "send") /\ UNCHANGED channels
    /\ UNCHANGED <<connection, listener, delivery, around>>

SendIM(r) ==
    /\ Running
    /\ \/ readers[r].at = "wait" /\ (WaitedSend("im") \/ TimerFires("im"))
       \/ readers[r].at = "send" /\ WaitedSend("im")
    /\ readers' = [readers EXCEPT ![r].at = "range"]
    /\ UNCHANGED <<connection, listener, delivery, around>>

(* The messages of a lost connection end. *)
MutEndOfMessages(r) == readers[r].msgs = <<>> /\ link = "closed"
EndOfMessages(r) == readers[r].msgs = <<>> /\ (r < number \/ link # "up")
EndIM(r) ==
    /\ Running /\ readers[r].at = "range" /\ EndOfMessages(r)
    /\ readers' = [readers EXCEPT ![r].at = "over"]
    /\ UNCHANGED <<connection, listener, delivery, channels, around>>

-----------------------------------------------------------------------------
(* The broker and the network, the consumers of the streams, and Close. *)

Deliver(m) ==
    /\ Running /\ link = "up" /\ listener.at \in {"select", "wait"} /\ sent < MaxMessages
    /\ sent' = sent + 1
    /\ \/ /\ m \notin ImMessages /\ delivery' = Append(delivery, m) /\ UNCHANGED readers
       \/ /\ m \in ImMessages /\ useIM
          /\ readers' = [readers EXCEPT ![number].msgs = Append(@, m)] /\ UNCHANGED delivery
    /\ UNCHANGED <<connection, listener, channels, reading, closing, broker>>

LoseLink ==
    /\ Running /\ link = "up" /\ number <= MaxLosses
    /\ link' = "lost"
    /\ UNCHANGED <<useIM, number, notified, tries, refused, listener, delivery, channels, readers, around>>

Consume(s) ==
    /\ Running /\ reading[s] /\ buffered[s] > 0
    /\ buffered' = [buffered EXCEPT ![s] = @ - 1]
    /\ UNCHANGED <<connection, listener, delivery, stalled, waits, readers, around>>

(* A consumer gets busy with a message, and is done with it.  The im       *)
(* client only takes locks: it stops reading with the process.             *)
Turns(s) ==
    /\ Running /\ IF s = "im" THEN closing /\ reading[s] ELSE s \in Delivered
    /\ reading' = [reading EXCEPT ![s] = ~@]
    /\ UNCHANGED <<connection, listener, delivery, channels, readers, sent, closing, broker>>

(* Close, once NewRabbitMQ returned. *)
Started == listener.at \in {"select", "wait"} \/ (listener.at = "dial" /\ number > 0) \/ number > 1
Close ==
    /\ Running /\ Started /\ ~closing
    /\ closing' = TRUE
    /\ UNCHANGED <<connection, listener, delivery, channels, readers, reading, sent, broker>>

CloseReturns ==
    /\ At("over") /\ link # "closed"
    /\ link' = "closed"
    /\ UNCHANGED <<useIM, number, notified, tries, refused, listener, delivery, channels, readers, around>>

-----------------------------------------------------------------------------
Listen ==
    \/ ReadMessage \/ EnqueueWaits \/ ReceiveError \/ ReceiveStop
    \/ DialRefused \/ GivesUp \/ Dialled \/ SetupFails
    \/ OpenChannel \/ InitExchange \/ ConnectQueue \/ NotifyClose \/ SubscribeIM
ReaderIM(r) == ReadIM(r) \/ SendIM(r) \/ EndIM(r)

BrokerNext ==
    \/ Listen
    \/ \E r \in Readers : ReaderIM(r)
    \/ \E m \in Delivered : Deliver(m)
    \/ \E s \in Streams : Consume(s) \/ Turns(s)
    \/ LoseLink \/ Close \/ CloseReturns

(* The goroutines run, and a timer fires: nothing more.  The im client     *)
(* reads until it is stopped; no other consumer is taken to read.          *)
BrokerFairness ==
    /\ WF_brokerVars(Listen) /\ WF_brokerVars(CloseReturns)
    /\ \A r \in Readers : WF_brokerVars(ReaderIM(r))
    /\ WF_brokerVars(Consume("im"))

-----------------------------------------------------------------------------
(* "A stalled queue is waited on once, then skipped until it starts        *)
(* draining again" (enqueue): the listener, which everyone shares, waits   *)
(* for a stream at most once between two messages the stream takes.        *)
WaitsOncePerStall == \A s \in Listened : waits[s] <= 1

(* The process gives up the broker only when it was refused MaxAttempts    *)
(* times in a row: an earlier outage does not count against a later one.   *)
GivesUpLast == broker = "gave up" => refused = MaxAttempts

(* No consumer wedges the listener: whatever the consumers do, every       *)
(* delivery is read, until the process ends or the connection is replaced. *)
NeverWedged == (Running /\ delivery # <<>>) ~> (delivery = <<>> \/ ~Running \/ listener.at = "over")

(* With the gateway's queue in use, a lost connection is made again: a     *)
(* loss that NotifyClose missed makes subscribeIM fail, and the process    *)
(* exit, so the listener never goes deaf.                                  *)
Reconnects ==
    (useIM /\ listener.at \in {"select", "wait"} /\ link = "lost")
        ~> (link \in {"up", "closed"} \/ ~Running)

(* Close returns, even when it finds the listener waiting for a consumer   *)
(* or making a connection: it waits for that to end or for the exit.       *)
BrokerCloseEnds == closing ~> (link = "closed" \/ ~Running)

(* The reader of a lost connection ends: a reconnection leaks none. *)
ReadersEnd ==
    \A r \in Readers : (readers[r].at \notin {"none", "over"} /\ r < number)
        ~> (readers[r].at = "over" \/ closing \/ ~Running)
=============================================================================
