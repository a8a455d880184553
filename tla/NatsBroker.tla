----------------------------- MODULE NatsBroker -----------------------------
(***************************************************************************)
(* The NATS client of the relay v3: one connection, one goroutine that     *)
(* reads it, callers that publish, subscribe, ping and close.  Callers and *)
(* the reader share a mutex, but the reader sends to a consumer's channel  *)
(* and a pinger waits for its answer without it.                           *)
(*                                                                         *)
(* A panic (a send on a closed channel, a channel closed twice) ends the   *)
(* process.  The server is the environment: it may answer late, send       *)
(* anything it is allowed to, or hang up.                                  *)
(***************************************************************************)
EXTENDS Naturals, Sequences, FiniteSets

CONSTANTS Consumers,      \* subscriptions, each with its own sid
          Pingers,        \* goroutines that call Ping
          Buffer,         \* capacity of a consumer's channel (1024)
          MaxFrames,      \* bound: frames on their way to the client
          MaxPings        \* bound: calls of Ping

VARIABLES closed,         \* Broker.closed
          sub,            \* state of a subscription
          chan,           \* length of a consumer's channel, and whether it is closed
          pingWait,       \* pingers registered for an answer
          wait,           \* pingers whose channel holds an answer
          ping,           \* what each pinger is doing
          unanswered,     \* PINGs the server has not answered yet
          frames,         \* frames from the server not read yet
          line,           \* "up", "eof" when the server has hung up, "reset" when the line broke
          reader,         \* the read loop: a label and the consumer it found
          panicked,
          userClosed,     \* consumers, or the broker, closed by a caller
          pings,          \* calls of Ping so far
          heard,          \* PONGs read so far
          since           \* heard when a pinger registered

natsVars == <<closed, sub, chan, pingWait, wait, ping, unanswered, frames, line,
              reader, panicked, userClosed, pings, heard, since>>

Reading == [at |-> "read", for |-> "none"]
Stopped == [at |-> "stopped", for |-> "none"]

NatsInit ==
    /\ closed = FALSE
    /\ sub  = [c \in Consumers |-> "none"]
    /\ chan = [c \in Consumers |-> [len |-> 0, closed |-> FALSE]]
    /\ pingWait = {} /\ wait = {}
    /\ ping = [p \in Pingers |-> "idle"]
    /\ unanswered = 0
    /\ frames = <<>>
    /\ line = "up"
    /\ reader = Reading
    /\ panicked = FALSE
    /\ userClosed = {}
    /\ pings = 0 /\ heard = 0
    /\ since = [p \in Pingers |-> 0]

(***************************************************************************)
(* The callers.  A write to a connection the server has left may still     *)
(* succeed; one to a closed connection fails.                              *)
(***************************************************************************)
Subscribe(c) ==
    /\ ~closed /\ sub[c] = "none"
    /\ sub' = [sub EXCEPT ![c] = "open"]
    /\ UNCHANGED <<closed, chan, pingWait, wait, ping, unanswered, frames, line, reader,
                   panicked, userClosed, pings, heard, since>>

Receive(c) ==
    /\ chan[c].len > 0
    /\ chan' = [chan EXCEPT ![c].len = @ - 1]
    /\ UNCHANGED <<closed, sub, pingWait, wait, ping, unanswered, frames, line, reader,
                   panicked, userClosed, pings, heard, since>>

\* Closing a channel that is closed already panics.
CloseChannels(cs) ==
    /\ chan' = [c \in Consumers |-> IF c \in cs THEN [chan[c] EXCEPT !.closed = TRUE] ELSE chan[c]]
    /\ panicked' = (panicked \/ \E c \in cs : chan[c].closed)

\* consumer.Close, at most once per consumer.
ConsumerClose(c) ==
    /\ sub[c] # "none" /\ c \notin userClosed
    /\ userClosed' = userClosed \union {c}
    /\ sub' = [sub EXCEPT ![c] = "gone"]
    /\ CloseChannels({c})
    /\ UNCHANGED <<closed, pingWait, wait, ping, unanswered, frames, line, reader, pings, heard, since>>

\* Broker.Close: every subscription and the connection.
CloseAll ==
    /\ closed' = TRUE
    /\ sub' = [c \in Consumers |-> IF sub[c] = "open" THEN "gone" ELSE sub[c]]
    /\ CloseChannels({c \in Consumers : sub[c] = "open"})

BrokerClose ==
    /\ ~closed
    /\ CloseAll
    /\ userClosed' = userClosed \union {"broker"}
    /\ UNCHANGED <<pingWait, wait, ping, unanswered, frames, line, reader, pings, heard, since>>

\* Faulty variant of Ping: one channel serves all calls of a goroutine.
PingOldChannel(p) ==
    /\ ping[p] = "idle" /\ ~closed /\ pings < MaxPings
    /\ pings' = pings + 1
    /\ pingWait' = pingWait \union {p}
    /\ ping' = [ping EXCEPT ![p] = "waiting"]
    /\ since' = [since EXCEPT ![p] = heard]
    /\ unanswered' = IF line = "up" THEN unanswered + 1 ELSE unanswered
    /\ UNCHANGED <<closed, sub, chan, wait, frames, line, reader, panicked, userClosed, heard>>

\* Register a new channel and ask.
Ping(p) ==
    /\ ping[p] = "idle" /\ ~closed /\ pings < MaxPings
    /\ pings' = pings + 1
    /\ pingWait' = pingWait \union {p}
    /\ ping' = [ping EXCEPT ![p] = "waiting"]
    /\ since' = [since EXCEPT ![p] = heard]
    /\ unanswered' = IF line = "up" THEN unanswered + 1 ELSE unanswered
    /\ wait' = wait \ {p}
    /\ UNCHANGED <<closed, sub, chan, frames, line, reader, panicked, userClosed, heard>>

PingAnswered(p) ==
    /\ ping[p] = "waiting" /\ p \in wait
    /\ ping' = [ping EXCEPT ![p] = "ok"]
    /\ wait' = wait \ {p}
    /\ pingWait' = pingWait \ {p}
    /\ UNCHANGED <<closed, sub, chan, unanswered, frames, line, reader, panicked, userClosed,
                   pings, heard, since>>

\* The two seconds, or the caller's context, are over.
PingTimesOut(p) ==
    /\ ping[p] = "waiting"
    /\ ping' = [ping EXCEPT ![p] = "failed"]
    /\ pingWait' = pingWait \ {p}
    /\ UNCHANGED <<closed, sub, chan, wait, unanswered, frames, line, reader, panicked, userClosed,
                   pings, heard, since>>

PingReturns(p) ==
    /\ ping[p] \in {"ok", "failed"}
    /\ ping' = [ping EXCEPT ![p] = "idle"]
    /\ UNCHANGED <<closed, sub, chan, pingWait, wait, unanswered, frames, line, reader, panicked,
                   userClosed, pings, heard, since>>

(***************************************************************************)
(* The server.                                                             *)
(***************************************************************************)
Send(f) == line = "up" /\ ~closed /\ Len(frames) < MaxFrames /\ frames' = Append(frames, f)

ServerPong ==
    /\ unanswered > 0
    /\ Send([kind |-> "PONG", for |-> "none"])
    /\ unanswered' = unanswered - 1
    /\ UNCHANGED <<closed, sub, chan, pingWait, wait, ping, line, reader, panicked, userClosed,
                   pings, heard, since>>

ServerSends ==
    /\ \/ \E kind \in {"ERR", "PING"} : Send([kind |-> kind, for |-> "none"])
       \/ \E c \in Consumers : sub[c] # "none" /\ Send([kind |-> "MSG", for |-> c])
    /\ UNCHANGED <<closed, sub, chan, pingWait, wait, ping, unanswered, line, reader, panicked,
                   userClosed, pings, heard, since>>

HangUp ==
    /\ line = "up" /\ line' \in {"eof", "reset"}
    /\ UNCHANGED <<closed, sub, chan, pingWait, wait, ping, unanswered, frames, reader, panicked,
                   userClosed, pings, heard, since>>

(***************************************************************************)
(* The read loop.                                                          *)
(***************************************************************************)
HasFrame(kind) == reader.at = "read" /\ ~closed /\ frames # <<>> /\ Head(frames).kind = kind

\* A PONG answers every pinger that waits, not only the one that asked.
ReadPong ==
    /\ HasFrame("PONG")
    /\ wait' = wait \union pingWait
    /\ pingWait' = {}
    /\ heard' = heard + 1
    /\ frames' = Tail(frames)
    /\ UNCHANGED <<closed, sub, chan, ping, unanswered, line, reader, panicked, userClosed, pings, since>>

\* The server's PING is answered at once.
ReadPing ==
    /\ HasFrame("PING")
    /\ frames' = Tail(frames)
    /\ UNCHANGED <<closed, sub, chan, pingWait, wait, ping, unanswered, line, reader, panicked,
                   userClosed, pings, heard, since>>

\* handleMsg: look the subscription up under the mutex, and let it go.
ReadMsg ==
    /\ HasFrame("MSG")
    /\ frames' = Tail(frames)
    /\ reader' = IF sub[Head(frames).for] = "open"
                 THEN [at |-> "deliver", for |-> Head(frames).for] ELSE Reading
    /\ UNCHANGED <<closed, sub, chan, pingWait, wait, ping, unanswered, line, panicked, userClosed,
                   pings, heard, since>>

\* The send: to a closed channel it panics, to a full one it is dropped.
Deliver ==
    LET c == reader.for IN
    /\ reader.at = "deliver"
    /\ panicked' = (panicked \/ chan[c].closed)
    /\ chan' = IF chan[c].closed \/ chan[c].len >= Buffer THEN chan
               ELSE [chan EXCEPT ![c].len = @ + 1]
    /\ reader' = Reading
    /\ UNCHANGED <<closed, sub, pingWait, wait, ping, unanswered, frames, line, userClosed, pings,
                   heard, since>>

\* Faulty variant of ReadErr: the loop goes on after Close.
ReadErrGoesOn ==
    /\ HasFrame("ERR")
    /\ frames' = Tail(frames)
    /\ CloseChannels({c \in Consumers : sub[c] = "open"})
    /\ UNCHANGED <<closed, sub, pingWait, wait, ping, unanswered, line, reader, userClosed, pings,
                   heard, since>>

\* -ERR, a message that does not parse, or a read that fails: Close, and the loop ends.
ReadErr ==
    /\ \/ HasFrame("ERR") /\ frames' = Tail(frames)
       \/ reader.at = "read" /\ ~closed /\ frames = <<>> /\ line = "reset" /\ UNCHANGED frames
    /\ CloseAll
    /\ reader' = Stopped
    /\ UNCHANGED <<pingWait, wait, ping, unanswered, line, userClosed, pings, heard, since>>

\* The end of the stream: the loop ends, and nothing is closed.
ReadEOF ==
    /\ reader.at = "read" /\ ~closed /\ frames = <<>> /\ line = "eof"
    /\ reader' = Stopped
    /\ UNCHANGED <<closed, sub, chan, pingWait, wait, ping, unanswered, frames, line, panicked,
                   userClosed, pings, heard, since>>

\* The connection was closed under the reader.
ReadClosed ==
    /\ reader.at = "read" /\ closed
    /\ reader' = Stopped
    /\ UNCHANGED <<closed, sub, chan, pingWait, wait, ping, unanswered, frames, line, panicked,
                   userClosed, pings, heard, since>>

NatsNext ==
    /\ ~panicked
    /\ \/ \E c \in Consumers : Subscribe(c) \/ Receive(c) \/ ConsumerClose(c)
       \/ BrokerClose
       \/ \E p \in Pingers : Ping(p) \/ PingAnswered(p) \/ PingTimesOut(p) \/ PingReturns(p)
       \/ ServerPong \/ ServerSends \/ HangUp
       \/ ReadPong \/ ReadPing \/ ReadMsg \/ Deliver \/ ReadErr \/ ReadEOF \/ ReadClosed

NatsSpec == NatsInit /\ [][NatsNext]_natsVars

------------------------------------------------------------------------------
NatsTypeOK ==
    /\ \A c \in Consumers : sub[c] \in {"none", "open", "gone"} /\ chan[c].len \in 0..Buffer
    /\ pingWait \subseteq Pingers /\ wait \subseteq Pingers
    /\ ping \in [Pingers -> {"idle", "waiting", "ok", "failed"}]
    /\ unanswered \in 0..MaxPings /\ Len(frames) <= MaxFrames
    /\ reader.at \in {"read", "deliver", "stopped"}

\* A Ping that succeeds was answered by a PONG read after it registered, also
\* when earlier ones timed out and their PONGs arrive late: health never
\* reports a connection that has been silent since the question.
PingHeardSomething == \A p \in Pingers : ping[p] = "ok" => heard > since[p]

\* The client does not panic by itself, whatever the server sends and
\* whenever it hangs up: a panic takes a Close by a caller.
PanicNeedsClose == panicked => userClosed # {}
=============================================================================
