------------------------------- MODULE Streams -------------------------------
(***************************************************************************)
(* The ticker streams: one reconnecting task per market on the event loop, *)
(* each feeding the in-memory hub of its market, and the manager that      *)
(* starts and stops them with the engine.                                  *)
(*                                                                         *)
(* A quote is the number of times the price has moved; 0 is "no ticker     *)
(* yet".  Delays are counted in seconds.                                   *)
(***************************************************************************)
EXTENDS Integers

CONSTANTS
  Links,       \* the streams: spot and futures
  FirstDelay,  \* _INITIAL_BACKOFF
  MaxDelay,    \* _MAX_BACKOFF
  MaxQuotes    \* bound: price moves of one market

ASSUME StreamDelaysAssumption ==
  FirstDelay \in Nat \ {0} /\ MaxDelay \in Nat /\ FirstDelay <= MaxDelay
ASSUME StreamQuotesAssumption == MaxQuotes \in Nat \ {0}

VARIABLES
  manager,    \* "new", "started", "stopping" or "stopped"
  link,       \* link[s]: where the task of stream s is
  wanted,     \* wanted[s]: _running, cleared by stop()
  delay,      \* delay[s]: the backoff the next sleep takes
  calm,       \* the exchange accepts connections and keeps them
  quote,      \* quote[s]: what the exchange quotes
  snapshot    \* snapshot[s]: the hub's latest ticker, 0 when it has none

streamVars == <<manager, link, wanted, delay, calm, quote, snapshot>>

StreamInit ==
  /\ manager = "new" /\ calm \in BOOLEAN
  /\ link = [s \in Links |-> "none"]
  /\ wanted = [s \in Links |-> FALSE]
  /\ delay = [s \in Links |-> FirstDelay]
  /\ quote = [s \in Links |-> 1]
  /\ snapshot = [s \in Links |-> 0]

----------------------------------------------------------------------------
\* The exchange.

Weather == calm' = ~calm
           /\ UNCHANGED <<manager, link, wanted, delay, quote, snapshot>>

QuoteMoves(s) ==
  /\ quote[s] < MaxQuotes
  /\ quote' = [quote EXCEPT ![s] = @ + 1]
  /\ UNCHANGED <<manager, link, wanted, delay, calm, snapshot>>

----------------------------------------------------------------------------
\* StreamManager.

StartStreams ==
  /\ manager = "new"
  /\ manager' = "started"
  /\ link' = [s \in Links |-> "created"]
  /\ UNCHANGED <<wanted, delay, calm, quote, snapshot>>

\* stop() clears _running and cancels every task before it first awaits.
StopStreams ==
  /\ manager = "started"
  /\ manager' = "stopping"
  /\ wanted' = [s \in Links |-> FALSE]
  /\ UNCHANGED <<link, delay, calm, quote, snapshot>>

\* gather returns once every task is done.
StreamsStopped ==
  /\ manager = "stopping" /\ \A s \in Links : link[s] = "ended"
  /\ manager' = "stopped"
  /\ UNCHANGED <<link, wanted, delay, calm, quote, snapshot>>

----------------------------------------------------------------------------
\* ReconnectingStream.run, one action from await to await.  A cancelled task does
\* not go on from the await it is in.

Uncancelled == manager = "started"

BeginRun(s) ==
  /\ Uncancelled /\ link[s] = "created"
  /\ wanted' = [wanted EXCEPT ![s] = TRUE]
  /\ link' = [link EXCEPT ![s] = "connecting"]
  /\ delay' = [delay EXCEPT ![s] = FirstDelay]
  /\ UNCHANGED <<manager, calm, quote, snapshot>>

Connected(s) ==
  /\ Uncancelled /\ link[s] = "connecting" /\ calm
  /\ link' = [link EXCEPT ![s] = "open"]
  /\ delay' = [delay EXCEPT ![s] = FirstDelay]
  /\ UNCHANGED <<manager, wanted, calm, quote, snapshot>>

\* TickerHub.handle: the ticker replaces the one the hub has.
Receive(s) ==
  /\ Uncancelled /\ link[s] = "open" /\ wanted[s]
  /\ snapshot' = [snapshot EXCEPT ![s] = quote[s]]
  /\ UNCHANGED <<manager, link, wanted, delay, calm, quote>>

DropEnds(s) ==
  /\ Uncancelled /\ link[s] \in {"connecting", "open"} /\ ~calm
  /\ link' = [link EXCEPT ![s] = "ended"]
  /\ UNCHANGED <<manager, wanted, delay, calm, quote, snapshot>>

\* A refused connect, a connection that breaks or ends, or a message that handle
\* cannot parse: the task sleeps.
Drop(s) ==
  /\ Uncancelled /\ link[s] \in {"connecting", "open"} /\ ~calm
  /\ link' = [link EXCEPT ![s] = "sleeping"]
  /\ UNCHANGED <<manager, wanted, delay, calm, quote, snapshot>>

\* min(backoff * 2, _MAX_BACKOFF).
Doubled(d) == IF 2 * d < MaxDelay THEN 2 * d ELSE MaxDelay

\* The sleep of delay[s] seconds is over.
Wake(s) ==
  /\ Uncancelled /\ link[s] = "sleeping" /\ wanted[s]
  /\ link' = [link EXCEPT ![s] = "connecting"]
  /\ delay' = [delay EXCEPT ![s] = Doubled(@)]
  /\ UNCHANGED <<manager, wanted, calm, quote, snapshot>>

\* CancelledError is no Exception: it leaves run from wherever the task waits.
Cancelled(s) ==
  /\ manager = "stopping" /\ link[s] # "ended"
  /\ link' = [link EXCEPT ![s] = "ended"]
  /\ UNCHANGED <<manager, wanted, delay, calm, quote, snapshot>>

StreamStep(s) ==
  BeginRun(s) \/ Connected(s) \/ Receive(s) \/ Drop(s) \/ Wake(s) \/ Cancelled(s)

StreamNext ==
  \/ Weather \/ StartStreams \/ StopStreams \/ StreamsStopped
  \/ \E s \in Links : QuoteMoves(s) \/ StreamStep(s)

StreamSpec == StreamInit /\ [][StreamNext]_streamVars

\* The event loop runs every task that can go on: connects answer or time out,
\* sleeps end, a calm exchange sends a ticker every second.
StreamTask(s) == BeginRun(s) \/ Connected(s) \/ Drop(s) \/ Wake(s) \/ Cancelled(s)
StreamFairness ==
  /\ WF_streamVars(StreamsStopped)
  /\ \A s \in Links : WF_streamVars(StreamTask(s)) /\ WF_streamVars(Receive(s))

----------------------------------------------------------------------------
Managers == {"new", "started", "stopping", "stopped"}
LinkStates == {"none", "created", "connecting", "open", "sleeping", "ended"}

\* Every variable stays in its domain, and no hub is ahead of its market.
StreamTypeOK ==
  /\ manager \in Managers /\ calm \in BOOLEAN
  /\ link \in [Links -> LinkStates] /\ wanted \in [Links -> BOOLEAN]
  /\ delay \in [Links -> FirstDelay..MaxDelay]
  /\ quote \in [Links -> 1..MaxQuotes]
  /\ \A s \in Links : snapshot[s] \in 0..quote[s]

\* "If a stream drops it reconnects, so the snapshot self-heals": under a manager
\* that is not stopped, an exchange that stays calm is quoted right in the end,
\* whatever was refused, broken or garbled before.
SnapshotsHeal ==
  \A s \in Links :
    (<>[](calm /\ manager = "started")) => <>[](snapshot[s] = quote[s])
=============================================================================
