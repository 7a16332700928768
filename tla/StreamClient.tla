---------------------------- MODULE StreamClient ----------------------------
(***************************************************************************)
(* The command line's event stream client: one connection after the other, *)
(* with a budget of retries and a growing delay, each asking for what      *)
(* follows the last event seen.                                            *)
(***************************************************************************)
EXTENDS Integers

CONSTANTS MaxRetries,     \* -1 for no limit
          FirstDelay, LastDelay,  \* initial and maximal interval, in ms
          MaxIDs          \* bound on event ids

ASSUME ClientAssumption ==
  MaxRetries \in Int /\ FirstDelay \in Nat \ {0} /\ LastDelay \in Nat /\ MaxIDs \in Nat

VARIABLES phase,        \* "connect", "read", "ended", or how Stream returned
          lastEventID,  \* cursor of the next request
          connID,       \* cursor of the connection's result
          sawEvent, retries,
          interval,     \* of the backoff, before jitter
          reachable,    \* the server answers
          newest,       \* newest event id of the stream
          barren        \* connections in a row that brought no event

clientVars == <<phase, lastEventID, connID, sawEvent, retries, interval, reachable, newest, barren>>

Returned == {"done", "refused", "handler", "idle", "cancelled", "exhausted"}

ClientInit ==
  /\ phase = "connect" /\ lastEventID = 0 /\ connID = 0 /\ sawEvent = FALSE
  /\ retries = 0 /\ interval = FirstDelay /\ reachable = TRUE /\ newest = 0 /\ barren = 0

\* The request fails, is answered with another status, or is accepted.
ConnectFails ==
  /\ phase = "connect" /\ ~reachable
  /\ phase' = "ended" /\ sawEvent' = FALSE /\ connID' = lastEventID
  /\ UNCHANGED <<lastEventID, retries, interval, reachable, newest, barren>>

ConnectRefused ==
  /\ phase = "connect" /\ reachable
  /\ phase' = "refused"
  /\ UNCHANGED <<lastEventID, connID, sawEvent, retries, interval, reachable, newest, barren>>

ConnectOK ==
  /\ phase = "connect" /\ reachable
  /\ phase' = "read" /\ sawEvent' = FALSE /\ connID' = lastEventID
  /\ UNCHANGED <<lastEventID, retries, interval, reachable, newest, barren>>

\* An event behind the cursor, or one without an id; the handler may end it.
ReadEvent ==
  /\ phase = "read" /\ reachable
  /\ sawEvent' = TRUE
  /\ \E id \in (connID + 1)..newest \cup {0} :
       connID' = IF id > 0 THEN id ELSE connID
  /\ phase' \in {"read", "done", "handler"}
  /\ UNCHANGED <<lastEventID, retries, interval, reachable, newest, barren>>

IdleTimeout ==
  /\ phase = "read" /\ phase' = "idle"
  /\ UNCHANGED <<lastEventID, connID, sawEvent, retries, interval, reachable, newest, barren>>

\* End of the stream or a read error.
ConnectionEnds ==
  /\ phase = "read" /\ phase' = "ended"
  /\ UNCHANGED <<lastEventID, connID, sawEvent, retries, interval, reachable, newest, barren>>

\* Mutant: the cursor of the first connection is sent again.
ReconnectKeepsCursor ==
  /\ phase = "ended"
  /\ LET used == IF sawEvent THEN 0 ELSE retries
     IN  IF MaxRetries >= 0 /\ used >= MaxRetries
         THEN phase' = "exhausted" /\ retries' = used /\ UNCHANGED interval
         ELSE /\ phase' = "connect" /\ retries' = used + 1 /\ UNCHANGED interval
  /\ barren' = IF sawEvent THEN 0 ELSE barren + 1
  /\ UNCHANGED <<lastEventID, connID, sawEvent, reachable, newest>>

\* Stream's loop and backoffOrFail: an event renews the budget and the delay.
Reconnect ==
  /\ phase = "ended"
  /\ lastEventID' = connID
  /\ barren' = IF sawEvent THEN 0 ELSE barren + 1
  /\ LET used == IF sawEvent THEN 0 ELSE retries
         base == IF sawEvent THEN FirstDelay ELSE interval
     IN  IF MaxRetries >= 0 /\ used >= MaxRetries
         THEN phase' = "exhausted" /\ retries' = used /\ interval' = base
         ELSE /\ phase' = "connect" /\ retries' = used + 1
              /\ interval' = IF 2 * base >= LastDelay THEN LastDelay ELSE 2 * base
  /\ UNCHANGED <<connID, sawEvent, reachable, newest>>

CancelStream ==
  /\ phase \notin Returned /\ phase' = "cancelled"
  /\ UNCHANGED <<lastEventID, connID, sawEvent, retries, interval, reachable, newest, barren>>

\* The server: it goes away and comes back, and publishes.
Outage == reachable' = ~reachable
          /\ UNCHANGED <<phase, lastEventID, connID, sawEvent, retries, interval, newest, barren>>
PublishOne == newest < MaxIDs /\ newest' = newest + 1
              /\ UNCHANGED <<phase, lastEventID, connID, sawEvent, retries, interval, reachable, barren>>

Stream == \/ ConnectFails \/ ConnectRefused \/ ConnectOK \/ ReadEvent \/ IdleTimeout
          \/ ConnectionEnds \/ Reconnect

ClientNext == Stream \/ CancelStream \/ Outage \/ PublishOne

\* The loop goes on; a connection to a server that is gone breaks.
ClientFairness ==
  /\ WF_clientVars(ConnectFails \/ Reconnect)
  /\ WF_clientVars(~reachable /\ ConnectionEnds)

ClientSpec == ClientInit /\ [][ClientNext]_clientVars /\ ClientFairness

-----------------------------------------------------------------------------
(* Properties                                                              *)

\* Stream gives up only after MaxRetries reconnections in a row brought no
\* event, and never tries more often than that.
RetryBudget ==
  MaxRetries >= 0 =>
    /\ phase = "exhausted" => barren >= MaxRetries
    /\ barren <= MaxRetries + 1
    /\ retries <= MaxRetries

\* A new request never asks for an event the handler was given before.
CursorNeverBack ==
  /\ phase = "connect" => lastEventID >= connID
  /\ phase \in {"read", "ended"} => connID >= lastEventID

\* With a budget, a server that stays away makes Stream return.
GivesUpEventually == (MaxRetries >= 0 /\ <>[]~reachable) => <>(phase \in Returned)

\* A reconnection is within the budget and behind every event seen before.
ReconnectsRight ==
  /\ RetryBudget
  /\ CursorNeverBack
=============================================================================
