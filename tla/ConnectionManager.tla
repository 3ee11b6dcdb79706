-------------------------- MODULE ConnectionManager --------------------------
(***************************************************************************)
(* The connection manager, for one broker id: requests register, connect   *)
(* and disconnect the broker's adapter; a successful connect starts a      *)
(* heartbeat task, which checks the connection every 30 s and reconnects   *)
(* it when the last good check is more than 60 s old.                      *)
(*                                                                         *)
(* There is no lock: requests and heartbeats interleave at each await (the *)
(* adapter's connect and disconnect, the pause of reconnect, the wait for  *)
(* a cancelled heartbeat).  Each of them works on the adapter and the      *)
(* ConnectionState it looked up before its await, and a new registration   *)
(* replaces both.  Entries of different broker ids never meet; an adapter  *)
(* whose connect raises is one that did not connect, and its disconnect    *)
(* catches what the broker raises; no callback is registered with on().    *)
(* auto_reconnect = False behaves like MaxAttempts = 0.                    *)
(***************************************************************************)
EXTENDS Naturals

CONSTANTS Handlers,     \* tasks running a request
          Beats,        \* names for heartbeat tasks, reused once they are free
          Adapters,     \* adapters ever registered, with their ConnectionState
          Stopper,      \* the task running stop()
          MaxAttempts,  \* max_reconnect_attempts
          NoBeat,
          NoAdapter

Tasks == Handlers \union Beats \union {Stopper}

ASSUME TasksDistinct == /\ Handlers \intersect Beats = {}
                        /\ Stopper \notin Handlers \union Beats
                        /\ NoBeat \notin Tasks
                        /\ NoAdapter \notin Adapters
ASSUME AttemptsAreFinite == MaxAttempts \in Nat

VARIABLES running,    \* _running
          current,    \* _connections[broker_id], and with it _states[broker_id]
          connected,  \* state.connected (and authenticated) of each adapter
          attempts,   \* state.reconnect_attempts
          pulse,      \* state.last_heartbeat: "never", "fresh", or "stale" (> 60 s)
          tracked,    \* _tasks[broker_id]
          cancelled,  \* heartbeats that will see CancelledError
          at,         \* the await at which each task is; "over" if it has ended
          using,      \* the adapter it works on across that await
          awaited     \* the heartbeat whose end it awaits

states == <<connected, attempts, pulse>>
places == <<at, using, awaited>>
vars == <<running, current, states, tracked, cancelled, places>>

\* A task is in disconnect while "tripped" (it awaits itself, see Untrips),
\* "awaiting" a heartbeat or "closing" the adapter; a heartbeat is in the
\* pause of reconnect while "pausing"; "opening" is connect.
Closing == {"tripped", "awaiting", "closing"}
Places == Closing \union {"over", "asleep", "pausing", "opening"}

TypeOK ==
    /\ running \in BOOLEAN
    /\ current \in Adapters \union {NoAdapter}
    /\ connected \in [Adapters -> BOOLEAN]
    /\ attempts \in [Adapters -> 0..MaxAttempts]
    /\ pulse \in [Adapters -> {"never", "fresh", "stale"}]
    /\ tracked \in Beats \union {NoBeat}
    /\ cancelled \in SUBSET Beats
    /\ at \in [Tasks -> Places]
    /\ using \in [Tasks -> Adapters \union {NoAdapter}]
    /\ awaited \in [Tasks -> Beats \union {NoBeat}]

Init ==
    /\ running = TRUE
    /\ current = NoAdapter
    /\ connected = [a \in Adapters |-> FALSE]
    /\ attempts = [a \in Adapters |-> 0]
    /\ pulse = [a \in Adapters |-> "never"]
    /\ tracked = NoBeat
    /\ cancelled = {}
    /\ at = [p \in Tasks |-> "over"]
    /\ using = [p \in Tasks |-> NoAdapter]
    /\ awaited = [p \in Tasks |-> NoBeat]

\* Task p runs up to its next await, or its end.
Goes(p, place, a, t) ==
    /\ at' = [at EXCEPT ![p] = place]
    /\ using' = [using EXCEPT ![p] = a]
    /\ awaited' = [awaited EXCEPT ![p] = t]

\* while self._running, at the end of each turn.
Bug_LoopsForever == "asleep"
NextTurn == IF running THEN "asleep" ELSE "over"

\* What follows the task's disconnect: the pause of reconnect, or the answer.
AfterDisconnect(p) == IF p \in Beats THEN "pausing" ELSE "over"
AfterConnect(p) == IF p \in Beats THEN NextTurn ELSE "over"
-----------------------------------------------------------------------------
(* connect                                                                 *)

\* No cancelled heartbeat has still to end, or to be taken for ended.
Settled == \A t \in Beats : /\ at[t] = "asleep" => t \notin cancelled
                            /\ at[t] # "tripped"
                            /\ at[t] = "over" => \A p \in Tasks : awaited[p] # t

\* create_connection: a new adapter and a new ConnectionState, whatever the
\* broker id had before, and connect.  A cancelled heartbeat ends within two
\* turns of the event loop, in which no HTTP call gets its answer: a
\* registration made in those turns counts as made after them.
Register(h, a) ==
    /\ running
    /\ Settled
    /\ at[h] = "over"
    /\ a # current
    /\ pulse[a] = "never" /\ ~connected[a]
    /\ \A p \in Tasks : using[p] # a
    /\ current' = a
    /\ Goes(h, "opening", a, NoBeat)
    /\ UNCHANGED <<running, states, tracked, cancelled>>

Connect(h) ==
    /\ running
    /\ at[h] = "over"
    /\ current # NoAdapter
    /\ Goes(h, "opening", current, NoBeat)
    /\ UNCHANGED <<running, current, states, tracked, cancelled>>

\* A name no task or awaiter holds on to.
Free(t) == at[t] = "over" /\ tracked # t /\ \A p \in Tasks : awaited[p] # t

\* The adapter connected: the heartbeat of the broker id, if it has one, is
\* cancelled and replaced.
Opened(p) ==
    /\ at[p] = "opening"
    /\ connected' = [connected EXCEPT ![using[p]] = TRUE]
    /\ attempts' = [attempts EXCEPT ![using[p]] = 0]
    /\ \E t \in Beats :
          /\ Free(t)
          /\ tracked' = t
          /\ at' = [at EXCEPT ![p] = AfterConnect(p), ![t] = NextTurn]
    /\ cancelled' = IF tracked # NoBeat /\ at[tracked] # "over"
                      THEN cancelled \union {tracked} ELSE cancelled
    /\ using' = [using EXCEPT ![p] = NoAdapter]
    /\ UNCHANGED <<running, current, pulse, awaited>>

OpenFails(p) ==
    /\ at[p] = "opening"
    /\ connected' = [connected EXCEPT ![using[p]] = FALSE]
    /\ Goes(p, AfterConnect(p), NoAdapter, NoBeat)
    /\ UNCHANGED <<running, current, attempts, pulse, tracked, cancelled>>
-----------------------------------------------------------------------------
(* disconnect                                                              *)

\* disconnect up to its first await: the adapter's own, if no heartbeat is
\* left to stop, otherwise that of the cancelled heartbeat.
Disconnects(p) ==
    IF tracked = NoBeat \/ at[tracked] = "over"
      THEN /\ tracked' = NoBeat
           /\ Goes(p, "closing", current, NoBeat)
           /\ UNCHANGED cancelled
      ELSE /\ cancelled' = cancelled \union {tracked}
           /\ IF tracked = p THEN Goes(p, "tripped", current, NoBeat)
                             ELSE Goes(p, "awaiting", current, tracked)
           /\ UNCHANGED tracked

Disconnect(h) ==
    /\ running
    /\ at[h] = "over"
    /\ current # NoAdapter
    /\ Disconnects(h)
    /\ UNCHANGED <<running, current, states>>

\* del self._tasks[broker_id], which raises KeyError if the entry is gone:
\* then disconnect returns without having closed the adapter.
Untracks(p) ==
    /\ tracked' = NoBeat
    /\ IF tracked = NoBeat THEN Goes(p, AfterDisconnect(p), NoAdapter, NoBeat)
                           ELSE Goes(p, "closing", using[p], NoBeat)

\* The awaited heartbeat has ended.
Awaited(p) ==
    /\ at[p] = "awaiting"
    /\ at[awaited[p]] = "over"
    /\ Untracks(p)
    /\ UNCHANGED <<running, current, states, cancelled>>

\* A heartbeat that reconnects is the one it stops: it cancels itself, and
\* _stop_heartbeat takes the CancelledError for the end of the heartbeat.
Bug_KeepsEntry(t) == Goes(t, "closing", using[t], NoBeat) /\ UNCHANGED tracked
Bug_Obeys(t) == Goes(t, "over", NoAdapter, NoBeat) /\ UNCHANGED tracked
Survives(t) == Untracks(t)

Untrips(t) ==
    /\ at[t] = "tripped"
    /\ Survives(t)
    /\ cancelled' = cancelled \ {t}
    /\ UNCHANGED <<running, current, states>>

Bug_StaysConnected(a) == connected
Disconnected(a) == [connected EXCEPT ![a] = FALSE]

Closed(p) ==
    /\ at[p] = "closing"
    /\ connected' = Disconnected(using[p])
    /\ Goes(p, AfterDisconnect(p), NoAdapter, NoBeat)
    /\ UNCHANGED <<running, current, attempts, pulse, tracked, cancelled>>
-----------------------------------------------------------------------------
(* The heartbeat                                                           *)

\* A minute has passed since the last good check: the connection was closed
\* for that long, or the checks came late.
PulseFades(a) ==
    /\ pulse[a] = "fresh"
    /\ pulse' = [pulse EXCEPT ![a] = "stale"]
    /\ UNCHANGED <<running, current, connected, attempts, tracked, cancelled, places>>

BeatEnds(t) ==
    /\ at[t] = "asleep"
    /\ t \in cancelled
    /\ cancelled' = cancelled \ {t}
    /\ Goes(t, "over", NoAdapter, NoBeat)
    /\ UNCHANGED <<running, current, states, tracked>>

Wakes(t) == at[t] = "asleep" /\ t \notin cancelled

Healthy(a) == connected[a] /\ pulse[a] # "stale"

MayRetry(a) == attempts[a] < MaxAttempts

FindsHealthy(t) ==
    /\ Wakes(t)
    /\ Healthy(current)
    /\ pulse' = [pulse EXCEPT ![current] = "fresh"]
    /\ attempts' = [attempts EXCEPT ![current] = 0]
    /\ Goes(t, NextTurn, NoAdapter, NoBeat)
    /\ UNCHANGED <<running, current, connected, tracked, cancelled>>

FindsDisconnected(t) ==
    /\ Wakes(t)
    /\ ~connected[current]
    /\ Goes(t, NextTurn, NoAdapter, NoBeat)
    /\ UNCHANGED <<running, current, states, tracked, cancelled>>

\* reconnect: disconnect, pause, connect.
Reconnects(t) ==
    /\ Wakes(t)
    /\ connected[current] /\ ~Healthy(current)
    /\ MayRetry(current)
    /\ attempts' = [attempts EXCEPT ![current] = @ + 1]
    /\ Disconnects(t)
    /\ UNCHANGED <<running, current, connected, pulse>>

PauseEnds(t) ==
    /\ at[t] = "pausing"
    /\ Goes(t, "opening", current, NoBeat)
    /\ UNCHANGED <<running, current, states, tracked, cancelled>>

GivesUp(t) ==
    /\ Wakes(t)
    /\ connected[current] /\ ~Healthy(current)
    /\ ~MayRetry(current)
    /\ connected' = Disconnected(current)
    /\ Goes(t, NextTurn, NoAdapter, NoBeat)
    /\ UNCHANGED <<running, current, attempts, pulse, tracked, cancelled>>

\* Shutdown, when every request has its answer: the heartbeat is cancelled
\* and the broker disconnected.
Stop ==
    /\ running
    /\ \A h \in Handlers : at[h] = "over"
    /\ running' = FALSE
    /\ IF current = NoAdapter THEN UNCHANGED <<tracked, cancelled, places>>
                              ELSE Disconnects(Stopper)
    /\ UNCHANGED <<current, states>>
-----------------------------------------------------------------------------
Answers(p) == Awaited(p) \/ Closed(p) \/ Opened(p) \/ OpenFails(p)

Turns(t) == \/ BeatEnds(t) \/ Untrips(t) \/ PauseEnds(t)
            \/ FindsHealthy(t) \/ FindsDisconnected(t) \/ Reconnects(t) \/ GivesUp(t)

Next == \/ \E p \in Tasks : Answers(p)
        \/ \E t \in Beats : Turns(t)
        \/ \E h \in Handlers : \/ \E a \in Adapters : Register(h, a)
                               \/ Connect(h)
                               \/ Disconnect(h)
        \/ \E a \in Adapters : PulseFades(a)
        \/ Stop

\* The event loop runs every task that is ready; sleeps end, and so do the
\* adapter's calls (30 s HTTP timeout).
Fairness == /\ \A p \in Tasks : WF_vars(Answers(p))
            /\ \A t \in Beats : WF_vars(Turns(t))

Spec == Init /\ [][Next]_vars /\ Fairness
-----------------------------------------------------------------------------
\* A broker shown as connected is watched: unless a disconnect is under way,
\* some heartbeat still runs that nobody has cancelled, whichever requests
\* and reconnects crossed.
ConnectedIsWatched ==
    running /\ current # NoAdapter =>
        \/ ~connected[current]
        \/ \E p \in Tasks : at[p] \in Closing
        \/ \E t \in Beats \ cancelled : at[t] # "over"

\* The task a disconnect would cancel is never in the middle of a reconnect:
\* no cancellation is delivered between the disconnect and the connect of a
\* reconnect.
ReconnectIsNotCut ==
    \A t \in Beats : t = tracked \/ t \in cancelled =>
                        at[t] \in {"over", "asleep", "tripped"}

\* A heartbeat that cancels itself for a reconnect gets to connect again.
ReconnectConnects ==
    \A t \in Beats : (at[t] = "tripped") ~> (at[t] = "opening")

\* Once the manager stops, every task ends, the heartbeats it lost track of
\* too.
StopEndsAll == ~running ~> \A p \in Tasks : at[p] = "over"

\* A broker that auto-reconnect failed to reach is tried again until it
\* answers or the attempts are used up, unless a request or shutdown meddles.
RetriesUntilMax ==
    \A a \in Adapters :
        (current = a /\ ~connected[a] /\ attempts[a] \in 1..(MaxAttempts - 1)
           /\ \A p \in Tasks : at[p] \in {"over", "asleep"})
        ~> \/ connected[a] \/ attempts[a] = MaxAttempts
           \/ ~running \/ current # a \/ \E h \in Handlers : at[h] # "over"
=============================================================================
