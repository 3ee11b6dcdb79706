----------------------------- MODULE PriceFeed ------------------------------
(***************************************************************************)
(* Prices of the market data service: the cache its requests share with    *)
(* the task that broadcasts to the WebSocket clients, and the life of that *)
(* task, which connect starts and which ends when nobody is connected or   *)
(* when a fetch raises.                                                    *)
(*                                                                         *)
(* One key of the cache; the task reads five of them in turn and sends a   *)
(* message per symbol, here one of each.  A value is the time it was read  *)
(* at its source, in a thread, while the event loop goes on.               *)
(***************************************************************************)
EXTENDS Integers

CONSTANTS Readers,  \* requests, and the broadcasting task
          Feed,     \* that task, one of the readers
          Viewers,  \* WebSocket clients
          TTL,      \* CACHE_TTL_SECONDS
          MaxTime   \* bound of the clock

VARIABLES
    now,         \* the clock
    cached,      \* CACHE[key]: its timestamp and its value; 0 and -1 if there is none
    at,          \* where a reader is in get_cached_data
    began,       \* its variable now
    value,       \* the value it returns
    clients,     \* active_connections
    subscribed,  \* those with "prices" among their channels
    loop,        \* where broadcast_task is; "none": not started, or done
    todo,        \* clients the current message is still to be sent to
    got,         \* clients it was sent to
    steady,      \* clients subscribed since the message was made
    failed       \* the last task ended by an exception

cache == <<now, cached, at, began, value>>
feed == <<clients, subscribed, loop, todo, got, steady, failed>>
vars == <<now, cached, at, began, value, clients, subscribed, loop, todo, got, steady,
          failed>>

TypeOK ==
    /\ now \in 0..MaxTime
    /\ cached \in [stamp : 0..MaxTime, value : -1..MaxTime]
    /\ at \in [Readers -> {"idle", "fetching", "fetched", "done"}]
    /\ began \in [Readers -> 0..MaxTime]
    /\ value \in [Readers -> -1..MaxTime]
    /\ subscribed \subseteq clients /\ clients \subseteq Viewers
    /\ loop \in {"none", "top", "reading", "sending", "asleep"}
    /\ todo \subseteq Viewers /\ got \subseteq Viewers /\ steady \subseteq Viewers
    /\ failed \in BOOLEAN

Init ==
    /\ now = 0
    /\ cached = [stamp |-> 0, value |-> -1]
    /\ at = [r \in Readers |-> "idle"]
    /\ began = [r \in Readers |-> 0]
    /\ value = [r \in Readers |-> -1]
    /\ clients = {} /\ subscribed = {}
    /\ loop = "none"
    /\ todo = {} /\ got = {} /\ steady = {}
    /\ failed = FALSE
-----------------------------------------------------------------------------
(* get_cached_data                                                         *)

Go(r, place) == at' = [at EXCEPT ![r] = place]

Hit == cached.value # -1 /\ now - cached.stamp < TTL

\* now is read before the fetch is awaited.
Look(r) ==
    /\ at[r] \in {"idle", "done"}
    /\ began' = [began EXCEPT ![r] = now]
    /\ value' = [value EXCEPT ![r] = IF Hit THEN cached.value ELSE -1]
    /\ Go(r, IF Hit THEN "done" ELSE "fetching")
    /\ UNCHANGED <<now, cached>>

Fetch(r) ==
    /\ at[r] = "fetching"
    /\ value' = [value EXCEPT ![r] = now]
    /\ Go(r, "fetched")
    /\ UNCHANGED <<now, cached, began>>

Bug_StampedLate(r) == now
StampOf(r) == began[r]

\* Whoever fetched last overwrites, also an older value over a newer one.
Store(r) ==
    /\ at[r] = "fetched"
    /\ cached' = [stamp |-> StampOf(r), value |-> value[r]]
    /\ Go(r, "done")
    /\ UNCHANGED <<now, began, value>>

FetchRaises(r) ==
    /\ at[r] = "fetching"
    /\ Go(r, "idle")
    /\ UNCHANGED <<now, cached, began, value>>

Tick ==
    /\ now < MaxTime
    /\ now' = now + 1
    /\ UNCHANGED <<cached, at, began, value, feed>>

Request(r) ==
    /\ r # Feed
    /\ Look(r) \/ Fetch(r) \/ Store(r) \/ FetchRaises(r)
    /\ UNCHANGED feed
-----------------------------------------------------------------------------
(* PriceWebSocketManager                                                   *)

\* A task is created if there was none yet or it is done.
Connect(v) ==
    /\ v \notin clients
    /\ clients' = clients \union {v}
    /\ IF loop = "none"
         THEN loop' = "top" /\ failed' = FALSE
         ELSE UNCHANGED <<loop, failed>>
    /\ UNCHANGED <<cache, subscribed, todo, got, steady>>

Disconnect(v) ==
    /\ v \in clients
    /\ clients' = clients \ {v}
    /\ subscribed' = subscribed \ {v}
    /\ steady' = steady \ {v}
    /\ UNCHANGED <<cache, loop, todo, got, failed>>

Subscribe(v) ==
    /\ v \in clients
    /\ subscribed' = subscribed \union {v}
    /\ UNCHANGED <<cache, clients, loop, todo, got, steady, failed>>

Unsubscribe(v) ==
    /\ v \in subscribed
    /\ subscribed' = subscribed \ {v}
    /\ steady' = steady \ {v}
    /\ UNCHANGED <<cache, clients, loop, todo, got, failed>>

Bug_EndsUnlessSubscribed == subscribed = {}
\* Nothing is awaited between this condition and the end of the task.
LoopEnds == clients = {}

LoopTop ==
    /\ loop \in {"top", "asleep"}
    /\ IF LoopEnds
         THEN loop' = "none" /\ UNCHANGED cache
         ELSE loop' = "reading" /\ Look(Feed)
    /\ UNCHANGED <<clients, subscribed, todo, got, steady, failed>>

LoopReads ==
    /\ loop = "reading"
    /\ Fetch(Feed) \/ Store(Feed)
    /\ UNCHANGED feed

LoopFails ==
    /\ loop = "reading"
    /\ FetchRaises(Feed)
    /\ loop' = "none"
    /\ failed' = TRUE
    /\ UNCHANGED <<clients, subscribed, todo, got, steady>>

Bug_AbortsRound(v) == IF v \in clients THEN todo \ {v} ELSE {}
\* What cannot be sent is skipped.
TodoAfter(v) == todo \ {v}

\* A copy of the clients is walked, with an await at each.
LoopSends ==
    /\ loop = "reading"
    /\ at[Feed] = "done"
    /\ loop' = "sending"
    /\ todo' = clients
    /\ got' = {}
    /\ steady' = subscribed
    /\ UNCHANGED <<cache, clients, subscribed, failed>>

SendTo(v) ==
    /\ loop = "sending"
    /\ v \in todo
    /\ todo' = TodoAfter(v)
    /\ got' = IF v \in subscribed THEN got \union {v} ELSE got
    /\ UNCHANGED <<cache, clients, subscribed, loop, steady, failed>>

LoopSleeps ==
    /\ loop = "sending"
    /\ todo = {}
    /\ loop' = "asleep"
    /\ UNCHANGED <<cache, clients, subscribed, todo, got, steady, failed>>

Next ==
    \/ Tick \/ LoopTop \/ LoopReads \/ LoopFails \/ LoopSends \/ LoopSleeps
    \/ \E r \in Readers : Request(r)
    \/ \E v \in Viewers :
          Connect(v) \/ Disconnect(v) \/ Subscribe(v) \/ Unsubscribe(v) \/ SendTo(v)

Spec == Init /\ [][Next]_vars
-----------------------------------------------------------------------------
\* However long fetches take and in whatever order they end, no answer is older
\* at its source than the TTL when it is asked for (get_cached_data).
FreshOnly ==
    \A r \in Readers : at[r] = "done" => value[r] >= 0 /\ began[r] - value[r] < TTL

\* While a client is connected the task runs, unless it raised after the last
\* connect that started it, however connects, disconnects and its end cross.
ClientsAreFed == clients # {} => loop # "none" \/ failed

\* A message reaches every client that was subscribed from when it was made to
\* when it was sent to the last, whoever comes and goes meanwhile.
RoundReachesAll == loop = "asleep" => steady \subseteq got
=============================================================================
