---------------------------- MODULE AlertSockets ----------------------------
(***************************************************************************)
(* The way of an alert from InAppChannel.send to the browser of its user:  *)
(* live, over the Redis channel a listener of her WebSocket has subscribed *)
(* to, or through the list of alerts that found no subscriber, which the   *)
(* next connection reads.  Users share nothing: this is one of them.       *)
(*                                                                         *)
(* The endpoint, the listener it starts and the sender of an alert are     *)
(* separate tasks; each await is a step.  connect and disconnect know one  *)
(* connection per user, whoever calls them.                                *)
(***************************************************************************)
EXTENDS FiniteSets

CONSTANTS Sockets,
          Alerts,    \* the alerts that are followed, of all her alerts
          NoSocket   \* None, for a dictionary without the user's key

VARIABLES
    redis,     \* manager.redis_client: "unset", "pinging", "up", "down"
    at,        \* where the endpoint of a socket is
    awaited,   \* the listener whose end it awaits
    open,      \* sockets whose client is there
    entry,     \* active_connections[user_id]
    task,      \* pubsub_tasks[user_id], named by its socket
    listener,  \* what became of the listener of a socket
    inbox,     \* alerts published to it and not read
    offline,   \* queued alerts an endpoint has read and not yet shown
    sent,      \* InAppChannel.send: "no", "queueing", its answer "yes" or "failed"
    queue,     \* offline_alerts:user_id
    shown,     \* the sockets an alert was shown on
    alone,     \* sockets that never had another endpoint of the user beside them
    raced,     \* alerts queued between the reading and the deletion of the queue
    severed,   \* listeners whose Redis connection failed
    dropped    \* queued alerts that Redis does not have (any more), and nobody read

vars == <<redis, at, awaited, open, entry, task, listener, inbox, offline, sent, queue,
          shown, alone, raced, severed, dropped>>

Connected == {"reading", "deleting", "sending", "receiving"}
Places == {"idle", "pinging", "closing", "leaving", "accepting", "final", "over"}
             \union Connected

TypeOK ==
    /\ redis \in {"unset", "pinging", "up", "down"}
    /\ at \in [Sockets -> Places]
    /\ {entry, task} \subseteq Sockets \union {NoSocket}
    /\ awaited \in [Sockets -> Sockets \union {NoSocket}]
    /\ listener \in [Sockets -> {"none", "starting", "on", "ending", "ended"}]
    /\ inbox \in [Sockets -> SUBSET Alerts]
    /\ offline \in [Sockets -> SUBSET Alerts]
    /\ sent \in [Alerts -> {"no", "queueing", "yes", "failed"}]
    /\ shown \in [Alerts -> SUBSET Sockets]
    /\ queue \subseteq Alerts /\ raced \subseteq Alerts /\ dropped \subseteq Alerts
    /\ open \subseteq Sockets /\ alone \subseteq Sockets /\ severed \subseteq Sockets

Init ==
    /\ redis = "unset"
    /\ at = [s \in Sockets |-> "idle"]
    /\ awaited = [s \in Sockets |-> NoSocket]
    /\ open = {} /\ alone = {} /\ severed = {}
    /\ entry = NoSocket /\ task = NoSocket
    /\ listener = [s \in Sockets |-> "none"]
    /\ inbox = [s \in Sockets |-> {}]
    /\ offline = [s \in Sockets |-> {}]
    /\ sent = [a \in Alerts |-> "no"]
    /\ queue = {} /\ raced = {} /\ dropped = {}
    /\ shown = [a \in Alerts |-> {}]
-----------------------------------------------------------------------------
Go(s, place) == at' = [at EXCEPT ![s] = place]
Busy == {s \in Sockets : at[s] \notin {"idle", "over"}}
Running(s) == s # NoSocket /\ listener[s] \in {"starting", "on", "ending"}
HasRedis == redis \in {"pinging", "up"}
Forget(old) == queue' = queue \ old /\ dropped' = dropped \union old
Show(a, s) == shown' = [shown EXCEPT ![a] = @ \union {s}]

\* connect: an older socket of the user is closed first.
Join(s, clients) ==
    /\ Go(s, IF entry = NoSocket THEN "accepting" ELSE "closing")
    /\ open' = clients \ {entry}

Arrive(s) ==
    /\ at[s] = "idle"
    /\ alone' = IF Busy = {} THEN alone \union {s} ELSE alone \ Busy
    /\ IF redis = "unset"
         THEN redis' = "pinging" /\ Go(s, "pinging") /\ open' = open \union {s}
         ELSE Join(s, open \union {s}) /\ UNCHANGED redis
    /\ UNCHANGED <<awaited, entry, task, listener, inbox, offline, sent, queue, shown,
                   raced, severed, dropped>>

\* Redis is looked for once; without it there are no listeners.
Pinged(s) ==
    /\ at[s] = "pinging"
    /\ redis' \in {"up", "down"}
    /\ Join(s, open)
    /\ UNCHANGED <<awaited, entry, task, listener, inbox, offline, sent, queue, shown,
                   alone, raced, severed, dropped>>

Bug_KeepsEntry(s) == entry
\* disconnect(user_id): the entry goes, whose ever it is.
EntryAfter(s) == NoSocket

\* disconnect, called from connect (then the socket is accepted) or when the
\* endpoint ends; a listener that is still running is cancelled and awaited.
Disconnect(s, before, after) ==
    /\ task' = NoSocket
    /\ IF Running(task)
         THEN /\ listener' = [listener EXCEPT ![task] = "ending"]
              /\ awaited' = [awaited EXCEPT ![s] = task]
              /\ Go(s, before)
              /\ UNCHANGED entry
         ELSE /\ entry' = EntryAfter(s)
              /\ Go(s, after)
              /\ UNCHANGED <<listener, awaited>>

Replace(s) ==
    /\ at[s] = "closing"
    /\ Disconnect(s, "leaving", "accepting")
    /\ UNCHANGED <<redis, open, inbox, offline, sent, queue, shown, alone, raced,
                   severed, dropped>>

ListenerAwaited(s) ==
    /\ at[s] \in {"leaving", "final"}
    /\ ~Running(awaited[s])
    /\ entry' = EntryAfter(s)
    /\ Go(s, IF at[s] = "leaving" THEN "accepting" ELSE "over")
    /\ UNCHANGED <<redis, awaited, open, task, listener, inbox, offline, sent, queue,
                   shown, alone, raced, severed, dropped>>

\* The new socket takes the place of whatever was registered meanwhile.
Accept(s) ==
    /\ at[s] = "accepting"
    /\ s \in open
    /\ entry' = s
    /\ IF HasRedis
         THEN /\ listener' = [listener EXCEPT ![s] = "starting"]
              /\ task' = s
              /\ Go(s, "reading")
         ELSE Go(s, "receiving") /\ UNCHANGED <<listener, task>>
    /\ UNCHANGED <<redis, awaited, open, inbox, offline, sent, queue, shown, alone,
                   raced, severed, dropped>>

\* Its client has left: accept or receive_text raises, and the endpoint ends.
EndpointEnds(s) ==
    /\ at[s] \in {"accepting", "receiving"}
    /\ s \notin open
    /\ Disconnect(s, "final", "over")
    /\ UNCHANGED <<redis, open, inbox, offline, sent, queue, shown, alone, raced,
                   severed, dropped>>

ClientLeaves(s) ==
    /\ s \in open
    /\ open' = open \ {s}
    /\ UNCHANGED <<redis, at, awaited, entry, task, listener, inbox, offline, sent,
                   queue, shown, alone, raced, severed, dropped>>
-----------------------------------------------------------------------------
(* send_offline_alerts                                                     *)

Read(s) ==
    /\ at[s] = "reading"
    /\ offline' = [offline EXCEPT ![s] = queue]
    /\ Go(s, "deleting")
    /\ UNCHANGED <<redis, awaited, open, entry, task, listener, inbox, sent, queue,
                   shown, alone, raced, severed, dropped>>

Delete(s) ==
    /\ at[s] = "deleting"
    /\ queue' = {}
    /\ raced' = raced \union (queue \ offline[s])
    /\ Go(s, IF offline[s] = {} THEN "receiving" ELSE "sending")
    /\ UNCHANGED <<redis, awaited, open, entry, task, listener, inbox, offline, sent,
                   shown, alone, severed, dropped>>

\* get_offline_alerts returns [] when the reading or the deletion fails; a
\* deletion that raises may have been carried out.
ReadFails(s) ==
    /\ at[s] \in {"reading", "deleting"}
    /\ offline' = [offline EXCEPT ![s] = {}]
    /\ Go(s, "receiving")
    /\ \/ UNCHANGED <<queue, dropped>>
       \/ at[s] = "deleting" /\ Forget(queue)
    /\ UNCHANGED <<redis, awaited, open, entry, task, listener, inbox, sent, shown, alone,
                   raced, severed>>

\* The first alert that cannot be sent ends the delivery; the rest is dropped.
ShowOffline(s, a) ==
    /\ at[s] = "sending"
    /\ a \in offline[s]
    /\ offline' = [offline EXCEPT ![s] = IF s \in open THEN @ \ {a} ELSE {}]
    /\ IF s \in open THEN Show(a, s) ELSE UNCHANGED shown
    /\ Go(s, IF offline'[s] = {} THEN "receiving" ELSE "sending")
    /\ UNCHANGED <<redis, awaited, open, entry, task, listener, inbox, sent, queue,
                   alone, raced, severed, dropped>>
-----------------------------------------------------------------------------
(* _pubsub_listener_loop                                                   *)

Become(s, what) == listener' = [listener EXCEPT ![s] = what]

Subscribe(s) ==
    /\ listener[s] = "starting"
    /\ HasRedis
    /\ Become(s, "on")
    /\ UNCHANGED <<redis, at, awaited, open, entry, task, inbox, offline, sent, queue,
                   shown, alone, raced, severed, dropped>>

ListenerFails(s) ==
    /\ listener[s] \in {"starting", "on"}
    /\ Become(s, "ending")
    /\ severed' = severed \union {s}
    /\ UNCHANGED <<redis, at, awaited, open, entry, task, inbox, offline, sent, queue,
                   shown, alone, raced, dropped>>

\* An alert that cannot be sent is lost and ends the loop.
ShowLive(s, a) ==
    /\ listener[s] = "on"
    /\ a \in inbox[s]
    /\ inbox' = [inbox EXCEPT ![s] = @ \ {a}]
    /\ IF s \in open
         THEN Show(a, s) /\ UNCHANGED listener
         ELSE Become(s, "ending") /\ UNCHANGED shown
    /\ UNCHANGED <<redis, at, awaited, open, entry, task, offline, sent, queue, alone,
                   raced, severed, dropped>>

Unsubscribe(s) ==
    /\ listener[s] = "ending"
    /\ Become(s, "ended")
    /\ inbox' = [inbox EXCEPT ![s] = {}]
    /\ UNCHANGED <<redis, at, awaited, open, entry, task, offline, sent, queue, shown,
                   alone, raced, severed, dropped>>
-----------------------------------------------------------------------------
(* InAppChannel.send                                                       *)

Bug_QueuesAnyway(subscribers) == TRUE
NeedsQueue(subscribers) == subscribers = {}

\* A listener that is ending may have unsubscribed already.
Audiences ==
    {{s \in Sockets : listener[s] = "on"} \union late :
        late \in SUBSET {s \in Sockets : listener[s] = "ending"}}
Deliver(a, subscribers) ==
    inbox' = [s \in Sockets |-> inbox[s] \union IF s \in subscribers THEN {a} ELSE {}]

Publish(a) ==
    /\ sent[a] = "no"
    /\ \E subscribers \in Audiences :
         /\ Deliver(a, subscribers)
         /\ sent' = [sent EXCEPT ![a] =
                        IF NeedsQueue(subscribers) THEN "queueing" ELSE "yes"]
    /\ UNCHANGED <<redis, at, awaited, open, entry, task, listener, offline, queue,
                   shown, alone, raced, severed, dropped>>

\* A publish that raises may have been carried out; nothing is queued then.
PublishFails(a) ==
    /\ sent[a] = "no"
    /\ sent' = [sent EXCEPT ![a] = "failed"]
    /\ \E subscribers \in Audiences \union {{}} : Deliver(a, subscribers)
    /\ UNCHANGED <<redis, at, awaited, open, entry, task, listener, offline, queue,
                   shown, alone, raced, severed, dropped>>

\* lpush and ltrim: the list keeps the latest hundred, and older ones may go.  A
\* call that raises after the list got the alert changes nothing of that.
Queue(a) ==
    /\ sent[a] = "queueing"
    /\ sent' = [sent EXCEPT ![a] = "yes"]
    /\ \E old \in SUBSET queue :
         /\ queue' = (queue \ old) \union {a}
         /\ dropped' = dropped \union old
    /\ UNCHANGED <<redis, at, awaited, open, entry, task, listener, inbox, offline,
                   shown, alone, raced, severed>>

\* lpush raises and the list has not got the alert: it is logged, and send still
\* answers that the alert is sent and queued.
QueueFails(a) ==
    /\ sent[a] = "queueing"
    /\ sent' = [sent EXCEPT ![a] = "yes"]
    /\ dropped' = dropped \union {a}
    /\ UNCHANGED <<redis, at, awaited, open, entry, task, listener, inbox, offline,
                   queue, shown, alone, raced, severed>>

\* The older ones go, too, when an alert that is not followed is queued, and all
\* when nobody has read them for seven days.
QueueForgets ==
    /\ \E old \in (SUBSET queue) \ {{}} : Forget(old)
    /\ UNCHANGED <<redis, at, awaited, open, entry, task, listener, inbox, offline, sent,
                   shown, alone, raced, severed>>

Next ==
    \/ \E s \in Sockets :
          \/ Arrive(s) \/ Pinged(s) \/ Replace(s) \/ ListenerAwaited(s) \/ Accept(s)
          \/ EndpointEnds(s) \/ ClientLeaves(s) \/ Read(s) \/ Delete(s) \/ ReadFails(s)
          \/ Subscribe(s) \/ ListenerFails(s) \/ Unsubscribe(s)
          \/ \E a \in Alerts : ShowOffline(s, a) \/ ShowLive(s, a)
    \/ \E a \in Alerts : Publish(a) \/ PublishFails(a) \/ Queue(a) \/ QueueFails(a)
    \/ QueueForgets

Spec == Init /\ [][Next]_vars
-----------------------------------------------------------------------------
\* However connects and disconnects of one user cross, what stays registered is
\* a connection whose endpoint is still to call disconnect: nothing outlives it.
NoneLeftBehind ==
    \A s \in {entry, task} \ {NoSocket} : at[s] \in Connected \union {"final"}

\* A client that was never beside another of the same user is registered and,
\* while its Redis connection holds, listened for.  (One that was may be thrown
\* out by the disconnect of the older one.)
AloneIsServed ==
    \A s \in alone : at[s] \in Connected =>
        /\ entry = s
        /\ s \in open \ severed /\ listener[s] # "none" =>
               task = s /\ listener[s] \in {"starting", "on"}

\* No alert reaches one socket both live and from the queue.
NotShownTwice ==
    \A a \in Alerts : \A s \in shown[a] : a \notin inbox[s] \union offline[s]

\* An alert that send reports as sent was shown, is on its way or waits in the
\* queue, unless a client left, a listener lost Redis, it was queued while another
\* connection was between reading and deleting the queue, or the queue lost it: a
\* call of Redis failed there, a hundred newer came, or a week went by.
Missed(a) ==
    /\ sent[a] = "yes" /\ shown[a] = {} /\ a \notin queue
    /\ \A s \in Sockets : a \notin inbox[s] \union offline[s]

MissedForAReason ==
    \A a \in Alerts : Missed(a) =>
        \/ a \in raced \union dropped \/ severed # {}
        \/ \E s \in Sockets : at[s] # "idle" /\ s \notin open
=============================================================================
