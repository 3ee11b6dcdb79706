----------------------- MODULE ConnectionManager_proofs -----------------------
(***************************************************************************)
(* For any number of requests, heartbeats and registrations: a broker shown *)
(* as connected is watched, and no cancellation cuts a reconnect in two.   *)
(***************************************************************************)
EXTENDS ConnectionManager, TLAPS

\* A heartbeat that goes on.
Live(t) == at[t] # "over" /\ t \notin cancelled
\* One whose end a disconnect need not wait for any longer than the event loop
\* takes to run it.
Doomed(t) == at[t] = "over" \/ (at[t] = "asleep" /\ t \in cancelled)
\* p is about to remove the entry of _tasks and to close its adapter.
Stops(p) == at[p] = "tripped" \/ (at[p] = "awaiting" /\ Doomed(awaited[p]))

\* Only a heartbeat that sleeps or awaits itself is cancelled or tracked.
CancelInv ==
    \A t \in Beats :
        /\ t \in cancelled => at[t] \in {"asleep", "tripped"}
        /\ t = tracked => at[t] \in {"over", "asleep", "tripped"}
        /\ at[t] = "tripped" => t \in cancelled

\* A heartbeat that survived its cancellation is not tracked any more.
AwaitInv ==
    \A p \in Tasks :
        /\ awaited[p] # NoBeat <=> at[p] = "awaiting"
        /\ awaited[p] # NoBeat /\ Live(awaited[p]) => awaited[p] # tracked

PlaceInv == \A p \in Tasks : at[p] \in {"asleep", "tripped", "pausing"} => p \in Beats

\* The adapter to be closed is the one registered: a registration waits.
UsesInv == running => \A p \in Tasks : Stops(p) => using[p] = current

\* Who sees to it that the connection is watched, or closed.
WatchInv ==
    running /\ current # NoAdapter /\ connected[current] =>
        \/ \E t \in Beats : Live(t)
        \/ \E p \in Tasks : at[p] = "closing" /\ using[p] = current
        \/ tracked # NoBeat /\ \E p \in Tasks : Stops(p)

IInv == TypeOK /\ CancelInv /\ AwaitInv /\ PlaceInv /\ UsesInv /\ WatchInv

\* Setting one entry of attempts.
LEMMA AttemptsType ==
    ASSUME NEW f \in [Adapters -> 0..MaxAttempts], NEW a, NEW n \in 0..MaxAttempts
    PROVE  [f EXCEPT ![a] = n] \in [Adapters -> 0..MaxAttempts]
  OBVIOUS

\* No attempt is a number of attempts.
LEMMA Zero == 0 \in 0..MaxAttempts
  BY AttemptsAreFinite

\* A step keeps the types.
LEMMA StepType == IInv /\ [Next]_vars => TypeOK'
  <1> DEFINE Kept == TypeOK'
  <1> SUFFICES ASSUME IInv, [Next]_vars PROVE Kept
    OBVIOUS
  <1> USE TasksDistinct, AttemptsAreFinite
          DEF IInv, TypeOK, Tasks, Places, Closing
  <1>1. ASSUME NEW p \in Tasks, Awaited(p) PROVE Kept
    BY <1>1 DEF Awaited, Untracks, AfterDisconnect, Goes, states
  <1>2. ASSUME NEW p \in Tasks, Closed(p) PROVE Kept
    BY <1>2 DEF Closed, Disconnected, AfterDisconnect, Goes
  <1>3. ASSUME NEW p \in Tasks, Opened(p) PROVE Kept
    <2>1. tracked' \in Beats \union {NoBeat} /\ cancelled' \in SUBSET Beats
      BY <1>3 DEF Opened
    <2>2. at' \in [Tasks -> Places]
      <3>1. AfterConnect(p) \in Places /\ NextTurn \in Places
        BY DEF AfterConnect, NextTurn
      <3>2. QED
        BY <1>3, <3>1 DEF Opened
    <2>3. attempts' \in [Adapters -> 0..MaxAttempts]
      BY <1>3, Zero, AttemptsType DEF Opened
    <2>4. QED
      BY <1>3, <2>1, <2>2, <2>3 DEF Opened
  <1>4. ASSUME NEW p \in Tasks, OpenFails(p) PROVE Kept
    BY <1>4 DEF OpenFails, AfterConnect, NextTurn, Goes
  <1>5. ASSUME NEW t \in Beats, BeatEnds(t) PROVE Kept
    BY <1>5 DEF BeatEnds, Goes, states
  <1>6. ASSUME NEW t \in Beats, Untrips(t) PROVE Kept
    BY <1>6 DEF Untrips, Survives, Untracks, AfterDisconnect, Goes, states
  <1>7. ASSUME NEW t \in Beats, PauseEnds(t) PROVE Kept
    BY <1>7 DEF PauseEnds, Goes, states
  <1>8. ASSUME NEW t \in Beats, FindsHealthy(t) PROVE Kept
    <2>1. attempts' \in [Adapters -> 0..MaxAttempts]
      BY <1>8, Zero, AttemptsType DEF FindsHealthy
    <2>2. QED
      BY <1>8, <2>1 DEF FindsHealthy, NextTurn, Goes
  <1>9. ASSUME NEW t \in Beats, FindsDisconnected(t) PROVE Kept
    BY <1>9 DEF FindsDisconnected, Wakes, NextTurn, Goes, states
  <1>10. ASSUME NEW t \in Beats, Reconnects(t) PROVE Kept
    <2>1. attempts' \in [Adapters -> 0..MaxAttempts]
      <3>1. CASE current \in Adapters
        <4>1. attempts[current] + 1 \in 0..MaxAttempts
          BY <1>10, <3>1 DEF Reconnects, MayRetry
        <4>2. QED
          BY <1>10, <4>1, AttemptsType DEF Reconnects
      <3>2. CASE current = NoAdapter
        BY <1>10, <3>2 DEF Reconnects
      <3>3. QED
        BY <3>1, <3>2
    <2>2. QED
      BY <1>10, <2>1 DEF Reconnects, Disconnects, Goes
  <1>11. ASSUME NEW t \in Beats, GivesUp(t) PROVE Kept
    BY <1>11 DEF GivesUp, Wakes, Disconnected, NextTurn, Goes
  <1>12. ASSUME NEW h \in Handlers, NEW a \in Adapters, Register(h, a) PROVE Kept
    BY <1>12 DEF Register, Settled, Goes, states
  <1>13. ASSUME NEW h \in Handlers, Connect(h) PROVE Kept
    BY <1>13 DEF Connect, Goes, states
  <1>14. ASSUME NEW h \in Handlers, Disconnect(h) PROVE Kept
    BY <1>14 DEF Disconnect, Disconnects, Goes, states
  <1>15. ASSUME NEW a \in Adapters, PulseFades(a) PROVE Kept
    BY <1>15 DEF PulseFades, places
  <1>16. CASE Stop
    <2>1. CASE current = NoAdapter
      BY <1>16, <2>1 DEF Stop, states, places
    <2>2. CASE current # NoAdapter
      <3>1. Disconnects(Stopper) /\ UNCHANGED <<current, connected, attempts, pulse>>
        BY <1>16, <2>2 DEF Stop, states
      <3>2. /\ tracked' \in Beats \union {NoBeat}
            /\ cancelled' \in SUBSET Beats
            /\ at' \in [Tasks -> Places]
        BY <3>1 DEF Disconnects, Goes
      <3>3. /\ using' \in [Tasks -> Adapters \union {NoAdapter}]
            /\ awaited' \in [Tasks -> Beats \union {NoBeat}]
        BY <3>1 DEF Disconnects, Goes
      <3>4. running' \in BOOLEAN
        BY <1>16 DEF Stop
      <3>5. QED
        BY <3>1, <3>2, <3>3, <3>4
    <2>3. QED
      BY <2>1, <2>2
  <1>17. CASE UNCHANGED vars
    BY <1>17 DEF vars, states, places
  <1>18. QED
    BY <1>1, <1>2, <1>3, <1>4, <1>5, <1>6, <1>7, <1>8, <1>9,
       <1>10, <1>11, <1>12, <1>13, <1>14, <1>15, <1>16, <1>17
       DEF Next, Answers, Turns

\* A step keeps the bookkeeping of the heartbeats.
LEMMA StepPlaces == IInv /\ [Next]_vars => PlaceInv' /\ CancelInv' /\ AwaitInv'
  <1> DEFINE Kept == PlaceInv' /\ CancelInv' /\ AwaitInv'
  <1> SUFFICES ASSUME IInv, [Next]_vars PROVE Kept
    OBVIOUS
  <1> USE TasksDistinct
          DEF IInv, TypeOK, Tasks, Places, Closing, PlaceInv, CancelInv, AwaitInv, Live
  <1>1. ASSUME NEW p \in Tasks, Awaited(p) PROVE Kept
    BY <1>1 DEF Awaited, Untracks, AfterDisconnect, Goes, states
  <1>2. ASSUME NEW p \in Tasks, Closed(p) PROVE Kept
    BY <1>2 DEF Closed, Disconnected, AfterDisconnect, Goes
  <1>3. ASSUME NEW p \in Tasks, Opened(p) PROVE Kept
    BY <1>3 DEF Opened, Free, AfterConnect, NextTurn
  <1>4. ASSUME NEW p \in Tasks, OpenFails(p) PROVE Kept
    BY <1>4 DEF OpenFails, AfterConnect, NextTurn, Goes
  <1>5. ASSUME NEW t \in Beats, BeatEnds(t) PROVE Kept
    BY <1>5 DEF BeatEnds, Goes, states
  <1>6. ASSUME NEW t \in Beats, Untrips(t) PROVE Kept
    BY <1>6 DEF Untrips, Survives, Untracks, AfterDisconnect, Goes, states
  <1>7. ASSUME NEW t \in Beats, PauseEnds(t) PROVE Kept
    BY <1>7 DEF PauseEnds, Goes, states
  <1>8. ASSUME NEW t \in Beats, FindsHealthy(t) PROVE Kept
    BY <1>8 DEF FindsHealthy, Wakes, NextTurn, Goes
  <1>9. ASSUME NEW t \in Beats, FindsDisconnected(t) PROVE Kept
    BY <1>9 DEF FindsDisconnected, Wakes, NextTurn, Goes, states
  <1>10. ASSUME NEW t \in Beats, Reconnects(t) PROVE Kept
    BY <1>10 DEF Reconnects, Wakes, MayRetry, Disconnects, Goes
  <1>11. ASSUME NEW t \in Beats, GivesUp(t) PROVE Kept
    BY <1>11 DEF GivesUp, Wakes, Disconnected, NextTurn, Goes
  <1>12. ASSUME NEW h \in Handlers, NEW a \in Adapters, Register(h, a) PROVE Kept
    BY <1>12 DEF Register, Settled, Goes, states
  <1>13. ASSUME NEW h \in Handlers, Connect(h) PROVE Kept
    BY <1>13 DEF Connect, Goes, states
  <1>14. ASSUME NEW h \in Handlers, Disconnect(h) PROVE Kept
    BY <1>14 DEF Disconnect, Disconnects, Goes, states
  <1>15. ASSUME NEW a \in Adapters, PulseFades(a) PROVE Kept
    BY <1>15 DEF PulseFades, places
  <1>16. CASE Stop
    BY <1>16 DEF Stop, Disconnects, Goes, states, places
  <1>17. CASE UNCHANGED vars
    BY <1>17 DEF vars, states, places
  <1>18. QED
    BY <1>1, <1>2, <1>3, <1>4, <1>5, <1>6, <1>7, <1>8, <1>9,
       <1>10, <1>11, <1>12, <1>13, <1>14, <1>15, <1>16, <1>17
       DEF Next, Answers, Turns

\* A step keeps the connection watched: a step that ends or cancels the last
\* live heartbeat starts another, or is a disconnect of the adapter registered;
\* one that ends such a disconnect early found no entry in _tasks, in which case
\* another heartbeat or another disconnect answers for the connection.
LEMMA StepWatch == IInv /\ [Next]_vars => UsesInv' /\ WatchInv'
  <1> DEFINE Kept == UsesInv' /\ WatchInv'
  <1> SUFFICES ASSUME IInv, [Next]_vars PROVE Kept
    OBVIOUS
  <1> USE TasksDistinct
          DEF IInv, TypeOK, Tasks, Places, Closing, PlaceInv, CancelInv, AwaitInv,
              UsesInv, WatchInv, Live, Stops, Doomed
  <1>1. ASSUME NEW p \in Tasks, Awaited(p) PROVE Kept
    BY <1>1 DEF Awaited, Untracks, AfterDisconnect, Goes, states
  <1>2. ASSUME NEW p \in Tasks, Closed(p) PROVE Kept
    BY <1>2 DEF Closed, Disconnected, AfterDisconnect, Goes
  <1>3. ASSUME NEW p \in Tasks, Opened(p) PROVE Kept
    BY <1>3 DEF Opened, Free, AfterConnect, NextTurn
  <1>4. ASSUME NEW p \in Tasks, OpenFails(p) PROVE Kept
    BY <1>4 DEF OpenFails, AfterConnect, NextTurn, Goes
  <1>5. ASSUME NEW t \in Beats, BeatEnds(t) PROVE Kept
    BY <1>5 DEF BeatEnds, Goes, states
  <1>6. ASSUME NEW t \in Beats, Untrips(t) PROVE Kept
    BY <1>6 DEF Untrips, Survives, Untracks, AfterDisconnect, Goes, states
  <1>7. ASSUME NEW t \in Beats, PauseEnds(t) PROVE Kept
    BY <1>7 DEF PauseEnds, Goes, states
  <1>8. ASSUME NEW t \in Beats, FindsHealthy(t) PROVE Kept
    BY <1>8 DEF FindsHealthy, Wakes, NextTurn, Goes
  <1>9. ASSUME NEW t \in Beats, FindsDisconnected(t) PROVE Kept
    BY <1>9 DEF FindsDisconnected, Wakes, NextTurn, Goes, states
  <1>10. ASSUME NEW t \in Beats, Reconnects(t) PROVE Kept
    BY <1>10 DEF Reconnects, Wakes, MayRetry, Disconnects, Goes
  <1>11. ASSUME NEW t \in Beats, GivesUp(t) PROVE Kept
    BY <1>11 DEF GivesUp, Wakes, Disconnected, NextTurn, Goes
  <1>12. ASSUME NEW h \in Handlers, NEW a \in Adapters, Register(h, a) PROVE Kept
    BY <1>12 DEF Register, Settled, Goes, states
  <1>13. ASSUME NEW h \in Handlers, Connect(h) PROVE Kept
    BY <1>13 DEF Connect, Goes, states
  <1>14. ASSUME NEW h \in Handlers, Disconnect(h) PROVE Kept
    BY <1>14 DEF Disconnect, Disconnects, Goes, states
  <1>15. ASSUME NEW a \in Adapters, PulseFades(a) PROVE Kept
    BY <1>15 DEF PulseFades, places
  <1>16. CASE Stop
    BY <1>16 DEF Stop, Disconnects, Goes, states, places
  <1>17. CASE UNCHANGED vars
    BY <1>17 DEF vars, states, places
  <1>18. QED
    BY <1>1, <1>2, <1>3, <1>4, <1>5, <1>6, <1>7, <1>8, <1>9,
       <1>10, <1>11, <1>12, <1>13, <1>14, <1>15, <1>16, <1>17
       DEF Next, Answers, Turns

\* The initial state satisfies the inductive invariant.
LEMMA InitInv == Init => IInv
  BY TasksDistinct, AttemptsAreFinite
     DEF Init, IInv, TypeOK, PlaceInv, CancelInv, AwaitInv, UsesInv, WatchInv,
         Live, Stops, Doomed, Tasks, Places, Closing

\* The inductive invariant holds in every reachable state.
THEOREM Invariance == Spec => []IInv
  <1>1. IInv /\ [Next]_vars => IInv'
    BY StepType, StepPlaces, StepWatch DEF IInv
  <1>2. QED
    BY InitInv, <1>1, PTL DEF Spec

\* Type correctness.
THEOREM TypeCorrect == Spec => []TypeOK
  <1>1. IInv => TypeOK
    BY DEF IInv
  <1>2. QED
    BY <1>1, Invariance, PTL

\* However requests, reconnects and registrations cross, a broker shown as
\* connected is watched by a heartbeat or about to be disconnected.
THEOREM Watched == Spec => []ConnectedIsWatched
  <1>1. IInv => ConnectedIsWatched
    BY DEF IInv, WatchInv, ConnectedIsWatched, Live, Stops, Closing
  <1>2. QED
    BY <1>1, Invariance, PTL

\* No heartbeat is cancelled in the middle of a reconnect.
THEOREM NotCut == Spec => []ReconnectIsNotCut
  <1>1. IInv => ReconnectIsNotCut
    BY DEF IInv, CancelInv, ReconnectIsNotCut
  <1>2. QED
    BY <1>1, Invariance, PTL
=============================================================================
