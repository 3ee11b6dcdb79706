-------------------------- MODULE Messages_proofs ---------------------------
(*************************************************************************)
(* What comes in and what goes out: theorems about webhooks, the circuit *)
(* breaker, the price feed, the delivery of alerts, the anomalies and    *)
(* the sockets, each from an inductive invariant of its component.  The  *)
(* last section carries them over to the composition that the run of     *)
(* MCServices checks: what holds of a component by itself holds of it    *)
(* among the others.                                                     *)
(*************************************************************************)
EXTENDS MCServices, TLAPS, FiniteSetTheorems

(***************************************************************************)
(* Webhooks                                                                *)
(***************************************************************************)

Handling == {"idle", "counted", "checked", "logged", "queueing"}
Working == {"job", "parsing", "forwarding", "retrying"}

\* What the log of a request says where its handler or its task is.
HookLog(h) ==
    /\ hookAt[h] \in {"idle", "counted", "checked"} => log[h] = "none"
    /\ hookAt[h] = "logged" => log[h] = "RECEIVED"
    /\ hookAt[h] \in {"queueing", "job"} => log[h] = "QUEUED"
    /\ hookAt[h] \in {"parsing", "forwarding"} => log[h] = "PROCESSING"
    /\ hookAt[h] = "retrying" => log[h] # "PROCESSED"

\* A task belongs to a request that was accepted, and nothing is told or made
\* before.
HookPlace(h) ==
    /\ hookAt[h] \in Handling => answer[h] = "none"
    /\ hookAt[h] \in Working => answer[h] = "accepted"
    /\ hookAt[h] \in Working \union {"queueing"} => kind[h] # "forged" /\ allowed[h]
    /\ hookAt[h] \in Handling \union {"job", "parsing"} => signals[h] = 0
    /\ hookAt[h] = "forwarding" => signals[h] = 1

\* The three properties, for one request.
HookKept(h) ==
    /\ answer[h] = "accepted" =>
          h \in queue /\ log[h] \in {"QUEUED", "PROCESSING", "PROCESSED", "FAILED"}
    /\ signals[h] > 0 => kind[h] = "good" /\ allowed[h] /\ answer[h] = "accepted"
    /\ signals[h] <= 1
    /\ log[h] = "PROCESSED" => signals[h] = 1
    /\ log[h] = "FAILED" => signals[h] = 0

HookFine(h) == HookLog(h) /\ HookPlace(h) /\ HookKept(h)

HookInv == Webhook!TypeOK /\ \A h \in Hooks : HookFine(h)

\* A request that was counted alone counted at least what the window holds.
HookWindow ==
    /\ Webhook!LimitKept
    /\ ~crowded => \A h \in Hooks : hookAt[h] = "counted" =>
          /\ window <= count[h]
          /\ \A g \in Hooks \ {h} : hookAt[g] # "counted"

\* Init establishes the invariant.
LEMMA HookInit == Webhook!Init => HookInv
  <1> SUFFICES ASSUME Webhook!Init PROVE HookInv
    OBVIOUS
  <1>1. Webhook!TypeOK
    <2>1. 0 \in Nat
      OBVIOUS
    <2>2. /\ kind \in [Hooks -> {"good", "forged", "unreadable"}] /\ queue \subseteq Hooks
          /\ hookAt \in [Hooks -> Webhook!Places] /\ count \in [Hooks -> Nat]
          /\ log \in [Hooks -> Webhook!LogStatus] /\ answer \in [Hooks -> Webhook!Answers]
          /\ signals \in [Hooks -> Nat] /\ window \in Nat
      BY <2>1 DEF Webhook!Init, Webhook!Places, Webhook!LogStatus, Webhook!Answers
    <2>3. allowed \in [Hooks -> BOOLEAN] /\ crowded \in BOOLEAN
      BY Zenon DEF Webhook!Init
    <2>4. QED
      BY <2>2, <2>3 DEF Webhook!TypeOK
  <1>2. \A h \in Hooks : HookFine(h)
    <2>1. \A h \in Hooks : /\ hookAt[h] = "idle" /\ log[h] = "none"
                           /\ answer[h] = "none" /\ signals[h] = 0
      BY DEF Webhook!Init
    <2>2. ASSUME NEW h \in Hooks PROVE HookLog(h)
      BY <2>1 DEF HookLog
    <2>3. ASSUME NEW h \in Hooks PROVE HookPlace(h)
      BY <2>1 DEF HookPlace, Handling, Working
    <2>4. ASSUME NEW h \in Hooks PROVE HookKept(h)
      BY <2>1 DEF HookKept
    <2>5. QED
      BY <2>2, <2>3, <2>4 DEF HookFine
  <1>3. QED
    BY <1>1, <1>2 DEF HookInv

\* A step keeps the types.
LEMMA HookTypes == Webhook!TypeOK /\ [Webhook!Next]_(Webhook!vars) => Webhook!TypeOK'
  <1> SUFFICES ASSUME Webhook!TypeOK, [Webhook!Next]_(Webhook!vars) PROVE Webhook!TypeOK'
    OBVIOUS
  <1> USE DEF Webhook!TypeOK, Webhook!Places, Webhook!LogStatus, Webhook!Answers,
          Webhook!Go, Webhook!Log, Webhook!Tell
  <1>1. ASSUME NEW h \in Hooks, Webhook!CountRequests(h) PROVE Webhook!TypeOK'
    BY <1>1 DEF Webhook!CountRequests
  <1>2. ASSUME NEW h \in Hooks, Webhook!AddRequest(h) PROVE Webhook!TypeOK'
    BY <1>2 DEF Webhook!AddRequest, Webhook!UnderLimit
  <1>3. ASSUME NEW h \in Hooks, Webhook!LimiterFails(h) PROVE Webhook!TypeOK'
    BY <1>3 DEF Webhook!LimiterFails
  <1>4. ASSUME NEW h \in Hooks, Webhook!LogRequest(h) PROVE Webhook!TypeOK'
    BY <1>4 DEF Webhook!LogRequest
  <1>5. ASSUME NEW h \in Hooks, Webhook!JudgeRequest(h) PROVE Webhook!TypeOK'
    BY <1>5 DEF Webhook!JudgeRequest, Webhook!Verdict
  <1>6. ASSUME NEW h \in Hooks, Webhook!Enqueue(h) PROVE Webhook!TypeOK'
    BY <1>6 DEF Webhook!Enqueue, Webhook!EntryOf
  <1>7. ASSUME NEW h \in Hooks, Webhook!EnqueueFails(h) PROVE Webhook!TypeOK'
    BY <1>7 DEF Webhook!EnqueueFails, Webhook!AfterEnqueueFails
  <1>8. ASSUME NEW h \in Hooks, Webhook!HandlerFails(h) PROVE Webhook!TypeOK'
    BY <1>8 DEF Webhook!HandlerFails
  <1>9. ASSUME NEW h \in Hooks, Webhook!StartJob(h) PROVE Webhook!TypeOK'
    BY <1>9 DEF Webhook!StartJob
  <1>10. ASSUME NEW h \in Hooks, Webhook!CreateSignal(h) PROVE Webhook!TypeOK'
    BY <1>10 DEF Webhook!CreateSignal
  <1>11. ASSUME NEW h \in Hooks, Webhook!ParseFails(h) PROVE Webhook!TypeOK'
    BY <1>11 DEF Webhook!ParseFails
  <1>12. ASSUME NEW h \in Hooks, Webhook!FinishJob(h) PROVE Webhook!TypeOK'
    BY <1>12 DEF Webhook!FinishJob
  <1>13. ASSUME NEW h \in Hooks, Webhook!JobFails(h) PROVE Webhook!TypeOK'
    BY <1>13 DEF Webhook!JobFails
  <1>14. ASSUME NEW h \in Hooks, Webhook!Requeue(h) PROVE Webhook!TypeOK'
    BY <1>14 DEF Webhook!Requeue, Webhook!AfterRequeue
  <1>15. CASE Webhook!WindowSlides
    BY <1>15 DEF Webhook!WindowSlides
  <1>16. CASE Webhook!Restart
    BY <1>16 DEF Webhook!Restart
  <1>17. CASE UNCHANGED Webhook!vars
    BY <1>17 DEF Webhook!vars
  <1>18. QED
    BY <1>1, <1>2, <1>3, <1>4, <1>5, <1>6, <1>7, <1>8, <1>9, <1>10, <1>11, <1>12, <1>13,
       <1>14, <1>15, <1>16, <1>17 DEF Webhook!Next

\* A step of one request leaves what is known of the others.
LEMMA OtherHooks ==
    ASSUME HookInv, NEW h \in Hooks, kind' = kind,
           \A g \in Hooks \ {h} :
              /\ hookAt'[g] = hookAt[g] /\ allowed'[g] = allowed[g] /\ log'[g] = log[g]
              /\ answer'[g] = answer[g] /\ signals'[g] = signals[g]
              /\ g \in queue => g \in queue'
    PROVE  \A g \in Hooks \ {h} : HookFine(g)'
  BY DEF HookInv, HookFine, HookLog, HookPlace, HookKept

\* A step keeps what is known of each request.
LEMMA HookStep ==
    HookInv /\ [Webhook!Next]_(Webhook!vars) => \A h \in Hooks : HookFine(h)'
  <1> DEFINE AllFine == \A h \in Hooks : HookFine(h)'
  <1> SUFFICES ASSUME HookInv, [Webhook!Next]_(Webhook!vars) PROVE AllFine
    OBVIOUS
  <1>1. ASSUME NEW h \in Hooks, Webhook!CountRequests(h) PROVE AllFine
    <2>1. HookFine(h)'
      BY <1>1 DEF Webhook!CountRequests, Webhook!Go, Webhook!Log, Webhook!Tell, HookInv,
         Webhook!TypeOK, HookFine, HookLog, HookPlace, HookKept, Handling, Working
    <2>2. QED
      BY <1>1, <2>1, OtherHooks DEF Webhook!CountRequests, Webhook!Go, Webhook!Log,
         Webhook!Tell, HookInv, Webhook!TypeOK
  <1>2. ASSUME NEW h \in Hooks, Webhook!AddRequest(h) PROVE AllFine
    <2>1. HookFine(h)'
      BY <1>2 DEF Webhook!AddRequest, Webhook!UnderLimit, Webhook!Go, Webhook!Log,
         Webhook!Tell, HookInv, Webhook!TypeOK, HookFine, HookLog, HookPlace, HookKept,
         Handling, Working
    <2>2. QED
      BY <1>2, <2>1, OtherHooks DEF Webhook!AddRequest, Webhook!Go, Webhook!Log,
         Webhook!Tell, HookInv, Webhook!TypeOK
  <1>3. ASSUME NEW h \in Hooks, Webhook!LimiterFails(h) PROVE AllFine
    <2>1. HookFine(h)'
      BY <1>3 DEF Webhook!LimiterFails, Webhook!Go, Webhook!Log, Webhook!Tell, HookInv,
         Webhook!TypeOK, HookFine, HookLog, HookPlace, HookKept, Handling, Working
    <2>2. QED
      BY <1>3, <2>1, OtherHooks DEF Webhook!LimiterFails, Webhook!Go, Webhook!Log,
         Webhook!Tell, HookInv, Webhook!TypeOK
  <1>4. ASSUME NEW h \in Hooks, Webhook!LogRequest(h) PROVE AllFine
    <2>1. HookFine(h)'
      BY <1>4 DEF Webhook!LogRequest, Webhook!Go, Webhook!Log, Webhook!Tell, HookInv,
         Webhook!TypeOK, HookFine, HookLog, HookPlace, HookKept, Handling, Working
    <2>2. QED
      BY <1>4, <2>1, OtherHooks DEF Webhook!LogRequest, Webhook!Go, Webhook!Log,
         Webhook!Tell, HookInv, Webhook!TypeOK
  <1>5. ASSUME NEW h \in Hooks, Webhook!JudgeRequest(h) PROVE AllFine
    <2>1. HookFine(h)'
      BY <1>5 DEF Webhook!JudgeRequest, Webhook!Verdict, Webhook!Go, Webhook!Log,
         Webhook!Tell, HookInv, Webhook!TypeOK, HookFine, HookLog, HookPlace, HookKept,
         Handling, Working
    <2>2. QED
      BY <1>5, <2>1, OtherHooks DEF Webhook!JudgeRequest, Webhook!Go, Webhook!Log,
         Webhook!Tell, HookInv, Webhook!TypeOK
  <1>6. ASSUME NEW h \in Hooks, Webhook!Enqueue(h) PROVE AllFine
    <2>1. HookFine(h)'
      BY <1>6 DEF Webhook!Enqueue, Webhook!EntryOf, Webhook!Go, Webhook!Log,
         Webhook!Tell, HookInv, Webhook!TypeOK, HookFine, HookLog, HookPlace, HookKept,
         Handling, Working
    <2>2. QED
      BY <1>6, <2>1, OtherHooks DEF Webhook!Enqueue, Webhook!EntryOf, Webhook!Go,
         Webhook!Log, Webhook!Tell, HookInv, Webhook!TypeOK
  <1>7. ASSUME NEW h \in Hooks, Webhook!EnqueueFails(h) PROVE AllFine
    <2>1. HookFine(h)'
      BY <1>7 DEF Webhook!EnqueueFails, Webhook!AfterEnqueueFails, Webhook!Go,
         Webhook!Log, Webhook!Tell, HookInv, Webhook!TypeOK, HookFine, HookLog,
         HookPlace, HookKept, Handling, Working
    <2>2. QED
      BY <1>7, <2>1, OtherHooks DEF Webhook!EnqueueFails, Webhook!Go, Webhook!Log,
         Webhook!Tell, HookInv, Webhook!TypeOK
  <1>8. ASSUME NEW h \in Hooks, Webhook!HandlerFails(h) PROVE AllFine
    <2>1. HookFine(h)'
      BY <1>8 DEF Webhook!HandlerFails, Webhook!Go, Webhook!Log, Webhook!Tell, HookInv,
         Webhook!TypeOK, HookFine, HookLog, HookPlace, HookKept, Handling, Working
    <2>2. QED
      BY <1>8, <2>1, OtherHooks DEF Webhook!HandlerFails, Webhook!Go, Webhook!Log,
         Webhook!Tell, HookInv, Webhook!TypeOK
  <1>9. ASSUME NEW h \in Hooks, Webhook!StartJob(h) PROVE AllFine
    <2>1. HookFine(h)'
      BY <1>9 DEF Webhook!StartJob, Webhook!Go, Webhook!Log, Webhook!Tell, HookInv,
         Webhook!TypeOK, HookFine, HookLog, HookPlace, HookKept, Handling, Working
    <2>2. QED
      BY <1>9, <2>1, OtherHooks DEF Webhook!StartJob, Webhook!Go, Webhook!Log,
         Webhook!Tell, HookInv, Webhook!TypeOK
  <1>10. ASSUME NEW h \in Hooks, Webhook!CreateSignal(h) PROVE AllFine
    <2>1. HookFine(h)'
      BY <1>10 DEF Webhook!CreateSignal, Webhook!Go, Webhook!Log, Webhook!Tell, HookInv,
         Webhook!TypeOK, HookFine, HookLog, HookPlace, HookKept, Handling, Working
    <2>2. QED
      BY <1>10, <2>1, OtherHooks DEF Webhook!CreateSignal, Webhook!Go, Webhook!Log,
         Webhook!Tell, HookInv, Webhook!TypeOK
  <1>11. ASSUME NEW h \in Hooks, Webhook!ParseFails(h) PROVE AllFine
    <2>1. HookFine(h)'
      BY <1>11 DEF Webhook!ParseFails, Webhook!Go, Webhook!Log, Webhook!Tell, HookInv,
         Webhook!TypeOK, HookFine, HookLog, HookPlace, HookKept, Handling, Working
    <2>2. QED
      BY <1>11, <2>1, OtherHooks DEF Webhook!ParseFails, Webhook!Go, Webhook!Log,
         Webhook!Tell, HookInv, Webhook!TypeOK
  <1>12. ASSUME NEW h \in Hooks, Webhook!FinishJob(h) PROVE AllFine
    <2>1. HookFine(h)'
      BY <1>12 DEF Webhook!FinishJob, Webhook!Go, Webhook!Log, Webhook!Tell, HookInv,
         Webhook!TypeOK, HookFine, HookLog, HookPlace, HookKept, Handling, Working
    <2>2. QED
      BY <1>12, <2>1, OtherHooks DEF Webhook!FinishJob, Webhook!Go, Webhook!Log,
         Webhook!Tell, HookInv, Webhook!TypeOK
  <1>13. ASSUME NEW h \in Hooks, Webhook!JobFails(h) PROVE AllFine
    <2>1. HookFine(h)'
      BY <1>13 DEF Webhook!JobFails, Webhook!Go, Webhook!Log, Webhook!Tell, HookInv,
         Webhook!TypeOK, HookFine, HookLog, HookPlace, HookKept, Handling, Working
    <2>2. QED
      BY <1>13, <2>1, OtherHooks DEF Webhook!JobFails, Webhook!Go, Webhook!Log,
         Webhook!Tell, HookInv, Webhook!TypeOK
  <1>14. ASSUME NEW h \in Hooks, Webhook!Requeue(h) PROVE AllFine
    <2>1. HookFine(h)'
      BY <1>14 DEF Webhook!Requeue, Webhook!AfterRequeue, Webhook!Go, Webhook!Log,
         Webhook!Tell, HookInv, Webhook!TypeOK, HookFine, HookLog, HookPlace, HookKept,
         Handling, Working
    <2>2. QED
      BY <1>14, <2>1, OtherHooks DEF Webhook!Requeue, Webhook!Go, Webhook!Log,
         Webhook!Tell, HookInv, Webhook!TypeOK
  <1>15. CASE Webhook!WindowSlides \/ UNCHANGED Webhook!vars
    BY <1>15 DEF Webhook!WindowSlides, Webhook!vars, HookInv, HookFine, HookLog,
       HookPlace, HookKept
  <1>16. CASE Webhook!Restart
    <2>1. queue \subseteq queue' /\ UNCHANGED <<kind, allowed, log, answer, signals>>
      BY <1>16 DEF Webhook!Restart
    <2>2. \A h \in Hooks : hookAt'[h] = "ended" \/ hookAt'[h] = hookAt[h]
      BY <1>16 DEF Webhook!Restart
    <2>3. QED
      BY <2>1, <2>2 DEF HookInv, HookFine, HookLog, HookPlace, HookKept, Handling,
         Working
  <1>17. QED
    BY <1>1, <1>2, <1>3, <1>4, <1>5, <1>6, <1>7, <1>8, <1>9, <1>10, <1>11, <1>12, <1>13,
       <1>14, <1>15, <1>16 DEF Webhook!Next

\* The invariant holds throughout.
LEMMA HookInvariant == Webhook!Spec => []HookInv
  <1>1. HookInv /\ [Webhook!Next]_(Webhook!vars) => HookInv'
    BY HookTypes, HookStep DEF HookInv
  <1>2. QED
    BY <1>1, HookInit, PTL DEF Webhook!Spec

\* A signal is of an authentic, admitted and accepted request; an accepted request
\* is in the queue and its log says so; and each makes one signal at most.
THEOREM KeptAndSignalledOnce ==
    Webhook!Spec => [](/\ Webhook!TypeOK /\ Webhook!SignalsAreAccepted
                       /\ Webhook!AcceptedIsKept /\ Webhook!OneSignalEach)
  <1>1. HookInv => /\ Webhook!TypeOK /\ Webhook!SignalsAreAccepted
                   /\ Webhook!AcceptedIsKept /\ Webhook!OneSignalEach
    BY DEF HookInv, HookFine, HookKept, Webhook!SignalsAreAccepted,
       Webhook!AcceptedIsKept, Webhook!OneSignalEach
  <1>2. QED
    BY <1>1, HookInvariant, PTL

\* A step keeps what is known of the window.
LEMMA HookWindowStep ==
    ASSUME PerMinute \in Nat, Webhook!TypeOK, HookWindow, [Webhook!Next]_(Webhook!vars)
    PROVE  HookWindow'
  <1> USE DEF HookWindow, Webhook!LimitKept, Webhook!TypeOK
  <1>1. ASSUME NEW h \in Hooks, Webhook!CountRequests(h) PROVE HookWindow'
    <2>1. /\ hookAt' = [hookAt EXCEPT ![h] = "counted"]
          /\ count' = [count EXCEPT ![h] = window]
          /\ window' = window
          /\ ~crowded' => ~crowded /\ \A g \in Hooks \ {h} : hookAt[g] # "counted"
      BY <1>1 DEF Webhook!CountRequests, Webhook!Go
    <2>2. QED
      BY <2>1
  <1>2. ASSUME NEW h \in Hooks, Webhook!AddRequest(h) PROVE HookWindow'
    <2>1. /\ hookAt[h] = "counted" /\ hookAt' = [hookAt EXCEPT ![h] = "checked"]
          /\ UNCHANGED <<count, crowded>>
          /\ window' = IF count[h] < PerMinute THEN window + 1 ELSE window
      BY <1>2 DEF Webhook!AddRequest, Webhook!UnderLimit, Webhook!Go
    <2>2. CASE crowded
      BY <2>1, <2>2
    <2>3. CASE ~crowded
      <3>1. window <= count[h] /\ \A g \in Hooks : hookAt'[g] # "counted"
        BY <2>1, <2>3
      <3>2. window' > PerMinute => window > PerMinute
        BY <2>1, <3>1
      <3>3. QED
        BY <2>1, <3>1, <3>2
    <2>4. QED
      BY <2>2, <2>3
  <1>3. CASE Webhook!WindowSlides
    <2>1. /\ window' = window - 1 /\ window > 0
          /\ UNCHANGED <<hookAt, count, crowded>>
      BY <1>3 DEF Webhook!WindowSlides
    <2>2. QED
      BY <2>1
  \* Every other step leaves the window, and nobody becomes counted.
  <1>4. CASE /\ UNCHANGED <<count, window, crowded>>
             /\ \A h \in Hooks : hookAt'[h] = "counted" => hookAt[h] = "counted"
    BY <1>4
  <1>5. ASSUME NEW h \in Hooks,
               \/ Webhook!LimiterFails(h) \/ Webhook!LogRequest(h)
               \/ Webhook!JudgeRequest(h) \/ Webhook!Enqueue(h)
               \/ Webhook!EnqueueFails(h) \/ Webhook!HandlerFails(h)
               \/ Webhook!StartJob(h) \/ Webhook!CreateSignal(h)
               \/ Webhook!ParseFails(h) \/ Webhook!FinishJob(h)
               \/ Webhook!JobFails(h) \/ Webhook!Requeue(h)
        PROVE  /\ UNCHANGED <<count, window, crowded>>
               /\ \A g \in Hooks : hookAt'[g] = "counted" => hookAt[g] = "counted"
    BY <1>5 DEF Webhook!LimiterFails, Webhook!LogRequest, Webhook!JudgeRequest,
       Webhook!Enqueue, Webhook!EnqueueFails, Webhook!HandlerFails, Webhook!StartJob,
       Webhook!CreateSignal, Webhook!ParseFails, Webhook!FinishJob, Webhook!JobFails,
       Webhook!Requeue, Webhook!Go, Webhook!AfterEnqueueFails, Webhook!AfterRequeue
  <1>6. ASSUME Webhook!Restart \/ UNCHANGED Webhook!vars
        PROVE  /\ UNCHANGED <<count, window, crowded>>
               /\ \A g \in Hooks : hookAt'[g] = "counted" => hookAt[g] = "counted"
    BY <1>6 DEF Webhook!Restart, Webhook!vars
  <1>7. QED
    BY <1>1, <1>2, <1>3, <1>4, <1>5, <1>6 DEF Webhook!Next

\* The window is overfull only after two requests were counted together.
THEOREM WindowIsKept == PerMinute \in Nat /\ Webhook!Spec => []Webhook!LimitKept
  <1> SUFFICES ASSUME PerMinute \in Nat PROVE Webhook!Spec => []Webhook!LimitKept
    OBVIOUS
  <1>1. Webhook!Init => HookWindow
    BY DEF Webhook!Init, HookWindow, Webhook!LimitKept
  <1>2. Webhook!TypeOK /\ HookWindow /\ [Webhook!Next]_(Webhook!vars) => HookWindow'
    BY HookWindowStep
  <1>3. HookWindow => Webhook!LimitKept
    BY DEF HookWindow
  <1>4. Webhook!Spec => []Webhook!TypeOK
    BY KeptAndSignalledOnce, PTL
  <1>5. QED
    BY <1>1, <1>2, <1>3, <1>4, PTL DEF Webhook!Spec

(***************************************************************************)
(* Circuit breaker                                                         *)
(***************************************************************************)

\* The types, apart from those of the flags.
Sorted ==
    /\ state \in {"CLOSED", "OPEN", "HALF_OPEN"}
    /\ failures \in 0..MaxCount
    /\ successes \in 0..MaxCount
    /\ probes \in 0..HalfOpenMaxCalls
    /\ under \subseteq Calls \X BOOLEAN
    /\ tried \in Nat

\* Those of the calls under way that the breaker waits for.
Probing == {d \in under : d[2] = TRUE}

\* All admitted calls but the one that found the breaker open were counted.
ProbeInv == state = "HALF_OPEN" => tried = probes + 1

\* A probe that is not under way any more was a success, and not the last one
\* that it takes to close; unless one was cancelled.
SuccessInv ==
    state = "HALF_OPEN" /\ ~lost /\ Cardinality(Probing) < tried =>
        /\ successes < SuccessThreshold
        /\ successes + Cardinality(Probing) >= tried

BreakerInv ==
    /\ Sorted
    /\ Breaker!ClosedIsHealthy
    /\ ProbeInv
    /\ IsFiniteSet(Probing)
    /\ SuccessInv

\* What the assumptions say of the numbers.
LEMMA BreakerNumbers ==
    ASSUME Breaker!BreakerAssumptions
    PROVE  /\ FailureThreshold \in Nat /\ FailureThreshold > 0
           /\ HalfOpenMaxCalls \in Nat
           /\ SuccessThreshold \in Nat /\ SuccessThreshold <= HalfOpenMaxCalls + 1
           /\ MaxCount \in Nat
           /\ FailureThreshold <= MaxCount /\ SuccessThreshold <= MaxCount
  BY DEF Breaker!BreakerAssumptions

\* Counting stays within the bound, and below it it counts.
LEMMA BreakerCounting ==
    ASSUME Breaker!BreakerAssumptions, NEW n \in 0..MaxCount
    PROVE  /\ Breaker!Count(n) \in 0..MaxCount
           /\ Breaker!Count(n) < SuccessThreshold => Breaker!Count(n) = n + 1
  BY BreakerNumbers DEF Breaker!Count

\* A call and its flag.
LEMMA BreakerPairs ==
    /\ \A c \in Calls : /\ <<c, FALSE>> \in Calls \X BOOLEAN
                       /\ <<c, TRUE>> \in Calls \X BOOLEAN
    /\ \A c \in Calls : <<c, FALSE>>[2] = FALSE /\ <<c, TRUE>>[2] = TRUE
    /\ \A d \in Calls \X BOOLEAN : d[1] \in Calls
  OBVIOUS

\* TRUE and FALSE are two.
LEMMA Two == TRUE # FALSE
  OBVIOUS

\* Init establishes the invariant.
LEMMA BreakerInit == Breaker!BreakerAssumptions /\ Breaker!Init => BreakerInv
  <1> SUFFICES ASSUME Breaker!BreakerAssumptions, Breaker!Init PROVE BreakerInv
    OBVIOUS
  <1>1. Sorted
    BY BreakerNumbers DEF Breaker!Init, Sorted
  <1>2. Breaker!ClosedIsHealthy /\ ProbeInv /\ SuccessInv
    BY BreakerNumbers DEF Breaker!Init, Breaker!ClosedIsHealthy, ProbeInv, SuccessInv
  <1>3. Probing = {}
    BY DEF Breaker!Init, Probing
  <1>4. QED
    BY <1>1, <1>2, <1>3, FS_EmptySet DEF BreakerInv

\* A call that ends leaves the breaker waiting for one probe less, or for as many.
LEMMA BreakerEnding ==
    ASSUME BreakerInv, NEW d \in under, under' = under \ {d}
    PROVE  /\ under' \subseteq Calls \X BOOLEAN
           /\ IsFiniteSet(Probing')
           /\ Cardinality(Probing) \in Nat /\ Cardinality(Probing') \in Nat
           /\ Cardinality(Probing') = Cardinality(Probing)
                \/ (d[2] = TRUE /\ Cardinality(Probing') = Cardinality(Probing) - 1)
  <1>1. under' \subseteq Calls \X BOOLEAN
    BY DEF BreakerInv, Sorted
  <1>2. IsFiniteSet(Probing) /\ Cardinality(Probing) \in Nat
    BY FS_CardinalityType DEF BreakerInv
  <1>3. CASE d[2] = TRUE
    <2>1. d \in Probing /\ Probing' = Probing \ {d}
      BY <1>3 DEF Probing
    <2>2. QED
      BY <1>1, <1>2, <1>3, <2>1, FS_RemoveElement, FS_CardinalityType
  <1>4. CASE d[2] # TRUE
    <2>1. Probing' = Probing
      BY <1>4 DEF Probing
    <2>2. QED
      BY <1>1, <1>2, <2>1
  <1>5. QED
    BY <1>3, <1>4

\* A step keeps the invariant.
LEMMA BreakerStep ==
    ASSUME Breaker!BreakerAssumptions, BreakerInv, [Breaker!Next]_(Breaker!vars)
    PROVE  BreakerInv'
  <1>0. IsFiniteSet(Probing) /\ Cardinality(Probing) \in Nat
    BY FS_CardinalityType DEF BreakerInv
  <1>1. ASSUME NEW c \in Calls, Breaker!AdmitClosed(c) PROVE BreakerInv'
    <2> DEFINE new == <<c, FALSE>>
    <2>1. new \in Calls \X BOOLEAN /\ new[2] # TRUE
      BY BreakerPairs, Two
    <2>2. /\ under' = under \union {new}
          /\ UNCHANGED <<state, failures, successes, probes, tried, lost>>
      BY <1>1 DEF Breaker!AdmitClosed
    <2> HIDE DEF new
    <2>3. Probing' = Probing
      BY <2>1, <2>2 DEF Probing
    <2>4. Sorted'
      BY <2>1, <2>2 DEF BreakerInv, Sorted
    <2>5. QED
      BY <2>2, <2>3, <2>4 DEF BreakerInv, Breaker!ClosedIsHealthy, ProbeInv, SuccessInv
  <1>2. ASSUME NEW c \in Calls, Breaker!HalfOpen(c) PROVE BreakerInv'
    <2> DEFINE new == <<c, TRUE>>
               others == {<<d[1], FALSE>> : d \in under}
    <2>1. new \in Calls \X BOOLEAN /\ new[2] = TRUE
      BY BreakerPairs
    <2>2. \A d \in others : d \in Calls \X BOOLEAN /\ d[2] # TRUE
      BY BreakerPairs, Two DEF BreakerInv, Sorted
    <2>3. /\ under' = others \union {new}
          /\ state' = "HALF_OPEN" /\ probes' = 0 /\ tried' = 1
          /\ UNCHANGED <<failures, successes>>
      BY <1>2, Zenon DEF Breaker!HalfOpen, Breaker!ProbesWhenHalfOpen
    <2> HIDE DEF new, others
    <2>4. Probing' = {new}
      BY <2>1, <2>2, <2>3 DEF Probing
    <2>5. IsFiniteSet(Probing') /\ Cardinality(Probing') = 1
      BY <2>4, FS_Singleton
    <2>6. Sorted'
      <3>1. under' \subseteq Calls \X BOOLEAN
        BY <2>1, <2>2, <2>3, Zenon
      <3>2. QED
        BY <2>3, <3>1, BreakerNumbers DEF BreakerInv, Sorted
    <2>7. QED
      BY <2>3, <2>5, <2>6 DEF BreakerInv, Breaker!ClosedIsHealthy, ProbeInv, SuccessInv
  <1>3. ASSUME NEW c \in Calls, Breaker!AdmitProbe(c) PROVE BreakerInv'
    <2> DEFINE new == <<c, TRUE>>
    <2>1. new \in Calls \X BOOLEAN /\ new[2] = TRUE /\ new \notin under
      BY <1>3, BreakerPairs DEF Breaker!AdmitProbe, Breaker!Idle
    <2>2. /\ under' = under \union {new}
          /\ probes < HalfOpenMaxCalls /\ probes' = probes + 1 /\ tried' = tried + 1
          /\ UNCHANGED <<state, failures, successes, lost>>
      BY <1>3 DEF Breaker!AdmitProbe, Breaker!ProbesAfterAdmission
    <2> HIDE DEF new
    <2>3. new \notin Probing /\ Probing' = Probing \union {new}
      BY <2>1, <2>2 DEF Probing
    <2>4. IsFiniteSet(Probing') /\ Cardinality(Probing') = Cardinality(Probing) + 1
      BY <1>0, <2>3, FS_AddElement
    <2>5. Sorted'
      BY <2>1, <2>2, BreakerNumbers DEF BreakerInv, Sorted
    <2>6. Breaker!ClosedIsHealthy' /\ ProbeInv'
      BY <2>2 DEF BreakerInv, Sorted, Breaker!ClosedIsHealthy, ProbeInv
    <2>7. SuccessInv'
      BY <1>0, <2>2, <2>4, BreakerNumbers DEF BreakerInv, Sorted, SuccessInv
    <2>8. QED
      BY <2>4, <2>5, <2>6, <2>7 DEF BreakerInv
  <1>4. ASSUME NEW d \in under, Breaker!RecordSuccess(d) PROVE BreakerInv'
    <2> DEFINE Closes == /\ state = "HALF_OPEN"
                         /\ Breaker!Count(successes) >= SuccessThreshold
    <2>1. /\ IsFiniteSet(Probing') /\ under' \subseteq Calls \X BOOLEAN
          /\ Cardinality(Probing') \in Nat
          /\ Cardinality(Probing') >= Cardinality(Probing) - 1
      <3>1. under' = under \ {d}
        BY <1>4 DEF Breaker!RecordSuccess
      <3> HIDE DEF Closes
      <3>2. /\ under' \subseteq Calls \X BOOLEAN /\ IsFiniteSet(Probing')
            /\ Cardinality(Probing) \in Nat /\ Cardinality(Probing') \in Nat
            /\ Cardinality(Probing') \in {Cardinality(Probing), Cardinality(Probing) - 1}
        BY <3>1, BreakerEnding
      <3>3. QED
        BY <3>2
    <2>2. /\ Breaker!Count(successes) \in 0..MaxCount
          /\ Breaker!Count(successes) < SuccessThreshold =>
                Breaker!Count(successes) = successes + 1
      BY BreakerCounting DEF BreakerInv, Sorted
    <2>3. /\ failures' \in 0..MaxCount /\ probes' \in 0..HalfOpenMaxCalls
          /\ successes' \in 0..MaxCount /\ state' \in {"CLOSED", "OPEN", "HALF_OPEN"}
          /\ UNCHANGED <<tried, lost>>
      BY <1>4, <2>2, BreakerNumbers DEF Breaker!RecordSuccess, BreakerInv, Sorted
    <2>4. Breaker!ClosedIsHealthy'
      BY <1>4, BreakerNumbers DEF Breaker!RecordSuccess, BreakerInv, Sorted,
         Breaker!ClosedIsHealthy
    <2>5. CASE Closes
      <3>1. state' = "CLOSED"
        BY <1>4, <2>5 DEF Breaker!RecordSuccess
      <3>2. QED
        BY <2>1, <2>3, <2>4, <3>1 DEF BreakerInv, Sorted, ProbeInv, SuccessInv
    <2>6. CASE ~Closes
      <3>1. UNCHANGED <<state, probes>> /\ successes' = Breaker!Count(successes)
        BY <1>4, <2>6 DEF Breaker!RecordSuccess
      <3>2. ProbeInv'
        BY <2>3, <3>1 DEF BreakerInv, ProbeInv
      <3>3. state = "HALF_OPEN" => /\ successes' < SuccessThreshold
                                   /\ successes' = successes + 1
        BY <2>2, <2>6, <3>1, BreakerNumbers
      <3>4. SuccessInv'
        BY <1>0, <2>1, <2>3, <3>1, <3>3 DEF BreakerInv, Sorted, SuccessInv
      <3>5. QED
        BY <2>1, <2>3, <2>4, <3>2, <3>4 DEF BreakerInv, Sorted
    <2>7. QED
      BY <2>5, <2>6
  <1>5. ASSUME NEW d \in under, Breaker!RecordFailure(d) PROVE BreakerInv'
    <2>1. IsFiniteSet(Probing') /\ under' \subseteq Calls \X BOOLEAN
      BY <1>5, BreakerEnding DEF Breaker!RecordFailure
    <2>2. Sorted'
      BY <1>5, <2>1, BreakerCounting DEF Breaker!RecordFailure, BreakerInv, Sorted
    <2>3. state' # "HALF_OPEN"
      BY <1>5 DEF Breaker!RecordFailure, BreakerInv, Sorted
    <2>4. Breaker!ClosedIsHealthy'
      BY <1>5, <2>2, BreakerNumbers DEF Breaker!RecordFailure, Breaker!Opens, Sorted,
         Breaker!ClosedIsHealthy
    <2>5. QED
      BY <2>1, <2>2, <2>3, <2>4 DEF BreakerInv, ProbeInv, SuccessInv
  <1>6. ASSUME NEW d \in under, Breaker!CancelCall(d) PROVE BreakerInv'
    <2>1. /\ IsFiniteSet(Probing') /\ under' \subseteq Calls \X BOOLEAN
          /\ Cardinality(Probing') = Cardinality(Probing) \/ d[2] = TRUE
      BY <1>6, BreakerEnding DEF Breaker!CancelCall
    <2>2. /\ UNCHANGED <<state, failures, successes, probes, tried>>
          /\ d[2] = TRUE => lost'
          /\ lost => lost'
      BY <1>6 DEF Breaker!CancelCall
    <2>3. SuccessInv'
      BY <2>1, <2>2 DEF BreakerInv, SuccessInv
    <2>4. QED
      BY <2>1, <2>2, <2>3 DEF BreakerInv, Sorted, Breaker!ClosedIsHealthy, ProbeInv
  <1>7. CASE Breaker!ForceOpen \/ Breaker!ForceClose
    <2>1. Probing' = Probing /\ state' # "HALF_OPEN"
      BY <1>7 DEF Breaker!ForceOpen, Breaker!ForceClose, Probing
    <2>2. Sorted' /\ Breaker!ClosedIsHealthy'
      BY <1>7, BreakerNumbers DEF Breaker!ForceOpen, Breaker!ForceClose, BreakerInv,
         Sorted, Breaker!ClosedIsHealthy
    <2>3. QED
      BY <1>0, <2>1, <2>2 DEF BreakerInv, ProbeInv, SuccessInv
  <1>8. CASE Breaker!TimeoutPasses \/ UNCHANGED Breaker!vars
    <2>1. UNCHANGED <<state, failures, successes, probes, under, tried, lost>>
      BY <1>8 DEF Breaker!TimeoutPasses, Breaker!vars
    <2>2. QED
      BY <2>1 DEF BreakerInv, Sorted, Probing, Breaker!ClosedIsHealthy, ProbeInv,
         SuccessInv
  <1>9. QED
    BY <1>1, <1>2, <1>3, <1>4, <1>5, <1>6, <1>7, <1>8 DEF Breaker!Next

\* The invariant holds throughout.
LEMMA BreakerInvariant == Breaker!BreakerAssumptions /\ Breaker!Spec => []BreakerInv
  <1> SUFFICES ASSUME Breaker!BreakerAssumptions PROVE Breaker!Spec => []BreakerInv
    OBVIOUS
  <1>1. Breaker!Init => BreakerInv
    BY BreakerInit
  <1>2. BreakerInv /\ [Breaker!Next]_(Breaker!vars) => BreakerInv'
    BY BreakerStep
  <1>3. QED
    BY <1>1, <1>2, PTL DEF Breaker!Spec

\* All variables but the flags keep their types, a closed breaker has seen fewer
\* failures than its threshold, and one on probation has admitted the probes it
\* may and one more.
THEOREM FewFailuresFewProbes ==
    Breaker!BreakerAssumptions /\ Breaker!Spec =>
        [](Sorted /\ Breaker!ClosedIsHealthy /\ Breaker!ProbesAreBounded)
  <1> SUFFICES ASSUME Breaker!BreakerAssumptions
               PROVE  Breaker!Spec =>
                        [](Sorted /\ Breaker!ClosedIsHealthy /\ Breaker!ProbesAreBounded)
    OBVIOUS
  <1>1. BreakerInv => Sorted /\ Breaker!ClosedIsHealthy /\ Breaker!ProbesAreBounded
    BY BreakerNumbers DEF BreakerInv, Sorted, ProbeInv, Breaker!ProbesAreBounded
  <1>2. QED
    BY <1>1, BreakerInvariant, PTL

\* A breaker whose probes are all used and ended has decided, unless one of them
\* was cancelled: the success threshold can be reached with the probes it admits.
THEOREM ProbationEnds == Breaker!BreakerAssumptions /\ Breaker!Spec => []Breaker!NotStuck
  <1> SUFFICES ASSUME Breaker!BreakerAssumptions PROVE Breaker!Spec => []Breaker!NotStuck
    OBVIOUS
  <1>1. BreakerInv => Breaker!NotStuck
    <2> SUFFICES ASSUME BreakerInv, state = "HALF_OPEN", probes = HalfOpenMaxCalls,
                        under = {}, ~lost
                 PROVE  FALSE
      BY DEF Breaker!NotStuck
    <2>1. Cardinality(Probing) = 0
      BY FS_EmptySet DEF Probing
    <2>2. tried = HalfOpenMaxCalls + 1
      BY DEF BreakerInv, ProbeInv
    <2>3. QED
      BY <2>1, <2>2, BreakerNumbers DEF BreakerInv, Sorted, SuccessInv
  <1>2. QED
    BY <1>1, BreakerInvariant, PTL

(***************************************************************************)
(* Prices                                                                  *)
(***************************************************************************)

\* The TTL is a second at least, and the broadcasting task one of the readers.
PriceAssumptions == TTL \in Nat \ {0} /\ MaxTime \in Nat /\ Feed \in Readers

\* What was fetched is no older than the time its fetch began.
ReaderInv(r) ==
    /\ began[r] <= now
    /\ readerAt[r] = "fetched" => began[r] <= value[r]
    /\ readerAt[r] = "done" => 0 <= value[r] /\ began[r] - value[r] < TTL

\* Nor is what is cached older than its stamp.
CacheInv == cached.value # -1 => cached.stamp <= cached.value

\* Who is owed the current message: it was sent to him or is still to be.
RoundInv ==
    /\ steady \subseteq subscribed
    /\ loop = "sending" => steady \subseteq reached \union todo
    /\ loop = "asleep" => steady \subseteq reached

PricesInv ==
    /\ Prices!TypeOK
    /\ CacheInv
    /\ \A r \in Readers : ReaderInv(r)
    /\ Prices!ClientsAreFed
    /\ RoundInv

\* Init establishes the invariant.
LEMMA PricesInit == PriceAssumptions /\ Prices!Init => PricesInv
  <1> SUFFICES ASSUME PriceAssumptions, Prices!Init PROVE PricesInv
    OBVIOUS
  <1>1. /\ 0 \in 0..MaxTime /\ 0 \in -1..MaxTime /\ -1 \in -1..MaxTime
    BY DEF PriceAssumptions
  <1>2. Prices!TypeOK
    <2>1. cached \in [stamp : 0..MaxTime, value : -1..MaxTime]
      BY <1>1 DEF Prices!Init
    <2>2. halted \in BOOLEAN
      BY Zenon DEF Prices!Init
    <2>3. QED
      BY <1>1, <2>1, <2>2 DEF Prices!Init, Prices!TypeOK
  <1>3. CacheInv /\ Prices!ClientsAreFed /\ RoundInv
    BY DEF Prices!Init, CacheInv, Prices!ClientsAreFed, RoundInv
  <1>4. \A r \in Readers : ReaderInv(r)
    BY DEF Prices!Init, ReaderInv
  <1>5. QED
    BY <1>2, <1>3, <1>4 DEF PricesInv

\* What the invariant says of the cache and its readers, with the types.
CacheFine ==
    /\ now \in 0..MaxTime
    /\ cached \in [stamp : 0..MaxTime, value : -1..MaxTime]
    /\ readerAt \in [Readers -> {"idle", "fetching", "fetched", "done"}]
    /\ began \in [Readers -> 0..MaxTime]
    /\ value \in [Readers -> -1..MaxTime]
    /\ CacheInv
    /\ \A r \in Readers : ReaderInv(r)

\* Whatever a reader does to the cache keeps it so.
LEMMA ReaderStep ==
    ASSUME PriceAssumptions, CacheFine, NEW r \in Readers,
           Prices!Look(r) \/ Prices!Fetch(r) \/ Prices!Store(r) \/ Prices!FetchRaises(r)
    PROVE  CacheFine'
  <1> USE DEF PriceAssumptions, CacheFine, CacheInv, ReaderInv, Prices!Go
  <1>1. CASE Prices!Look(r)
    BY <1>1 DEF Prices!Look, Prices!Hit
  <1>2. CASE Prices!Fetch(r)
    BY <1>2 DEF Prices!Fetch
  <1>3. CASE Prices!Store(r)
    BY <1>3 DEF Prices!Store, Prices!StampOf
  <1>4. CASE Prices!FetchRaises(r)
    BY <1>4 DEF Prices!FetchRaises
  <1>5. QED
    BY <1>1, <1>2, <1>3, <1>4

\* What it says of the clients and the broadcasting task.
FeedFine ==
    /\ subscribed \subseteq clients /\ clients \subseteq Viewers
    /\ loop \in {"none", "top", "reading", "sending", "asleep"}
    /\ todo \subseteq Viewers /\ reached \subseteq Viewers /\ steady \subseteq Viewers
    /\ halted \in BOOLEAN
    /\ Prices!ClientsAreFed
    /\ RoundInv

\* A step keeps the invariant.
LEMMA PricesStep ==
    PriceAssumptions /\ PricesInv /\ [Prices!Next]_(Prices!vars) => PricesInv'
  <1> SUFFICES ASSUME PriceAssumptions, PricesInv, [Prices!Next]_(Prices!vars)
               PROVE  PricesInv'
    OBVIOUS
  <1>0. CacheFine /\ FeedFine /\ Feed \in Readers
    BY DEF PricesInv, Prices!TypeOK, CacheFine, FeedFine, PriceAssumptions
  <1>a. CacheFine' /\ FeedFine' => PricesInv'
    BY DEF PricesInv, Prices!TypeOK, CacheFine, FeedFine
  <1>b. UNCHANGED Prices!cache => CacheFine'
    BY <1>0 DEF CacheFine, CacheInv, ReaderInv, Prices!cache
  <1>c. UNCHANGED Prices!feed => FeedFine'
    BY <1>0 DEF FeedFine, RoundInv, Prices!ClientsAreFed, Prices!feed
  <1> USE DEF FeedFine, RoundInv, Prices!ClientsAreFed
  <1>1. CASE Prices!Tick
    <2>1. CacheFine'
      BY <1>0, <1>1 DEF Prices!Tick, PriceAssumptions, CacheFine, CacheInv, ReaderInv
    <2>2. QED
      BY <1>1, <1>a, <1>c, <2>1 DEF Prices!Tick
  <1>2. CASE Prices!LoopTop
    <2>1. CacheFine'
      BY <1>0, <1>2, <1>b, ReaderStep DEF Prices!LoopTop
    <2>2. FeedFine'
      BY <1>0, <1>2 DEF Prices!LoopTop, Prices!LoopEnds
    <2>3. QED
      BY <1>a, <2>1, <2>2
  <1>3. CASE Prices!LoopReads
    <2>1. CacheFine'
      BY <1>0, <1>3, ReaderStep DEF Prices!LoopReads
    <2>2. QED
      BY <1>3, <1>a, <1>c, <2>1 DEF Prices!LoopReads
  <1>4. CASE Prices!LoopFails
    <2>1. CacheFine'
      BY <1>0, <1>4, ReaderStep DEF Prices!LoopFails
    <2>2. FeedFine'
      BY <1>0, <1>4 DEF Prices!LoopFails
    <2>3. QED
      BY <1>a, <2>1, <2>2
  <1>5. CASE Prices!LoopSends
    <2>1. FeedFine'
      BY <1>0, <1>5 DEF Prices!LoopSends
    <2>2. QED
      BY <1>5, <1>a, <1>b, <2>1 DEF Prices!LoopSends
  <1>6. CASE Prices!LoopSleeps
    <2>1. FeedFine'
      BY <1>0, <1>6 DEF Prices!LoopSleeps
    <2>2. QED
      BY <1>6, <1>a, <1>b, <2>1 DEF Prices!LoopSleeps
  <1>7. ASSUME NEW r \in Readers, Prices!Request(r) PROVE PricesInv'
    <2>1. CacheFine'
      BY <1>0, <1>7, ReaderStep DEF Prices!Request
    <2>2. QED
      BY <1>7, <1>a, <1>c, <2>1 DEF Prices!Request
  <1>8. ASSUME NEW v \in Viewers,
               \/ Prices!Connect(v) \/ Prices!Disconnect(v) \/ Prices!Subscribe(v)
               \/ Prices!Unsubscribe(v) \/ Prices!SendTo(v)
        PROVE  PricesInv'
    <2>1. UNCHANGED Prices!cache
      BY <1>8 DEF Prices!Connect, Prices!Disconnect, Prices!Subscribe,
                  Prices!Unsubscribe, Prices!SendTo
    <2>2. CASE Prices!Connect(v)
      BY <1>0, <1>a, <1>b, <2>1, <2>2 DEF Prices!Connect
    <2>3. CASE Prices!Disconnect(v)
      BY <1>0, <1>a, <1>b, <2>1, <2>3 DEF Prices!Disconnect
    <2>4. CASE Prices!Subscribe(v)
      BY <1>0, <1>a, <1>b, <2>1, <2>4 DEF Prices!Subscribe
    <2>5. CASE Prices!Unsubscribe(v)
      BY <1>0, <1>a, <1>b, <2>1, <2>5 DEF Prices!Unsubscribe
    <2>6. CASE Prices!SendTo(v)
      BY <1>0, <1>a, <1>b, <2>1, <2>6 DEF Prices!SendTo, Prices!TodoAfter
    <2>7. QED
      BY <1>8, <2>2, <2>3, <2>4, <2>5, <2>6
  <1>9. CASE UNCHANGED Prices!vars
    BY <1>9, <1>a, <1>b, <1>c DEF Prices!vars, Prices!cache, Prices!feed
  <1>10. QED
    BY <1>1, <1>2, <1>3, <1>4, <1>5, <1>6, <1>7, <1>8, <1>9 DEF Prices!Next

\* No answer is older than the TTL, the task runs while somebody is connected, and
\* a round reaches all who stayed subscribed.
LEMMA PricesInvariant == PriceAssumptions /\ Prices!Spec => []PricesInv
  <1> SUFFICES ASSUME PriceAssumptions PROVE Prices!Spec => []PricesInv
    OBVIOUS
  <1>1. QED
    BY PricesInit, PricesStep, PTL DEF Prices!Spec

(***************************************************************************)
(* Channels of an alert                                                    *)
(***************************************************************************)

DeliveryAssumptions == NumChannels \in Nat /\ MaxRetries \in Nat \ {0}

\* What a channel has received and logged, for as long as it is not over and then.
ChannelInv(c) ==
    /\ channelAt[c] = "over" <=> result[c] # "none"
    /\ got[c] <= unsure[c] + (IF result[c] = "sent" THEN 1 ELSE 0)
    /\ result[c] = "sent" => got[c] > 0
    /\ result[c] = "failed" => attempt[c] = MaxRetries
    /\ \A entered \in rows[c] :
          /\ entered[1] <= attempt[c]
          /\ entered[2] = "sent" => result[c] = "sent"
          /\ entered[2] = "skipped" => result[c] = "skipped"
          /\ entered[2] \in {"sent", "skipped"} => entered[1] = attempt[c]
          /\ entered[2] = "failed" => entered[1] < attempt[c] \/ result[c] = "failed"

\* Unless the alert is critical, the channels before one are over and those
\* behind it wait.
Frontier(k) ==
    /\ \A c \in Delivery!Channels : c < k => channelAt[c] = "over"
    /\ \A c \in Delivery!Channels : c > k => channelAt[c] = "waiting"

DeliveryInv ==
    /\ Delivery!TypeOK
    /\ \A c \in Delivery!Channels : ChannelInv(c)
    /\ critical \/ \E k \in 1..NumChannels + 1 : Frontier(k)

\* Init establishes the invariant.
LEMMA DeliveryInit == DeliveryAssumptions /\ Delivery!Init => DeliveryInv
  <1> SUFFICES ASSUME DeliveryAssumptions, Delivery!Init PROVE DeliveryInv
    OBVIOUS
  <1>1. Delivery!TypeOK
    <2>1. broken \in BOOLEAN /\ critical \in BOOLEAN
      BY Zenon DEF Delivery!Init
    <2>2. QED
      BY <2>1 DEF Delivery!Init, Delivery!TypeOK, Delivery!Attempts, Delivery!Results,
                  DeliveryAssumptions
  <1>2. \A c \in Delivery!Channels : ChannelInv(c)
    BY DEF Delivery!Init, ChannelInv
  <1>3. Frontier(1) /\ 1 \in 1..NumChannels + 1
    BY DEF Delivery!Init, Delivery!Channels, Frontier, DeliveryAssumptions
  <1>4. QED
    BY <1>1, <1>2, <1>3 DEF DeliveryInv

\* A row is added or not, whatever became of the session.
LEMMA Logging ==
    ASSUME Delivery!TypeOK, NEW c \in Delivery!Channels,
           NEW what \in {"pending", "sent", "skipped", "failed"},
           Delivery!LogRow(c, what)
    PROVE  /\ rows' \in [Delivery!Channels -> SUBSET (Delivery!Attempts \X
                                    {"pending", "sent", "skipped", "failed"})]
           /\ broken' \in BOOLEAN
           /\ rows'[c] \subseteq rows[c] \union {<<attempt[c], what>>}
           /\ \A d \in Delivery!Channels \ {c} : rows'[d] = rows[d]
  <1> DEFINE new == <<attempt[c], what>>
  <1>1. new \in Delivery!Attempts \X {"pending", "sent", "skipped", "failed"}
    BY DEF Delivery!TypeOK
  <1>2. broken' \in BOOLEAN
    BY Zenon DEF Delivery!LogRow, Delivery!TypeOK
  <1>3. rows' = [rows EXCEPT ![c] = @ \union {new}] \/ rows' = rows
    BY DEF Delivery!LogRow
  <1> HIDE DEF new
  <1>4. /\ rows' \in [Delivery!Channels -> SUBSET (Delivery!Attempts \X
                                    {"pending", "sent", "skipped", "failed"})]
        /\ rows'[c] \subseteq rows[c] \union {new}
        /\ \A d \in Delivery!Channels \ {c} : rows'[d] = rows[d]
    BY <1>1, <1>3 DEF Delivery!TypeOK
  <1>5. QED
    BY <1>2, <1>4 DEF new

\* A step of one channel keeps what is known of it, and says nothing of others.
LEMMA ChannelStep ==
    ASSUME DeliveryAssumptions, DeliveryInv, NEW c \in Delivery!Channels,
           \/ Delivery!BeginAttempt(c) \/ Delivery!Sent(c) \/ Delivery!Skipped(c)
           \/ \E taken \in {0, 1} : Delivery!Failed(c, taken)
    PROVE  /\ Delivery!TypeOK'
           /\ \A d \in Delivery!Channels : ChannelInv(d)'
  <1> USE DEF DeliveryAssumptions, DeliveryInv, Delivery!TypeOK, Delivery!Attempts,
              Delivery!Results
  <1>1. CASE Delivery!BeginAttempt(c)
    <2>1. Delivery!LogRow(c, "pending")
      BY <1>1 DEF Delivery!BeginAttempt
    <2>2. Delivery!TypeOK'
      BY <1>1, <2>1, Logging DEF Delivery!BeginAttempt
    <2>3. ChannelInv(c)'
      BY <1>1, <2>1, Logging DEF Delivery!BeginAttempt, ChannelInv
    <2>4. \A d \in Delivery!Channels \ {c} : ChannelInv(d)'
      BY <1>1, <2>1, Logging DEF Delivery!BeginAttempt, ChannelInv
    <2>5. QED
      BY <2>2, <2>3, <2>4
  <1>2. CASE Delivery!Sent(c)
    <2>1. Delivery!LogRow(c, "sent")
      BY <1>2 DEF Delivery!Sent
    <2>2. Delivery!TypeOK'
      BY <1>2, <2>1, Logging DEF Delivery!Sent, Delivery!Return, Delivery!After
    <2>3. ChannelInv(c)'
      BY <1>2, <2>1, Logging DEF Delivery!Sent, Delivery!Return, Delivery!After, ChannelInv
    <2>4. \A d \in Delivery!Channels \ {c} : ChannelInv(d)'
      BY <1>2, <2>1, Logging DEF Delivery!Sent, Delivery!Return, Delivery!After, ChannelInv
    <2>5. QED
      BY <2>2, <2>3, <2>4
  <1>3. CASE Delivery!Skipped(c)
    <2>1. Delivery!LogRow(c, "skipped")
      BY <1>3 DEF Delivery!Skipped
    <2>2. Delivery!TypeOK'
      BY <1>3, <2>1, Logging DEF Delivery!Skipped, Delivery!Return, Delivery!After
    <2>3. ChannelInv(c)'
      BY <1>3, <2>1, Logging DEF Delivery!Skipped, Delivery!Return, Delivery!After,
                                 ChannelInv
    <2>4. \A d \in Delivery!Channels \ {c} : ChannelInv(d)'
      BY <1>3, <2>1, Logging DEF Delivery!Skipped, Delivery!Return, Delivery!After,
                                 ChannelInv
    <2>5. QED
      BY <2>2, <2>3, <2>4
  <1>4. ASSUME NEW taken \in {0, 1}, Delivery!Failed(c, taken)
        PROVE  /\ Delivery!TypeOK'
               /\ \A d \in Delivery!Channels : ChannelInv(d)'
    <2> USE DEF Delivery!Failed, Delivery!HasAttempts, Delivery!Return, Delivery!After
    <2>1. Delivery!LogRow(c, "failed")
      BY <1>4
    <2>2. Delivery!TypeOK'
      BY <1>4, <2>1, Logging
    <2>3. ChannelInv(c)'
      BY <1>4, <2>1, Logging DEF ChannelInv
    <2>4. \A d \in Delivery!Channels \ {c} : ChannelInv(d)'
      BY <1>4, <2>1, Logging DEF ChannelInv
    <2>5. QED
      BY <2>2, <2>3, <2>4
  <1>5. QED
    BY <1>1, <1>2, <1>3, <1>4

\* The frontier moves to the channel that starts, and stays where one goes on.
LEMMA FrontierStep ==
    ASSUME DeliveryAssumptions, DeliveryInv, NEW c \in Delivery!Channels, ~critical,
           \/ Delivery!BeginAttempt(c) \/ Delivery!Sent(c) \/ Delivery!Skipped(c)
           \/ \E taken \in {0, 1} : Delivery!Failed(c, taken)
    PROVE  \E k \in 1..NumChannels + 1 : Frontier(k)'
  <1> USE DEF DeliveryAssumptions, Delivery!Channels
  <1>1. PICK k \in 1..NumChannels + 1 : Frontier(k)
    BY DEF DeliveryInv
  <1>2. channelAt \in [Delivery!Channels -> {"waiting", "sending", "pausing", "over"}]
    BY DEF DeliveryInv, Delivery!TypeOK
  <1>3. CASE channelAt[c] = "waiting"
    <2>1. channelAt' = [channelAt EXCEPT ![c] = "sending"] /\ Delivery!MayStart(c)
      BY <1>3 DEF Delivery!BeginAttempt, Delivery!Sent, Delivery!Skipped, Delivery!Failed
    <2>2. Frontier(c)'
      BY <1>1, <1>2, <1>3, <2>1 DEF Frontier, Delivery!MayStart
    <2>3. QED
      BY <2>2
  <1>4. CASE channelAt[c] # "waiting"
    <2>1. channelAt[c] # "over" /\ \E place \in {"sending", "pausing", "over"} :
                                      channelAt' = [channelAt EXCEPT ![c] = place]
      BY <1>4 DEF Delivery!BeginAttempt, Delivery!Sent, Delivery!Skipped, Delivery!Failed,
                  Delivery!Return, Delivery!After
    <2>2. c = k
      BY <1>1, <1>4, <2>1 DEF Frontier
    <2>3. Frontier(k)'
      BY <1>1, <1>2, <2>1, <2>2 DEF Frontier
    <2>4. QED
      BY <2>3
  <1>5. QED
    BY <1>3, <1>4

\* The invariant holds throughout.
LEMMA DeliveryInvariant == DeliveryAssumptions /\ Delivery!Spec => []DeliveryInv
  <1> SUFFICES ASSUME DeliveryAssumptions PROVE Delivery!Spec => []DeliveryInv
    OBVIOUS
  <1>1. DeliveryInv /\ [Delivery!Next]_(Delivery!vars) => DeliveryInv'
    <2> SUFFICES ASSUME DeliveryInv, [Delivery!Next]_(Delivery!vars) PROVE DeliveryInv'
      OBVIOUS
    <2>1. ASSUME NEW c \in Delivery!Channels,
                 \/ Delivery!BeginAttempt(c) \/ Delivery!Sent(c) \/ Delivery!Skipped(c)
                 \/ \E taken \in {0, 1} : Delivery!Failed(c, taken)
          PROVE  DeliveryInv'
      <3>1. critical' = critical
        BY <2>1 DEF Delivery!BeginAttempt, Delivery!Sent, Delivery!Skipped, Delivery!Failed
      <3>2. QED
        BY <2>1, <3>1, ChannelStep, FrontierStep DEF DeliveryInv
    <2>2. CASE UNCHANGED Delivery!vars
      BY <2>2 DEF Delivery!vars, DeliveryInv, Delivery!TypeOK, ChannelInv, Frontier
    <2>3. QED
      BY <2>1, <2>2 DEF Delivery!Next
  <1>2. QED
    BY <1>1, DeliveryInit, PTL DEF Delivery!Spec

\* What the run checks of the delivery follows from the invariant.
LEMMA Delivered ==
    DeliveryAssumptions /\ DeliveryInv =>
        /\ Delivery!RepeatedOnlyIfUnsure
        /\ Delivery!LogTellsTheTruth
        /\ Delivery!NoChannelIsForgotten
  <1> SUFFICES ASSUME DeliveryAssumptions, DeliveryInv
               PROVE  /\ Delivery!RepeatedOnlyIfUnsure
                      /\ Delivery!LogTellsTheTruth
                      /\ Delivery!NoChannelIsForgotten
    OBVIOUS
  <1>1. Delivery!RepeatedOnlyIfUnsure
    BY DEF DeliveryInv, ChannelInv, Delivery!RepeatedOnlyIfUnsure
  <1>2. Delivery!LogTellsTheTruth
    <2> SUFFICES ASSUME NEW c \in Delivery!Channels, NEW entered \in rows[c]
                 PROVE  /\ entered[2] = "sent" => result[c] = "sent" /\ got[c] > 0
                        /\ entered[2] \in {"sent", "skipped"} =>
                              \A later \in rows[c] : later[1] <= entered[1]
                        /\ entered = <<MaxRetries, "failed">> => result[c] = "failed"
      BY DEF Delivery!LogTellsTheTruth
    <2>1. ChannelInv(c) /\ attempt[c] \in 1..MaxRetries
      BY DEF DeliveryInv, Delivery!TypeOK, Delivery!Attempts
    <2>2. QED
      BY <2>1 DEF ChannelInv, DeliveryAssumptions
  <1>3. Delivery!NoChannelIsForgotten
    <2> SUFFICES ASSUME \A c \in Delivery!Channels : channelAt[c] \in {"waiting", "over"},
                        NEW c \in Delivery!Channels, result[c] = "none"
                 PROVE  \E d \in Delivery!Channels :
                           channelAt[d] = "waiting" /\ Delivery!MayStart(d)
      BY DEF Delivery!NoChannelIsForgotten
    <2> USE DEF DeliveryAssumptions, Delivery!Channels, Delivery!MayStart
    <2>1. channelAt[c] = "waiting"
      BY DEF DeliveryInv, ChannelInv
    <2>2. CASE critical
      BY <2>1, <2>2
    <2>3. CASE ~critical
      <3>1. PICK k \in 1..NumChannels + 1 : Frontier(k)
        BY <2>3 DEF DeliveryInv
      <3>2. k <= c
        BY <2>1, <3>1 DEF Frontier
      <3>3. CASE channelAt[k] = "waiting"
        BY <3>1, <3>2, <3>3 DEF Frontier
      <3>4. CASE channelAt[k] = "over"
        <4>1. k < c
          BY <2>1, <3>2, <3>4
        <4>2. k + 1 \in Delivery!Channels /\ channelAt[k + 1] = "waiting"
          BY <3>1, <4>1 DEF Frontier
        <4>3. \A d \in 1..(k + 1) - 1 : channelAt[d] = "over"
          BY <3>1, <3>4, <4>1 DEF Frontier
        <4>4. QED
          BY <4>2, <4>3
      <3>5. QED
        BY <3>1, <3>2, <3>3, <3>4
    <2>4. QED
      BY <2>2, <2>3
  <1>4. QED
    BY <1>1, <1>2, <1>3

(***************************************************************************)
(* Anomalies                                                               *)
(***************************************************************************)

AnomalyAssumptions ==
    /\ Critical \in Nat \ {0} /\ NumRules \in Nat
    /\ MaxPerHour \in Nat /\ MaxHours \in Nat

\* A key in Redis is the severity of an event that was let through, and so is what
\* a suppressed event was compared with.
KeyInv ==
    /\ key # 0 => \E f \in Events : Anomaly!LetThrough(f) /\ severity[f] >= key
    /\ Anomaly!SuppressedForAReason

\* While nothing is mixed, fails or expires: one event at a time is about to be
\* stored, as the most severe so far, and the key is the most severe of the others.
StoredInv ==
    ~mixed /\ ~failed /\ ~expired =>
        /\ \A e, f \in Events : eventAt[e] = "storing" /\ eventAt[f] = "storing" => e = f
        /\ \A e \in Events :
              /\ eventAt[e] = "storing" => severity[e] > key
              /\ Anomaly!LetThrough(e) /\ eventAt[e] # "storing" => severity[e] <= key
        /\ \A e, f \in Events :
              e # f /\ Anomaly!LetThrough(e) /\ Anomaly!LetThrough(f) =>
                  severity[e] # severity[f]

\* While nothing is mixed or fails, the counter is the number of alerts, and there
\* is room for the one event that is about to be counted.
RateInv ==
    ~mixed /\ ~failed =>
        /\ counter = alerts
        /\ alerts <= MaxPerHour
        /\ \A e \in Events : eventAt[e] = "counting" =>
              /\ counter < MaxPerHour
              /\ \A f \in Events \ {e} : eventAt[f] # "counting"

\* A critical event has matched every rule before the one it is at.
CriticalInv(e) ==
    severity[e] = Critical =>
        /\ eventAt[e] # "counting"
        /\ matched[e] = 1..(rule[e] - 1)
        /\ eventAt[e] = "done" => rule[e] = NumRules + 1

\* The types, those of the flags by themselves.
Flags == ttl \in BOOLEAN /\ mixed \in BOOLEAN /\ failed \in BOOLEAN /\ expired \in BOOLEAN
AnomalySorted ==
    /\ severity \in [Events -> Anomaly!Severities]
    /\ eventAt \in [Events -> Anomaly!Places]
    /\ rule \in [Events -> 1..NumRules + 1]
    /\ \A e \in Events : eventAt[e] = "counting" => rule[e] \in Anomaly!Rules
    /\ matched \in [Events -> SUBSET Anomaly!Rules]
    /\ key \in 0..Critical
    /\ hour \in 0..MaxHours
    /\ counter \in Nat /\ alerts \in Nat

AnomalyInv ==
    /\ Flags /\ AnomalySorted
    /\ KeyInv
    /\ StoredInv
    /\ RateInv
    /\ \A e \in Events : CriticalInv(e)

\* Init establishes the invariant.
LEMMA AnomalyInit == AnomalyAssumptions /\ Anomaly!Init => AnomalyInv
  <1> SUFFICES ASSUME AnomalyAssumptions, Anomaly!Init PROVE AnomalyInv
    OBVIOUS
  <1>1. Flags
    BY Zenon DEF Anomaly!Init, Flags
  <1>a. AnomalySorted
    BY DEF Anomaly!Init, AnomalySorted, Anomaly!Places, Anomaly!Rules, Anomaly!Severities,
           AnomalyAssumptions
  <1>2. KeyInv /\ StoredInv /\ RateInv
    BY DEF Anomaly!Init, KeyInv, StoredInv, RateInv, Anomaly!LetThrough,
           Anomaly!SuppressedForAReason, AnomalyAssumptions
  <1>3. \A e \in Events : CriticalInv(e)
    BY DEF Anomaly!Init, CriticalInv
  <1>4. QED
    BY <1>1, <1>a, <1>2, <1>3 DEF AnomalyInv

\* A step keeps the types of the flags,
LEMMA AnomalyFlags ==
    ASSUME Flags, [Anomaly!Next]_(Anomaly!vars) PROVE Flags'
  <1> USE DEF Flags
  <1>1. ASSUME NEW e \in Events,
               Anomaly!LookUp(e) \/ Anomaly!LookUpFails(e) \/ Anomaly!StoreFails(e)
        PROVE  Flags'
    BY <1>1, Zenon DEF Anomaly!LookUp, Anomaly!Together, Anomaly!LookUpFails,
                Anomaly!StoreFails, Anomaly!dedup
  <1>2. ASSUME NEW e \in Events, Anomaly!Store(e) \/ Anomaly!SetExpiry(e)
        PROVE  Flags'
    BY <1>2, Zenon DEF Anomaly!Store, Anomaly!SetExpiry
  <1>3. ASSUME NEW e \in Events,
               \/ Anomaly!MatchCritical(e) \/ Anomaly!SkipQuiet(e) \/ Anomaly!CheckRate(e)
               \/ Anomaly!CheckRateFails(e)
        PROVE  Flags'
    BY <1>3, Zenon DEF Anomaly!MatchCritical, Anomaly!SkipQuiet, Anomaly!CheckRate,
                Anomaly!Together, Anomaly!CheckRateFails, Anomaly!dedup
  <1>4. ASSUME NEW e \in Events,
               Anomaly!CountAlert(e) \/ Anomaly!Deliver(e) \/ Anomaly!LoseEvent(e)
        PROVE  Flags'
    BY <1>4, Zenon DEF Anomaly!CountAlert, Anomaly!Deliver, Anomaly!LoseEvent,
       Anomaly!dedup
  <1>5. CASE Anomaly!KeyExpires \/ Anomaly!HourPasses \/ UNCHANGED Anomaly!vars
    BY <1>5, Zenon DEF Anomaly!KeyExpires, Anomaly!HourPasses, Anomaly!vars, Anomaly!dedup
  <1>6. QED
    BY <1>1, <1>2, <1>3, <1>4, <1>5 DEF Anomaly!Next

\* and those of the other variables.
LEMMA AnomalyTypes ==
    ASSUME AnomalyAssumptions, AnomalySorted, [Anomaly!Next]_(Anomaly!vars)
    PROVE  AnomalySorted'
  <1> USE DEF AnomalyAssumptions, AnomalySorted, Anomaly!Places, Anomaly!Severities,
              Anomaly!Rules, Anomaly!Go, Anomaly!NextRule, Anomaly!AtRule,
              Anomaly!dedup, Anomaly!rate
  <1>1. ASSUME NEW e \in Events,
               \/ Anomaly!LookUp(e) \/ Anomaly!LookUpFails(e) \/ Anomaly!Store(e)
               \/ Anomaly!SetExpiry(e) \/ Anomaly!StoreFails(e)
        PROVE  AnomalySorted'
    BY <1>1 DEF Anomaly!LookUp, Anomaly!LookUpFails, Anomaly!Store, Anomaly!Stored,
                Anomaly!SetExpiry, Anomaly!StoreFails
  <1>2. ASSUME NEW e \in Events,
               \/ Anomaly!MatchCritical(e) \/ Anomaly!SkipQuiet(e) \/ Anomaly!CheckRate(e)
               \/ Anomaly!CheckRateFails(e)
        PROVE  AnomalySorted'
    BY <1>2 DEF Anomaly!MatchCritical, Anomaly!SkipQuiet, Anomaly!CheckRate,
                Anomaly!CheckRateFails
  <1>3. ASSUME NEW e \in Events,
               Anomaly!CountAlert(e) \/ Anomaly!Deliver(e) \/ Anomaly!LoseEvent(e)
        PROVE  AnomalySorted'
    <2>1. CASE Anomaly!CountAlert(e)
      <3>1. /\ eventAt[e] = "counting" /\ rule[e] \in 1..NumRules
            /\ counter' \in Nat /\ alerts' \in Nat
            /\ UNCHANGED <<severity, matched, key, hour>>
        BY <2>1 DEF Anomaly!CountAlert
      <3>2. QED
        BY <2>1, <3>1 DEF Anomaly!CountAlert
    <2>2. CASE Anomaly!Deliver(e) \/ Anomaly!LoseEvent(e)
      BY <2>2 DEF Anomaly!Deliver, Anomaly!LoseEvent
    <2>3. QED
      BY <1>3, <2>1, <2>2
  <1>4. CASE Anomaly!KeyExpires \/ Anomaly!HourPasses \/ UNCHANGED Anomaly!vars
    BY <1>4 DEF Anomaly!KeyExpires, Anomaly!HourPasses, Anomaly!vars
  <1>5. QED
    BY <1>1, <1>2, <1>3, <1>4 DEF Anomaly!Next

\* Severities are given, and who was let through stays so.
LEMMA LetThroughForGood ==
    ASSUME AnomalySorted, [Anomaly!Next]_(Anomaly!vars)
    PROVE  /\ severity' = severity
           /\ \A f \in Events : Anomaly!LetThrough(f) => Anomaly!LetThrough(f)'
  <1> USE DEF AnomalySorted, Anomaly!Go, Anomaly!LetThrough, Anomaly!AtRule
  <1>1. ASSUME NEW e \in Events,
               \/ Anomaly!LookUp(e) \/ Anomaly!LookUpFails(e) \/ Anomaly!Store(e)
               \/ Anomaly!SetExpiry(e) \/ Anomaly!StoreFails(e)
        PROVE  /\ severity' = severity
               /\ \A f \in Events : Anomaly!LetThrough(f) => Anomaly!LetThrough(f)'
    BY <1>1 DEF Anomaly!LookUp, Anomaly!LookUpFails, Anomaly!Store, Anomaly!SetExpiry,
                Anomaly!StoreFails
  <1>2. ASSUME NEW e \in Events,
               \/ Anomaly!MatchCritical(e) \/ Anomaly!SkipQuiet(e) \/ Anomaly!CheckRate(e)
               \/ Anomaly!CheckRateFails(e) \/ Anomaly!CountAlert(e)
               \/ Anomaly!Deliver(e) \/ Anomaly!LoseEvent(e)
        PROVE  /\ severity' = severity
               /\ \A f \in Events : Anomaly!LetThrough(f) => Anomaly!LetThrough(f)'
    BY <1>2 DEF Anomaly!MatchCritical, Anomaly!SkipQuiet, Anomaly!CheckRate,
                Anomaly!CheckRateFails, Anomaly!CountAlert, Anomaly!Deliver,
                Anomaly!LoseEvent
  <1>3. CASE Anomaly!KeyExpires \/ Anomaly!HourPasses \/ UNCHANGED Anomaly!vars
    BY <1>3 DEF Anomaly!KeyExpires, Anomaly!HourPasses, Anomaly!vars
  <1>4. QED
    BY <1>1, <1>2, <1>3 DEF Anomaly!Next

\* A step keeps what is known of the key and of the suppressed.
LEMMA KeyStep ==
    ASSUME AnomalyAssumptions, AnomalySorted, KeyInv, [Anomaly!Next]_(Anomaly!vars)
    PROVE  KeyInv'
  <1> USE DEF KeyInv, Anomaly!SuppressedForAReason
  <1>1. ASSUME NEW e \in Events, Anomaly!LookUp(e) PROVE KeyInv'
    <2>1. /\ key' = key
          /\ \A f \in Events : eventAt'[f] = "suppressed" =>
                eventAt[f] = "suppressed" \/ (f = e /\ severity[e] <= key /\ key # 0)
      BY <1>1 DEF Anomaly!LookUp, Anomaly!IsNews, Anomaly!Go, AnomalySorted,
                  Anomaly!Severities, Anomaly!dedup, AnomalyAssumptions
    <2>2. \A f \in Events : severity[f] \in Nat /\ key \in Nat
      BY DEF AnomalySorted, Anomaly!Severities, AnomalyAssumptions
    <2>3. QED
      BY <2>1, <2>2, LetThroughForGood
  <1>2. ASSUME NEW e \in Events, Anomaly!Store(e) PROVE KeyInv'
    <2>1. /\ key' = severity[e] /\ Anomaly!LetThrough(e)
          /\ \A f \in Events : eventAt'[f] = "suppressed" => eventAt[f] = "suppressed"
          /\ severity[e] >= severity[e]
      BY <1>2 DEF Anomaly!Store, Anomaly!Stored, Anomaly!Go, AnomalySorted,
                  Anomaly!LetThrough, Anomaly!Severities, AnomalyAssumptions
    <2>2. QED
      BY <2>1, LetThroughForGood
  <1>3. CASE /\ key' = key \/ key' = 0
             /\ \A f \in Events : eventAt'[f] = "suppressed" => eventAt[f] = "suppressed"
    BY <1>3, LetThroughForGood
  <1> USE DEF AnomalySorted, Anomaly!Go, Anomaly!dedup
  <1>4. ASSUME NEW e \in Events,
               \/ Anomaly!LookUpFails(e) \/ Anomaly!SetExpiry(e) \/ Anomaly!StoreFails(e)
        PROVE  KeyInv'
    BY <1>3, <1>4 DEF Anomaly!LookUpFails, Anomaly!SetExpiry, Anomaly!StoreFails
  <1>5. ASSUME NEW e \in Events,
               \/ Anomaly!MatchCritical(e) \/ Anomaly!SkipQuiet(e) \/ Anomaly!CheckRate(e)
               \/ Anomaly!CheckRateFails(e) \/ Anomaly!CountAlert(e)
               \/ Anomaly!Deliver(e) \/ Anomaly!LoseEvent(e)
        PROVE  KeyInv'
    BY <1>3, <1>5 DEF Anomaly!MatchCritical, Anomaly!SkipQuiet, Anomaly!CheckRate,
                Anomaly!CheckRateFails, Anomaly!CountAlert, Anomaly!Deliver,
                Anomaly!LoseEvent
  <1>6. CASE Anomaly!KeyExpires \/ Anomaly!HourPasses \/ UNCHANGED Anomaly!vars
    BY <1>3, <1>6 DEF Anomaly!KeyExpires, Anomaly!HourPasses, Anomaly!vars
  <1>7. QED
    BY <1>1, <1>2, <1>4, <1>5, <1>6 DEF Anomaly!Next

\* A step keeps what is known of the stored severities.
LEMMA StoredStep ==
    ASSUME AnomalyAssumptions, AnomalySorted, StoredInv, [Anomaly!Next]_(Anomaly!vars)
    PROVE  StoredInv'
  <1>0. severity \in [Events -> Nat] /\ key \in Nat
    BY DEF AnomalySorted, Anomaly!Severities, AnomalyAssumptions
  <1> USE DEF StoredInv, Anomaly!LetThrough
  <1>1. ASSUME NEW e \in Events, Anomaly!LookUp(e) PROVE StoredInv'
    <2>1. /\ UNCHANGED <<severity, key, failed, expired>>
          /\ eventAt[e] = "idle"
          /\ \/ severity[e] > key /\ eventAt' = [eventAt EXCEPT ![e] = "storing"]
             \/ severity[e] <= key /\ eventAt' = [eventAt EXCEPT ![e] = "suppressed"]
      <3>1. UNCHANGED <<severity, key, failed, expired>> /\ eventAt[e] = "idle"
        BY <1>1, Zenon DEF Anomaly!LookUp, Anomaly!dedup
      <3>2. eventAt' = [eventAt EXCEPT ![e] = IF severity[e] > key THEN "storing"
                                                                  ELSE "suppressed"]
        BY <1>1 DEF Anomaly!LookUp, Anomaly!IsNews, Anomaly!Go
      <3>3. severity[e] > key \/ (severity[e] <= key /\ ~(severity[e] > key))
        BY <1>0
      <3>4. QED
        BY <3>1, <3>2, <3>3, Zenon
    <2>2. ~mixed' => ~mixed /\ \A f \in Events \ {e} : eventAt[f] # "storing"
      BY <1>1 DEF Anomaly!LookUp, Anomaly!Together
    <2>3. QED
      BY <1>0, <2>1, <2>2 DEF AnomalySorted
  <1>2. ASSUME NEW e \in Events, Anomaly!Store(e) PROVE StoredInv'
    <2>1. /\ UNCHANGED <<severity, mixed, failed, expired>>
          /\ eventAt[e] = "storing" /\ eventAt' = [eventAt EXCEPT ![e] = "expiring"]
          /\ key' = severity[e]
      BY <1>2 DEF Anomaly!Store, Anomaly!Stored, Anomaly!Go
    <2>2. QED
      BY <1>0, <2>1 DEF AnomalySorted
  \* Every other step stores nothing, and lets nobody through unless something fails.
  <1>3. CASE /\ UNCHANGED <<severity, key>>
             /\ ~mixed' /\ ~failed' /\ ~expired' =>
                   /\ ~mixed /\ ~failed /\ ~expired
                   /\ \A f \in Events :
                         /\ eventAt'[f] = "storing" <=> eventAt[f] = "storing"
                         /\ Anomaly!LetThrough(f)' <=> Anomaly!LetThrough(f)
    BY <1>3
  <1>4. CASE expired'
    BY <1>4
  <1>5. CASE failed'
    BY <1>5
  <1> HIDE DEF StoredInv
  <1> USE DEF AnomalySorted, Anomaly!Go, Anomaly!dedup, Anomaly!Together, Anomaly!AtRule
  <1>6. ASSUME NEW e \in Events, Anomaly!LookUpFails(e) \/ Anomaly!StoreFails(e)
        PROVE  StoredInv'
    BY <1>5, <1>6 DEF Anomaly!LookUpFails, Anomaly!StoreFails
  <1>7. ASSUME NEW e \in Events, Anomaly!SetExpiry(e) \/ Anomaly!LoseEvent(e)
        PROVE  StoredInv'
    BY <1>3, <1>5, <1>7 DEF Anomaly!SetExpiry, Anomaly!LoseEvent
  <1>8. ASSUME NEW e \in Events,
               \/ Anomaly!MatchCritical(e) \/ Anomaly!SkipQuiet(e) \/ Anomaly!CheckRate(e)
               \/ Anomaly!CheckRateFails(e) \/ Anomaly!CountAlert(e) \/ Anomaly!Deliver(e)
        PROVE  StoredInv'
    BY <1>3, <1>5, <1>8 DEF Anomaly!MatchCritical, Anomaly!SkipQuiet, Anomaly!CheckRate,
                Anomaly!CheckRateFails, Anomaly!CountAlert, Anomaly!Deliver
  <1>9. CASE Anomaly!KeyExpires
    BY <1>4, <1>9 DEF Anomaly!KeyExpires
  <1>10. CASE Anomaly!HourPasses \/ UNCHANGED Anomaly!vars
    BY <1>3, <1>10 DEF Anomaly!HourPasses, Anomaly!vars
  <1>11. QED
    BY <1>1, <1>2, <1>6, <1>7, <1>8, <1>9, <1>10 DEF Anomaly!Next

\* A step keeps what is known of the counter.
LEMMA RateStep ==
    ASSUME AnomalyAssumptions, AnomalySorted, RateInv, [Anomaly!Next]_(Anomaly!vars)
    PROVE  RateInv'
  <1>0. counter \in Nat /\ alerts \in Nat /\ MaxPerHour \in Nat
    BY DEF AnomalySorted, AnomalyAssumptions
  <1> USE DEF RateInv
  <1>1. ASSUME NEW e \in Events, Anomaly!CheckRate(e) PROVE RateInv'
    <2>1. /\ UNCHANGED <<counter, alerts, failed>>
          /\ ~mixed' => ~mixed /\ \A f \in Events \ {e} : eventAt[f] # "counting"
          /\ \/ counter < MaxPerHour /\ eventAt' = [eventAt EXCEPT ![e] = "counting"]
             \/ eventAt' = eventAt
      BY <1>1 DEF Anomaly!CheckRate, Anomaly!UnderLimit, Anomaly!Go, Anomaly!Together,
                  Anomaly!rate
    <2>2. QED
      BY <2>1 DEF AnomalySorted
  <1>2. ASSUME NEW e \in Events, Anomaly!CountAlert(e) PROVE RateInv'
    <2>1. /\ eventAt[e] = "counting" /\ eventAt' = [eventAt EXCEPT ![e] = "matching"]
          /\ alerts' = alerts + 1 /\ mixed' = mixed
          /\ failed' \/ (counter' = counter + 1 /\ failed' = failed)
      BY <1>2 DEF Anomaly!CountAlert, Anomaly!Go
    <2>2. QED
      BY <1>0, <2>1 DEF AnomalySorted
  <1>3. CASE Anomaly!HourPasses
    BY <1>0, <1>3 DEF Anomaly!HourPasses
  \* Every other step leaves the counter, and nobody comes to count unless Redis fails.
  <1>4. CASE /\ UNCHANGED <<counter, alerts>>
             /\ ~mixed' /\ ~failed' =>
                   /\ ~mixed /\ ~failed
                   /\ \A f \in Events : eventAt'[f] = "counting" => eventAt[f] = "counting"
    BY <1>4
  <1> HIDE DEF RateInv
  <1> USE DEF AnomalySorted, Anomaly!Go, Anomaly!rate, Anomaly!Together, Anomaly!AtRule
  <1>5. ASSUME NEW e \in Events,
               \/ Anomaly!LookUp(e) \/ Anomaly!LookUpFails(e) \/ Anomaly!Store(e)
               \/ Anomaly!SetExpiry(e) \/ Anomaly!StoreFails(e)
        PROVE  RateInv'
    BY <1>4, <1>5 DEF Anomaly!LookUp, Anomaly!LookUpFails, Anomaly!Store,
                      Anomaly!SetExpiry, Anomaly!StoreFails
  <1>6. ASSUME NEW e \in Events,
               \/ Anomaly!MatchCritical(e) \/ Anomaly!SkipQuiet(e)
               \/ Anomaly!CheckRateFails(e) \/ Anomaly!Deliver(e) \/ Anomaly!LoseEvent(e)
        PROVE  RateInv'
    BY <1>4, <1>6 DEF Anomaly!MatchCritical, Anomaly!SkipQuiet, Anomaly!CheckRateFails,
                      Anomaly!Deliver, Anomaly!LoseEvent
  <1>7. CASE Anomaly!KeyExpires \/ UNCHANGED Anomaly!vars
    BY <1>4, <1>7 DEF Anomaly!KeyExpires, Anomaly!vars
  <1>8. QED
    BY <1>1, <1>2, <1>3, <1>5, <1>6, <1>7 DEF Anomaly!Next

\* A step keeps what is known of a critical event.
LEMMA CriticalStep ==
    ASSUME AnomalyAssumptions, AnomalySorted, [Anomaly!Next]_(Anomaly!vars),
           NEW c \in Events, CriticalInv(c)
    PROVE  CriticalInv(c)'
  <1>0. /\ rule \in [Events -> 1..NumRules + 1] /\ NumRules \in Nat
        /\ matched \in [Events -> SUBSET (1..NumRules)]
    BY DEF AnomalySorted, Anomaly!Rules, AnomalyAssumptions
  <1> USE DEF CriticalInv, AnomalySorted, Anomaly!Go, Anomaly!AtRule, Anomaly!NextRule
  <1>1. ASSUME NEW e \in Events, Anomaly!MatchCritical(e) PROVE CriticalInv(c)'
    <2>1. CASE c = e
      <3>1. ASSUME NEW i \in 1..NumRules PROVE (1..(i - 1)) \union {i} = 1..((i + 1) - 1)
        OBVIOUS
      <3>2. /\ eventAt[c] = "matching" /\ UNCHANGED <<severity, eventAt>>
            /\ rule[c] \in 1..NumRules /\ rule'[c] = rule[c] + 1
            /\ matched'[c] = matched[c] \union {rule[c]}
        BY <1>0, <1>1, <2>1 DEF Anomaly!MatchCritical
      <3>3. QED
        BY <3>1, <3>2
    <2>2. CASE c # e
      BY <1>0, <1>1, <2>2 DEF Anomaly!MatchCritical
    <2>3. QED
      BY <2>1, <2>2
  <1>2. ASSUME NEW e \in Events, Anomaly!Deliver(e) PROVE CriticalInv(c)'
    BY <1>0, <1>2 DEF Anomaly!Deliver
  <1>3. ASSUME NEW e \in Events,
               \/ Anomaly!SkipQuiet(e) \/ Anomaly!CheckRate(e)
               \/ Anomaly!CheckRateFails(e) \/ Anomaly!CountAlert(e)
        PROVE  CriticalInv(c)'
    BY <1>3 DEF Anomaly!SkipQuiet, Anomaly!CheckRate, Anomaly!CheckRateFails,
                Anomaly!CountAlert
  <1>4. ASSUME NEW e \in Events,
               \/ Anomaly!LookUp(e) \/ Anomaly!LookUpFails(e) \/ Anomaly!Store(e)
               \/ Anomaly!SetExpiry(e) \/ Anomaly!StoreFails(e) \/ Anomaly!LoseEvent(e)
        PROVE  CriticalInv(c)'
    BY <1>4 DEF Anomaly!LookUp, Anomaly!LookUpFails, Anomaly!Store, Anomaly!SetExpiry,
                Anomaly!StoreFails, Anomaly!LoseEvent
  <1>5. CASE Anomaly!KeyExpires \/ Anomaly!HourPasses \/ UNCHANGED Anomaly!vars
    BY <1>5 DEF Anomaly!KeyExpires, Anomaly!HourPasses, Anomaly!vars
  <1>6. QED
    BY <1>1, <1>2, <1>3, <1>4, <1>5 DEF Anomaly!Next

\* The invariant holds throughout.
LEMMA AnomalyInvariant == AnomalyAssumptions /\ Anomaly!Spec => []AnomalyInv
  <1> SUFFICES ASSUME AnomalyAssumptions PROVE Anomaly!Spec => []AnomalyInv
    OBVIOUS
  <1>1. AnomalyInv /\ [Anomaly!Next]_(Anomaly!vars) => AnomalyInv'
    BY AnomalyFlags, AnomalyTypes, KeyStep, StoredStep, RateStep, CriticalStep
       DEF AnomalyInv
  <1>2. QED
    BY <1>1, AnomalyInit, PTL DEF Anomaly!Spec

\* What the run checks of the anomalies follows from the invariant.
LEMMA Told ==
    AnomalyAssumptions /\ AnomalyInv =>
        /\ Anomaly!SuppressedForAReason
        /\ Anomaly!EachSeverityOnce
        /\ Anomaly!HourlyLimitKept
        /\ Anomaly!CriticalReachesAll
  <1> SUFFICES ASSUME AnomalyAssumptions, AnomalyInv
               PROVE  /\ Anomaly!SuppressedForAReason
                      /\ Anomaly!EachSeverityOnce
                      /\ Anomaly!HourlyLimitKept
                      /\ Anomaly!CriticalReachesAll
    OBVIOUS
  <1>1. Anomaly!SuppressedForAReason
    BY DEF AnomalyInv, KeyInv
  <1>2. Anomaly!EachSeverityOnce
    BY DEF AnomalyInv, StoredInv, Anomaly!EachSeverityOnce
  <1>3. Anomaly!HourlyLimitKept
    BY DEF AnomalyInv, RateInv, Anomaly!HourlyLimitKept
  <1>4. Anomaly!CriticalReachesAll
    BY DEF AnomalyInv, CriticalInv, Anomaly!CriticalReachesAll, Anomaly!Rules,
           AnomalyAssumptions
  <1>5. QED
    BY <1>1, <1>2, <1>3, <1>4

(***************************************************************************)
(* Alerts in the application                                               *)
(***************************************************************************)

\* Where a socket has not been accepted, and where its endpoint has read the queue.
Before == {"idle", "pinging", "closing", "leaving", "accepting"}
Behind == {"deleting", "sending", "receiving", "final", "over"}

\* What is registered belongs to an endpoint that is still to call disconnect.
RegisteredInv ==
    /\ entry # NoSocket => socketAt[entry] \in Socket!Connected \union {"final"}
    /\ pubsub # NoSocket => socketAt[pubsub] \in Socket!Connected
    /\ \A s \in Sockets : socketAt[s] \in Before => listener[s] = "none"

\* One that was never beside another is alone while it is busy, and served then.
AloneInv ==
    \A s \in alone :
        /\ socketAt[s] # "idle"
        /\ socketAt[s] # "over" => \A t \in Socket!Busy : t = s
        /\ socketAt[s] \in Socket!Connected =>
              /\ entry = s
              /\ listener[s] # "none" =>
                    /\ pubsub = s
                    /\ s \in open \ severed => listener[s] \in {"starting", "on"}

\* Somebody left, or Redis failed.
Gone == severed # {} \/ \E s \in Sockets : socketAt[s] # "idle" /\ s \notin open

\* An older socket is closed for a newer one, and a listener ends, only then.
GoneInv ==
    \A s \in Sockets :
        socketAt[s] \in {"closing", "leaving"} \/ listener[s] \in {"ending", "ended"} =>
            Gone

\* An alert that is not sent is nowhere; it goes live or into the queue, not both;
\* and it is shown once on each socket.
AlertInv(a) ==
    /\ told[a] \in {"no", "queueing"} =>
          /\ a \notin waiting /\ shown[a] = {}
          /\ \A s \in Sockets : a \notin inbox[s] \union offline[s]
    /\ \A s \in Sockets : a \in inbox[s] =>
          /\ a \notin waiting /\ s \notin shown[a]
          /\ \A t \in Sockets : a \notin offline[t]
    /\ \A s \in Sockets : a \in offline[s] => s \notin shown[a]
    /\ \A s \in shown[a] : a \in waiting => socketAt[s] \in Behind

\* An alert that was sent and not shown is somewhere, unless the queue lost it.
FoundInv(a) ==
    told[a] = "yes" =>
        \/ shown[a] # {} \/ a \in waiting \/ a \in raced \union dropped \/ Gone
        \/ \E s \in Sockets : a \in inbox[s]
        \/ \E s \in Sockets : a \in offline[s] /\ socketAt[s] = "sending"

SocketsInv ==
    /\ Socket!TypeOK
    /\ RegisteredInv
    /\ AloneInv
    /\ GoneInv
    /\ \A a \in Alerts : AlertInv(a) /\ FoundInv(a)

SocketAssumptions == NoSocket \notin Sockets

\* Init establishes the invariant.
LEMMA SocketsInit == SocketAssumptions /\ Socket!Init => SocketsInv
  <1> SUFFICES ASSUME SocketAssumptions, Socket!Init PROVE SocketsInv
    OBVIOUS
  <1>1. Socket!TypeOK
    BY DEF Socket!Init, Socket!TypeOK, Socket!Places
  <1>2. RegisteredInv /\ AloneInv /\ GoneInv
    BY DEF Socket!Init, RegisteredInv, AloneInv, GoneInv
  <1>3. \A a \in Alerts : AlertInv(a) /\ FoundInv(a)
    BY DEF Socket!Init, AlertInv, FoundInv
  <1>4. QED
    BY <1>1, <1>2, <1>3 DEF SocketsInv

\* connect keeps the types of what it writes.
LEMMA JoinTypes ==
    ASSUME Socket!TypeOK, NEW s \in Sockets, NEW there \in SUBSET Sockets,
           Socket!Join(s, there)
    PROVE  socketAt' \in [Sockets -> Socket!Places] /\ open' \subseteq Sockets
  BY DEF Socket!TypeOK, Socket!Join, Socket!Go, Socket!Places

\* So does disconnect.
LEMMA DisconnectTypes ==
    ASSUME Socket!TypeOK, SocketAssumptions, NEW s \in Sockets,
           NEW before \in Socket!Places, NEW after \in Socket!Places,
           Socket!Disconnect(s, before, after)
    PROVE  /\ socketAt' \in [Sockets -> Socket!Places]
           /\ {entry', pubsub'} \subseteq Sockets \union {NoSocket}
           /\ awaited' \in [Sockets -> Sockets \union {NoSocket}]
           /\ listener' \in [Sockets -> {"none", "starting", "on", "ending", "ended"}]
  BY DEF Socket!TypeOK, Socket!Disconnect, Socket!Go, Socket!EntryAfter, Socket!Running,
         SocketAssumptions

\* A step keeps the types.
LEMMA SocketTypes ==
    ASSUME SocketAssumptions, Socket!TypeOK, [Socket!Next]_(Socket!vars)
    PROVE  Socket!TypeOK'
  <1>1. ASSUME NEW s \in Sockets, Socket!Arrive(s) PROVE Socket!TypeOK'
    <2>1. alone' \subseteq Sockets
      BY <1>1 DEF Socket!Arrive, Socket!TypeOK
    <2>2. open \union {s} \subseteq Sockets
      BY DEF Socket!TypeOK
    <2>3. socketAt' \in [Sockets -> Socket!Places] /\ open' \subseteq Sockets
      BY <1>1, <2>2, JoinTypes DEF Socket!Arrive, Socket!TypeOK, Socket!Go, Socket!Places
    <2>4. QED
      BY <1>1, <2>1, <2>3 DEF Socket!Arrive, Socket!TypeOK
  <1>2. ASSUME NEW s \in Sockets, Socket!Pinged(s) PROVE Socket!TypeOK'
    BY <1>2, JoinTypes DEF Socket!Pinged, Socket!TypeOK
  <1>3. ASSUME NEW s \in Sockets, Socket!Replace(s) \/ Socket!EndpointEnds(s)
        PROVE  Socket!TypeOK'
    <2>1. {"leaving", "accepting", "final", "over"} \subseteq Socket!Places
      BY DEF Socket!Places
    <2>2. /\ socketAt' \in [Sockets -> Socket!Places]
          /\ {entry', pubsub'} \subseteq Sockets \union {NoSocket}
          /\ awaited' \in [Sockets -> Sockets \union {NoSocket}]
          /\ listener' \in [Sockets -> {"none", "starting", "on", "ending", "ended"}]
      BY <1>3, <2>1, DisconnectTypes DEF Socket!Replace, Socket!EndpointEnds
    <2>3. QED
      BY <1>3, <2>2 DEF Socket!Replace, Socket!EndpointEnds, Socket!TypeOK
  <1> USE DEF Socket!TypeOK, Socket!Go, Socket!Become, Socket!Show
  <1>4. ASSUME NEW s \in Sockets,
               Socket!ListenerAwaited(s) \/ Socket!Accept(s) \/ Socket!ClientLeaves(s)
        PROVE  Socket!TypeOK'
    BY <1>4 DEF Socket!ListenerAwaited, Socket!Accept, Socket!ClientLeaves,
                Socket!EntryAfter, Socket!Places, Socket!Connected
  <1>5. ASSUME NEW s \in Sockets, Socket!Read(s) \/ Socket!Delete(s) \/ Socket!ReadFails(s)
        PROVE  Socket!TypeOK'
    BY <1>5 DEF Socket!Read, Socket!Delete, Socket!ReadFails, Socket!Forget,
                Socket!Places, Socket!Connected
  <1>6. ASSUME NEW s \in Sockets,
               Socket!Subscribe(s) \/ Socket!ListenerFails(s) \/ Socket!Unsubscribe(s)
        PROVE  Socket!TypeOK'
    BY <1>6 DEF Socket!Subscribe, Socket!ListenerFails, Socket!Unsubscribe
  <1>7. ASSUME NEW s \in Sockets, NEW a \in Alerts, Socket!ShowOffline(s, a)
        PROVE  Socket!TypeOK'
    BY <1>7 DEF Socket!ShowOffline, Socket!Places, Socket!Connected
  <1>8. ASSUME NEW s \in Sockets, NEW a \in Alerts, Socket!ShowLive(s, a)
        PROVE  Socket!TypeOK'
    BY <1>8 DEF Socket!ShowLive
  <1>9. ASSUME NEW a \in Alerts, Socket!Publish(a) \/ Socket!PublishFails(a)
        PROVE  Socket!TypeOK'
    <2>1. inbox' \in [Sockets -> SUBSET Alerts]
      <3>1. \E S : inbox' = [s \in Sockets |->
                               inbox[s] \union IF s \in S THEN {a} ELSE {}]
        BY <1>9 DEF Socket!Publish, Socket!PublishFails, Socket!Deliver
      <3>2. QED
        BY <3>1
    <2>2. told' \in [Alerts -> {"no", "queueing", "yes", "failed"}]
      <3>1. \E what \in {"queueing", "yes", "failed"} : told' = [told EXCEPT ![a] = what]
        BY <1>9 DEF Socket!Publish, Socket!PublishFails
      <3>2. QED
        BY <3>1
    <2>3. QED
      BY <1>9, <2>1, <2>2 DEF Socket!Publish, Socket!PublishFails
  <1>10. ASSUME NEW a \in Alerts, Socket!Queue(a) \/ Socket!QueueFails(a)
         PROVE  Socket!TypeOK'
    BY <1>10 DEF Socket!Queue, Socket!QueueFails
  <1>11. CASE Socket!QueueForgets
    BY <1>11 DEF Socket!QueueForgets, Socket!Forget
  <1>12. CASE UNCHANGED Socket!vars
    BY <1>12 DEF Socket!vars
  <1>13. QED
    BY <1>1, <1>2, <1>3, <1>4, <1>5, <1>6, <1>7, <1>8, <1>9, <1>10, <1>11, <1>12
       DEF Socket!Next

\* A step of InAppChannel.send.
SendStep(a) ==
    Socket!Publish(a) \/ Socket!PublishFails(a) \/ Socket!Queue(a) \/ Socket!QueueFails(a)

\* Nobody becomes idle again, and what was left, failed, raced or dropped stays so.
LEMMA ForGood ==
    ASSUME SocketAssumptions, Socket!TypeOK, [Socket!Next]_(Socket!vars)
    PROVE  /\ \A s \in Sockets : socketAt[s] # "idle" =>
                 /\ socketAt'[s] # "idle"
                 /\ s \notin open => s \notin open'
           /\ \A s \in Sockets : socketAt[s] \in Behind => socketAt'[s] \in Behind
           /\ severed \subseteq severed' /\ raced \subseteq raced'
           /\ dropped \subseteq dropped'
  <1> DEFINE Goal == /\ \A s \in Sockets : socketAt[s] # "idle" =>
                           /\ socketAt'[s] # "idle"
                           /\ s \notin open => s \notin open'
                     /\ \A s \in Sockets : socketAt[s] \in Behind => socketAt'[s] \in Behind
                     /\ severed \subseteq severed' /\ raced \subseteq raced'
                     /\ dropped \subseteq dropped'
  <1> USE DEF Socket!TypeOK, Socket!Go, Behind
  <1>1. ASSUME NEW s \in Sockets, Socket!Arrive(s) \/ Socket!Pinged(s) PROVE Goal
    BY <1>1 DEF Socket!Arrive, Socket!Pinged, Socket!Join
  <1>2. ASSUME NEW s \in Sockets, Socket!Replace(s) \/ Socket!EndpointEnds(s) PROVE Goal
    BY <1>2 DEF Socket!Replace, Socket!EndpointEnds, Socket!Disconnect
  <1>3. ASSUME NEW s \in Sockets,
               Socket!ListenerAwaited(s) \/ Socket!Accept(s) \/ Socket!ClientLeaves(s)
        PROVE  Goal
    BY <1>3 DEF Socket!ListenerAwaited, Socket!Accept, Socket!ClientLeaves
  <1>4. ASSUME NEW s \in Sockets, Socket!Read(s) \/ Socket!Delete(s) \/ Socket!ReadFails(s)
        PROVE  Goal
    BY <1>4 DEF Socket!Read, Socket!Delete, Socket!ReadFails, Socket!Forget
  <1>5. ASSUME NEW s \in Sockets,
               Socket!Subscribe(s) \/ Socket!ListenerFails(s) \/ Socket!Unsubscribe(s)
        PROVE  Goal
    BY <1>5 DEF Socket!Subscribe, Socket!ListenerFails, Socket!Unsubscribe
  <1>6. ASSUME NEW s \in Sockets, NEW a \in Alerts,
               Socket!ShowOffline(s, a) \/ Socket!ShowLive(s, a)
        PROVE  Goal
    BY <1>6 DEF Socket!ShowOffline, Socket!ShowLive
  <1>7. ASSUME NEW a \in Alerts, SendStep(a) PROVE Goal
    BY <1>7 DEF SendStep, Socket!Publish, Socket!PublishFails, Socket!Queue,
                Socket!QueueFails
  <1>8. CASE Socket!QueueForgets \/ UNCHANGED Socket!vars
    BY <1>8 DEF Socket!QueueForgets, Socket!Forget, Socket!vars
  <1>9. QED
    BY <1>1, <1>2, <1>3, <1>4, <1>5, <1>6, <1>7, <1>8 DEF Socket!Next, SendStep

\* A step keeps what is known of the registered socket and its listener.
LEMMA RegisteredStep ==
    ASSUME SocketAssumptions, Socket!TypeOK, RegisteredInv, [Socket!Next]_(Socket!vars)
    PROVE  RegisteredInv'
  <1> USE DEF Socket!TypeOK, Socket!Go, Socket!Connected, Before, RegisteredInv,
              SocketAssumptions
  <1>1. ASSUME NEW s \in Sockets, Socket!Arrive(s) \/ Socket!Pinged(s)
        PROVE  RegisteredInv'
    BY <1>1 DEF Socket!Arrive, Socket!Pinged, Socket!Join
  <1>2. ASSUME NEW s \in Sockets, Socket!Replace(s) PROVE RegisteredInv'
    BY <1>2 DEF Socket!Replace, Socket!Disconnect, Socket!EntryAfter, Socket!Running
  <1>3. ASSUME NEW s \in Sockets, Socket!EndpointEnds(s) PROVE RegisteredInv'
    BY <1>3 DEF Socket!EndpointEnds, Socket!Disconnect, Socket!EntryAfter, Socket!Running
  <1>4. ASSUME NEW s \in Sockets,
               Socket!ListenerAwaited(s) \/ Socket!Accept(s) \/ Socket!ClientLeaves(s)
        PROVE  RegisteredInv'
    BY <1>4 DEF Socket!ListenerAwaited, Socket!Accept, Socket!ClientLeaves,
                Socket!EntryAfter
  <1>5. ASSUME NEW s \in Sockets, Socket!Read(s) \/ Socket!Delete(s) \/ Socket!ReadFails(s)
        PROVE  RegisteredInv'
    BY <1>5 DEF Socket!Read, Socket!Delete, Socket!ReadFails
  <1>6. ASSUME NEW s \in Sockets,
               Socket!Subscribe(s) \/ Socket!ListenerFails(s) \/ Socket!Unsubscribe(s)
        PROVE  RegisteredInv'
    BY <1>6 DEF Socket!Subscribe, Socket!ListenerFails, Socket!Unsubscribe, Socket!Become
  <1>7. ASSUME NEW s \in Sockets, NEW a \in Alerts,
               Socket!ShowOffline(s, a) \/ Socket!ShowLive(s, a)
        PROVE  RegisteredInv'
    BY <1>7 DEF Socket!ShowOffline, Socket!ShowLive, Socket!Become
  <1>8. ASSUME NEW a \in Alerts, SendStep(a) PROVE RegisteredInv'
    BY <1>8 DEF SendStep, Socket!Publish, Socket!PublishFails, Socket!Queue,
                Socket!QueueFails
  <1>9. CASE Socket!QueueForgets \/ UNCHANGED Socket!vars
    BY <1>9 DEF Socket!QueueForgets, Socket!vars
  <1>10. QED
    BY <1>1, <1>2, <1>3, <1>4, <1>5, <1>6, <1>7, <1>8, <1>9 DEF Socket!Next, SendStep

\* A step keeps what is known of the sockets that were never beside another.
LEMMA AloneStep ==
    ASSUME SocketAssumptions, Socket!TypeOK, RegisteredInv, AloneInv,
           [Socket!Next]_(Socket!vars)
    PROVE  AloneInv'
  <1> USE DEF Socket!TypeOK, Socket!Go, Socket!Connected, Socket!Busy, AloneInv
  <1>1. ASSUME NEW s \in Sockets, Socket!Arrive(s) PROVE AloneInv'
    BY <1>1 DEF Socket!Arrive, Socket!Join
  <1>2. ASSUME NEW s \in Sockets, Socket!Pinged(s) PROVE AloneInv'
    BY <1>2 DEF Socket!Pinged, Socket!Join
  <1>3. ASSUME NEW s \in Sockets, Socket!Replace(s) \/ Socket!EndpointEnds(s)
        PROVE  AloneInv'
    BY <1>3 DEF Socket!Replace, Socket!EndpointEnds, Socket!Disconnect, Socket!EntryAfter
  <1>4. ASSUME NEW s \in Sockets, Socket!ListenerAwaited(s) \/ Socket!ClientLeaves(s)
        PROVE  AloneInv'
    BY <1>4 DEF Socket!ListenerAwaited, Socket!ClientLeaves, Socket!EntryAfter
  <1>5. ASSUME NEW s \in Sockets, Socket!Accept(s) PROVE AloneInv'
    BY <1>5 DEF Socket!Accept, RegisteredInv, Before
  <1>6. ASSUME NEW s \in Sockets, Socket!Read(s) \/ Socket!Delete(s) \/ Socket!ReadFails(s)
        PROVE  AloneInv'
    BY <1>6 DEF Socket!Read, Socket!Delete, Socket!ReadFails
  <1>7. ASSUME NEW s \in Sockets,
               Socket!Subscribe(s) \/ Socket!ListenerFails(s) \/ Socket!Unsubscribe(s)
        PROVE  AloneInv'
    BY <1>7 DEF Socket!Subscribe, Socket!ListenerFails, Socket!Unsubscribe, Socket!Become
  <1>8. ASSUME NEW s \in Sockets, NEW a \in Alerts,
               Socket!ShowOffline(s, a) \/ Socket!ShowLive(s, a)
        PROVE  AloneInv'
    BY <1>8 DEF Socket!ShowOffline, Socket!ShowLive, Socket!Become
  <1>9. ASSUME NEW a \in Alerts, SendStep(a) PROVE AloneInv'
    BY <1>9 DEF SendStep, Socket!Publish, Socket!PublishFails, Socket!Queue,
                Socket!QueueFails
  <1>10. CASE Socket!QueueForgets \/ UNCHANGED Socket!vars
    BY <1>10 DEF Socket!QueueForgets, Socket!vars
  <1>11. QED
    BY <1>1, <1>2, <1>3, <1>4, <1>5, <1>6, <1>7, <1>8, <1>9, <1>10 DEF Socket!Next, SendStep

\* Once somebody is gone, this is so for good.
LEMMA GoneForGood ==
    ASSUME SocketAssumptions, Socket!TypeOK, Gone, [Socket!Next]_(Socket!vars)
    PROVE  Gone'
  BY ForGood DEF Gone

\* An older socket of the user is closed when a newer one joins.
LEMMA Closing ==
    ASSUME SocketAssumptions, Socket!TypeOK, RegisteredInv, NEW s \in Sockets,
           NEW there, Socket!Join(s, there), socketAt[s] \in Before
    PROVE  socketAt'[s] = "closing" =>
              \E t \in Sockets : socketAt'[t] # "idle" /\ t \notin open'
  <1> SUFFICES ASSUME socketAt'[s] = "closing"
               PROVE  socketAt'[entry] # "idle" /\ entry \notin open' /\ entry \in Sockets
    OBVIOUS
  <1>1. entry # NoSocket /\ entry \in Sockets
    BY DEF Socket!Join, Socket!Go, Socket!TypeOK
  <1>2. entry # s /\ socketAt[entry] # "idle"
    BY <1>1 DEF RegisteredInv, Before, Socket!Connected
  <1>3. QED
    BY <1>1, <1>2 DEF Socket!Join, Socket!Go, Socket!TypeOK

\* A socket is closed and a listener ends only when somebody is gone.
LEMMA GoneStep ==
    ASSUME SocketAssumptions, Socket!TypeOK, RegisteredInv, GoneInv,
           [Socket!Next]_(Socket!vars)
    PROVE  GoneInv'
  <1>0. Gone => GoneInv'
    BY GoneForGood DEF GoneInv
  \* Most steps close nobody and end no listener.
  <1>1. CASE \A s \in Sockets :
                /\ socketAt'[s] \in {"closing", "leaving"} =>
                      socketAt[s] \in {"closing", "leaving"}
                /\ listener'[s] \in {"ending", "ended"} =>
                      listener[s] \in {"ending", "ended"}
    BY <1>1, GoneForGood DEF GoneInv
  <1> USE DEF Socket!TypeOK, Socket!Go, Socket!Become
  <1>2. ASSUME NEW s \in Sockets, Socket!Arrive(s) \/ Socket!Pinged(s) PROVE GoneInv'
    <2>1. socketAt[s] \in Before /\ listener' = listener /\ severed' = severed
      BY <1>2 DEF Socket!Arrive, Socket!Pinged, Before
    <2>2. CASE socketAt' = [socketAt EXCEPT ![s] = "pinging"]
      BY <1>1, <2>1, <2>2
    <2>3. CASE \E there \in {open, open \union {s}} : Socket!Join(s, there)
      <3>1. socketAt' = [socketAt EXCEPT ![s] = IF entry = NoSocket THEN "accepting"
                                                                    ELSE "closing"]
        BY <2>3 DEF Socket!Join
      <3>2. CASE entry = NoSocket
        BY <1>1, <2>1, <3>1, <3>2
      <3>3. CASE entry # NoSocket
        <4>1. socketAt'[s] = "closing"
          BY <3>1, <3>3
        <4>2. QED
          BY <2>1, <2>3, <4>1, Closing DEF GoneInv, Gone
      <3>4. QED
        BY <3>2, <3>3
    <2>4. QED
      BY <1>2, <2>2, <2>3 DEF Socket!Arrive, Socket!Pinged
  <1>3. ASSUME NEW s \in Sockets, Socket!Replace(s) PROVE GoneInv'
    BY <1>0, <1>3 DEF Socket!Replace, GoneInv
  <1>4. ASSUME NEW s \in Sockets, Socket!EndpointEnds(s) PROVE GoneInv'
    BY <1>0, <1>4 DEF Socket!EndpointEnds, Gone
  <1>5. ASSUME NEW s \in Sockets,
               Socket!ListenerAwaited(s) \/ Socket!Accept(s) \/ Socket!ClientLeaves(s)
        PROVE  GoneInv'
    BY <1>1, <1>5 DEF Socket!ListenerAwaited, Socket!Accept, Socket!ClientLeaves
  <1>6. ASSUME NEW s \in Sockets, Socket!Read(s) \/ Socket!Delete(s) \/ Socket!ReadFails(s)
        PROVE  GoneInv'
    BY <1>1, <1>6 DEF Socket!Read, Socket!Delete, Socket!ReadFails
  <1>7. ASSUME NEW s \in Sockets, Socket!Subscribe(s) \/ Socket!Unsubscribe(s)
        PROVE  GoneInv'
    BY <1>1, <1>7 DEF Socket!Subscribe, Socket!Unsubscribe
  <1>8. ASSUME NEW s \in Sockets, Socket!ListenerFails(s) PROVE GoneInv'
    BY <1>8 DEF Socket!ListenerFails, GoneInv, Gone
  <1>9. ASSUME NEW s \in Sockets, NEW a \in Alerts, Socket!ShowOffline(s, a)
        PROVE  GoneInv'
    BY <1>1, <1>9 DEF Socket!ShowOffline
  <1>10. ASSUME NEW s \in Sockets, NEW a \in Alerts, Socket!ShowLive(s, a)
         PROVE  GoneInv'
    <2>1. CASE s \in open
      BY <1>1, <1>10, <2>1 DEF Socket!ShowLive
    <2>2. CASE s \notin open
      <3>1. socketAt[s] # "idle"
        BY <1>10 DEF Socket!ShowLive, RegisteredInv, Before
      <3>2. QED
        BY <1>0, <2>2, <3>1 DEF Gone
    <2>3. QED
      BY <2>1, <2>2
  <1>11. ASSUME NEW a \in Alerts, SendStep(a) PROVE GoneInv'
    BY <1>1, <1>11 DEF SendStep, Socket!Publish, Socket!PublishFails, Socket!Queue,
                       Socket!QueueFails
  <1>12. CASE Socket!QueueForgets \/ UNCHANGED Socket!vars
    BY <1>1, <1>12 DEF Socket!QueueForgets, Socket!vars
  <1>13. QED
    BY <1>2, <1>3, <1>4, <1>5, <1>6, <1>7, <1>8, <1>9, <1>10, <1>11, <1>12
       DEF Socket!Next, SendStep

\* A step keeps what is known of an alert.
LEMMA AlertStep ==
    ASSUME SocketAssumptions, Socket!TypeOK, [Socket!Next]_(Socket!vars),
           NEW a \in Alerts, AlertInv(a)
    PROVE  AlertInv(a)'
  \* Most steps leave the alerts where they are.
  <1>1. CASE /\ UNCHANGED <<inbox, offline, told, waiting, shown>>
    <2>1. \A s \in Sockets : socketAt[s] \in Behind => socketAt'[s] \in Behind
      BY ForGood
    <2>2. shown[a] \subseteq Sockets
      BY DEF Socket!TypeOK
    <2>3. QED
      BY <1>1, <2>1, <2>2 DEF AlertInv
  <1>2. ASSUME NEW s \in Sockets,
               \/ Socket!Arrive(s) \/ Socket!Pinged(s) \/ Socket!Replace(s)
               \/ Socket!ListenerAwaited(s) \/ Socket!Accept(s) \/ Socket!EndpointEnds(s)
               \/ Socket!ClientLeaves(s) \/ Socket!Subscribe(s) \/ Socket!ListenerFails(s)
        PROVE  AlertInv(a)'
    BY <1>1, <1>2 DEF Socket!Arrive, Socket!Pinged, Socket!Replace,
       Socket!ListenerAwaited, Socket!Accept, Socket!EndpointEnds, Socket!ClientLeaves,
       Socket!Subscribe, Socket!ListenerFails
  <1> USE DEF Socket!TypeOK, Socket!Go, Socket!Show, AlertInv, Behind
  <1>3. ASSUME NEW s \in Sockets, Socket!Read(s) PROVE AlertInv(a)'
    BY <1>3 DEF Socket!Read
  <1>4. ASSUME NEW s \in Sockets, Socket!Delete(s) \/ Socket!ReadFails(s)
        PROVE  AlertInv(a)'
    BY <1>4 DEF Socket!Delete, Socket!ReadFails, Socket!Forget
  <1>5. ASSUME NEW s \in Sockets, NEW b \in Alerts, Socket!ShowOffline(s, b)
        PROVE  AlertInv(a)'
    BY <1>5 DEF Socket!ShowOffline
  <1>6. ASSUME NEW s \in Sockets, NEW b \in Alerts, Socket!ShowLive(s, b)
        PROVE  AlertInv(a)'
    BY <1>6 DEF Socket!ShowLive
  <1>7. ASSUME NEW s \in Sockets, Socket!Unsubscribe(s) PROVE AlertInv(a)'
    BY <1>7 DEF Socket!Unsubscribe
  <1>8. ASSUME NEW b \in Alerts, Socket!Publish(b) PROVE AlertInv(a)'
    <2>1. /\ told[b] = "no"
          /\ \A s \in Sockets : inbox'[s] \subseteq inbox[s] \union {b}
          /\ told'[b] = "queueing" => \A s \in Sockets : b \in inbox'[s] => b \in inbox[s]
          /\ told'[b] \in {"queueing", "yes"}
          /\ \A c \in Alerts \ {b} : told'[c] = told[c]
          /\ UNCHANGED <<socketAt, waiting, shown, offline>>
      BY <1>8 DEF Socket!Publish, Socket!NeedsQueue, Socket!Deliver
    <2>2. QED
      BY <2>1
  <1>9. ASSUME NEW b \in Alerts, Socket!PublishFails(b) PROVE AlertInv(a)'
    <2>1. /\ told[b] = "no"
          /\ \A s \in Sockets : inbox'[s] \subseteq inbox[s] \union {b}
          /\ told' = [told EXCEPT ![b] = "failed"]
          /\ UNCHANGED <<socketAt, waiting, shown, offline>>
      BY <1>9 DEF Socket!PublishFails, Socket!Deliver
    <2>2. QED
      BY <2>1
  <1>10. ASSUME NEW b \in Alerts, Socket!Queue(b) \/ Socket!QueueFails(b)
         PROVE  AlertInv(a)'
    BY <1>10 DEF Socket!Queue, Socket!QueueFails
  <1>11. CASE Socket!QueueForgets
    BY <1>11 DEF Socket!QueueForgets, Socket!Forget
  <1>12. CASE UNCHANGED Socket!vars
    BY <1>12 DEF Socket!vars
  <1>13. QED
    BY <1>2, <1>3, <1>4, <1>5, <1>6, <1>7, <1>8, <1>9, <1>10, <1>11, <1>12
       DEF Socket!Next

\* A step loses no alert unless somebody is gone.
LEMMA FoundStep ==
    ASSUME SocketAssumptions, Socket!TypeOK, GoneInv, RegisteredInv,
           [Socket!Next]_(Socket!vars), NEW a \in Alerts, AlertInv(a), FoundInv(a)
    PROVE  FoundInv(a)'
  <1>0. a \in raced \union dropped \/ Gone => FoundInv(a)'
    BY GoneForGood, ForGood DEF FoundInv
  <1> USE DEF Socket!TypeOK, Socket!Go, Socket!Show, FoundInv
  \* Most steps leave the alerts where they are, and those that are sent with them.
  <1>1. CASE /\ UNCHANGED <<inbox, offline, told, waiting, shown>>
             /\ \A s \in Sockets : socketAt[s] = "sending" => socketAt'[s] = "sending"
    BY <1>0, <1>1
  <1>2. ASSUME NEW s \in Sockets,
               \/ Socket!Arrive(s) \/ Socket!Pinged(s) \/ Socket!Replace(s)
               \/ Socket!ListenerAwaited(s) \/ Socket!Accept(s) \/ Socket!EndpointEnds(s)
               \/ Socket!ClientLeaves(s) \/ Socket!Subscribe(s) \/ Socket!ListenerFails(s)
        PROVE  FoundInv(a)'
    BY <1>1, <1>2 DEF Socket!Arrive, Socket!Pinged, Socket!Join, Socket!Replace,
       Socket!Disconnect, Socket!ListenerAwaited, Socket!Accept, Socket!EndpointEnds,
       Socket!ClientLeaves, Socket!Subscribe, Socket!ListenerFails
  <1>3. ASSUME NEW s \in Sockets, Socket!Read(s) PROVE FoundInv(a)'
    BY <1>0, <1>3 DEF Socket!Read
  <1>4. ASSUME NEW s \in Sockets, Socket!Delete(s) PROVE FoundInv(a)'
    BY <1>0, <1>4 DEF Socket!Delete
  <1>5. ASSUME NEW s \in Sockets, Socket!ReadFails(s) PROVE FoundInv(a)'
    BY <1>0, <1>5 DEF Socket!ReadFails, Socket!Forget
  <1>6. ASSUME NEW s \in Sockets, NEW b \in Alerts, Socket!ShowOffline(s, b)
        PROVE  FoundInv(a)'
    <2>1. CASE s \in open
      <3>1. CASE a = b
        <4>1. s \in shown'[a]
          BY <1>6, <2>1, <3>1 DEF Socket!ShowOffline
        <4>2. QED
          BY <4>1
      <3>2. CASE a # b
        <4>1. /\ \A t \in Sockets : a \in offline[t] /\ socketAt[t] = "sending" =>
                    a \in offline'[t] /\ socketAt'[t] = "sending"
              /\ shown'[a] = shown[a]
              /\ UNCHANGED <<told, inbox, waiting>>
          BY <1>6, <2>1, <3>2 DEF Socket!ShowOffline
        <4>2. QED
          BY <1>0, <4>1
      <3>3. QED
        BY <3>1, <3>2
    <2>2. CASE s \notin open
      BY <1>0, <1>6, <2>2 DEF Socket!ShowOffline, Gone
    <2>3. QED
      BY <2>1, <2>2
  <1>7. ASSUME NEW s \in Sockets, NEW b \in Alerts, Socket!ShowLive(s, b)
        PROVE  FoundInv(a)'
    <2>1. CASE s \in open
      BY <1>0, <1>7, <2>1 DEF Socket!ShowLive
    <2>2. CASE s \notin open
      BY <1>0, <1>7, <2>2 DEF Socket!ShowLive, Gone, RegisteredInv, Before
    <2>3. QED
      BY <2>1, <2>2
  <1>8. ASSUME NEW s \in Sockets, Socket!Unsubscribe(s) PROVE FoundInv(a)'
    BY <1>0, <1>8 DEF Socket!Unsubscribe, GoneInv
  <1>9. ASSUME NEW b \in Alerts, Socket!Publish(b) PROVE FoundInv(a)'
    <2>1. /\ told'[b] = "yes" => \E s \in Sockets : b \in inbox'[s]
          /\ \A s \in Sockets : inbox[s] \subseteq inbox'[s]
          /\ \A c \in Alerts \ {b} : told'[c] = told[c]
          /\ UNCHANGED <<socketAt, waiting, shown, offline>>
      BY <1>9 DEF Socket!Publish, Socket!NeedsQueue, Socket!Audiences, Socket!Deliver
    <2>2. QED
      BY <1>0, <2>1
  <1>10. ASSUME NEW b \in Alerts, Socket!PublishFails(b) PROVE FoundInv(a)'
    <2>1. /\ told' = [told EXCEPT ![b] = "failed"]
          /\ \A s \in Sockets : inbox[s] \subseteq inbox'[s]
          /\ UNCHANGED <<socketAt, waiting, shown, offline>>
      BY <1>10 DEF Socket!PublishFails, Socket!Deliver
    <2>2. QED
      BY <1>0, <2>1
  <1>11. ASSUME NEW b \in Alerts, Socket!Queue(b) \/ Socket!QueueFails(b)
         PROVE  FoundInv(a)'
    BY <1>0, <1>11 DEF Socket!Queue, Socket!QueueFails
  <1>12. CASE Socket!QueueForgets
    BY <1>0, <1>12 DEF Socket!QueueForgets, Socket!Forget
  <1>13. CASE UNCHANGED Socket!vars
    BY <1>1, <1>13 DEF Socket!vars
  <1>14. QED
    BY <1>2, <1>3, <1>4, <1>5, <1>6, <1>7, <1>8, <1>9, <1>10, <1>11, <1>12, <1>13
       DEF Socket!Next

\* The invariant holds throughout.
LEMMA SocketsInvariant == SocketAssumptions /\ Socket!Spec => []SocketsInv
  <1> SUFFICES ASSUME SocketAssumptions PROVE Socket!Spec => []SocketsInv
    OBVIOUS
  <1>1. SocketsInv /\ [Socket!Next]_(Socket!vars) => SocketsInv'
    BY SocketTypes, RegisteredStep, AloneStep, GoneStep, AlertStep, FoundStep
       DEF SocketsInv
  <1>2. QED
    BY <1>1, SocketsInit, PTL DEF Socket!Spec

\* What the run checks of the sockets follows from the invariant.
LEMMA Shown ==
    SocketAssumptions /\ SocketsInv =>
        /\ Socket!NoneLeftBehind
        /\ Socket!AloneIsServed
        /\ Socket!NotShownTwice
        /\ Socket!MissedForAReason
  <1> SUFFICES ASSUME SocketAssumptions, SocketsInv
               PROVE  /\ Socket!NoneLeftBehind
                      /\ Socket!AloneIsServed
                      /\ Socket!NotShownTwice
                      /\ Socket!MissedForAReason
    OBVIOUS
  <1>1. Socket!NoneLeftBehind
    BY DEF SocketsInv, RegisteredInv, Socket!NoneLeftBehind
  <1>2. Socket!AloneIsServed
    BY DEF SocketsInv, AloneInv, Socket!AloneIsServed
  <1>3. Socket!NotShownTwice
    BY DEF SocketsInv, AlertInv, Socket!TypeOK, Socket!NotShownTwice
  <1>4. Socket!MissedForAReason
    BY DEF SocketsInv, FoundInv, Gone, Socket!Missed, Socket!MissedForAReason
  <1>5. QED
    BY <1>1, <1>2, <1>3, <1>4

(***************************************************************************)
(* The services together                                                   *)
(***************************************************************************)

services ==
    <<part, vars, analysis, backtesting, splitter, smart, webhooks, breaker, anomalies,
      delivery, jobs, sockets, prices, referrals, affiliates>>

\* A behaviour of the services together is one of the webhooks, which take
\* their own steps and stutter through those of the others.
LEMMA WebhookAmongOthers == ServicesSpec => Webhook!Spec
  <1>1. ServicesInit => Webhook!Init
    BY DEF ServicesInit
  <1>2. [ServicesNext]_services => [Webhook!Next]_(Webhook!vars)
    BY DEF ServicesNext, services, webhooks, Webhook!vars
  <1>3. QED
    BY <1>1, <1>2, PTL DEF ServicesSpec, Webhook!Spec, services

\* So it is of the circuit breaker.
LEMMA BreakerAmongOthers == ServicesSpec => Breaker!Spec
  <1>1. ServicesInit => Breaker!Init
    BY DEF ServicesInit
  <1>2. [ServicesNext]_services => [Breaker!Next]_(Breaker!vars)
    BY DEF ServicesNext, services, breaker, Breaker!vars
  <1>3. QED
    BY <1>1, <1>2, PTL DEF ServicesSpec, Breaker!Spec, services

\* So it is of the prices.
LEMMA PricesAmongOthers == ServicesSpec => Prices!Spec
  <1>1. ServicesInit => Prices!Init
    BY DEF ServicesInit
  <1>2. [ServicesNext]_services => [Prices!Next]_(Prices!vars)
    BY DEF ServicesNext, services, prices, Prices!vars
  <1>3. QED
    BY <1>1, <1>2, PTL DEF ServicesSpec, Prices!Spec, services

\* So it is of the delivery.
LEMMA DeliveryAmongOthers == ServicesSpec => Delivery!Spec
  <1>1. ServicesInit => Delivery!Init
    BY DEF ServicesInit
  <1>2. [ServicesNext]_services => [Delivery!Next]_(Delivery!vars)
    BY DEF ServicesNext, services, delivery, Delivery!vars
  <1>3. QED
    BY <1>1, <1>2, PTL DEF ServicesSpec, Delivery!Spec, services

\* So it is of the anomalies.
LEMMA AnomalyAmongOthers == ServicesSpec => Anomaly!Spec
  <1>1. ServicesInit => Anomaly!Init
    BY DEF ServicesInit
  <1>2. [ServicesNext]_services => [Anomaly!Next]_(Anomaly!vars)
    BY DEF ServicesNext, services, anomalies, Anomaly!vars
  <1>3. QED
    BY <1>1, <1>2, PTL DEF ServicesSpec, Anomaly!Spec, services

\* So it is of the sockets.
LEMMA SocketAmongOthers == ServicesSpec => Socket!Spec
  <1>1. ServicesInit => Socket!Init
    BY DEF ServicesInit
  <1>2. [ServicesNext]_services => [Socket!Next]_(Socket!vars)
    BY DEF ServicesNext, services, sockets, Socket!vars
  <1>3. QED
    BY <1>1, <1>2, PTL DEF ServicesSpec, Socket!Spec, services

\* Together, too, authentic webhooks within the limit are kept, and what is
\* accepted makes one signal.
THEOREM WebhooksAreKeptTogether == PerMinute \in Nat /\ ServicesSpec => []WebhooksAreKept
  <1> SUFFICES ASSUME PerMinute \in Nat PROVE ServicesSpec => []WebhooksAreKept
    OBVIOUS
  <1>1. Webhook!Spec => []Webhook!LimitKept
    BY WindowIsKept
  <1>2. Webhook!LimitKept /\ Webhook!SignalsAreAccepted /\ Webhook!AcceptedIsKept
           /\ Webhook!OneSignalEach => WebhooksAreKept
    BY DEF WebhooksAreKept
  <1>3. QED
    BY <1>1, <1>2, KeptAndSignalledOnce, WebhookAmongOthers, PTL

\* A closed circuit breaker is below its threshold, one on probation admits the
\* probes it may and one more, and it comes out of its probation.
THEOREM BreakerProtectsTogether ==
    Breaker!BreakerAssumptions /\ ServicesSpec => []BreakerProtects
  <1> SUFFICES ASSUME Breaker!BreakerAssumptions PROVE ServicesSpec => []BreakerProtects
    OBVIOUS
  <1>1. Breaker!Spec => [](Breaker!ClosedIsHealthy /\ Breaker!ProbesAreBounded)
    BY FewFailuresFewProbes, PTL
  <1>2. Breaker!Spec => []Breaker!NotStuck
    BY ProbationEnds
  <1>3. Breaker!ClosedIsHealthy /\ Breaker!ProbesAreBounded /\ Breaker!NotStuck =>
           BreakerProtects
    BY DEF BreakerProtects
  <1>4. QED
    BY <1>1, <1>2, <1>3, BreakerAmongOthers, PTL

\* No answer is older than the TTL, the broadcasting task runs while somebody is
\* connected, and a round reaches all who stayed subscribed.
THEOREM PricesAreFreshTogether == PriceAssumptions /\ ServicesSpec => []PricesAreFresh
  <1> SUFFICES ASSUME PriceAssumptions PROVE ServicesSpec => []PricesAreFresh
    OBVIOUS
  <1>1. PricesInv => PricesAreFresh
    BY DEF PricesInv, ReaderInv, RoundInv, PricesAreFresh, Prices!FreshOnly,
       Prices!RoundReachesAll
  <1>2. QED
    BY <1>1, PricesInvariant, PricesAmongOthers, PTL

\* Every channel is tried and logged truthfully; in the application, no socket is
\* left behind, one that is alone is served, and no alert is shown twice on one or
\* lost without a reason.
THEOREM AlertsAreDeliveredTogether ==
    DeliveryAssumptions /\ SocketAssumptions /\ ServicesSpec => []AlertsAreDelivered
  <1> SUFFICES ASSUME DeliveryAssumptions, SocketAssumptions
               PROVE  ServicesSpec => []AlertsAreDelivered
    OBVIOUS
  <1>1. DeliveryInv /\ SocketsInv => AlertsAreDelivered
    BY Delivered, Shown DEF AlertsAreDelivered
  <1>2. QED
    BY <1>1, DeliveryInvariant, SocketsInvariant, DeliveryAmongOthers, SocketAmongOthers,
       PTL

\* Only what was told before is suppressed, each severity passes once, and the limit
\* per hour and the rules of critical anomalies are kept.
THEOREM AnomaliesAreToldTogether ==
    AnomalyAssumptions /\ ServicesSpec => []AnomaliesAreTold
  <1> SUFFICES ASSUME AnomalyAssumptions PROVE ServicesSpec => []AnomaliesAreTold
    OBVIOUS
  <1>1. AnomalyInv => AnomaliesAreTold
    BY Told DEF AnomaliesAreTold
  <1>2. QED
    BY <1>1, AnomalyInvariant, AnomalyAmongOthers, PTL
=============================================================================
