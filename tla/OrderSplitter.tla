---------------------------- MODULE OrderSplitter ---------------------------
(***************************************************************************)
(* Split orders: one large order cut into legs that a background task      *)
(* places one after the other, with a pause before each but the first.     *)
(*                                                                         *)
(* The lock is never held over an await: cancel_split_order would await    *)
(* the broker only for a pending leg with an order_id, and a leg gets its  *)
(* order_id when it is completed.  So each handler is one step, and the    *)
(* task suspends in its pauses and in place_order only.  The cancellation  *)
(* of the task reaches it there, also while the broker takes an order.     *)
(*                                                                         *)
(* Quantities are in thousandths, and the legs are rounded to hundredths.  *)
(***************************************************************************)
EXTENDS Integers, FiniteSets, SequencesExt, PlaceOrder

CONSTANTS Splits,    \* the ids the service may hand out
          Total,     \* total_quantity
          Display,   \* display_quantity of an iceberg
          NumChunks, \* num_chunks, and the levels of a price split
          Factors    \* the random factors of a chunk, in tenths

SplitStatus == {"PENDING", "IN_PROGRESS", "COMPLETED", "CANCELLED", "FAILED"}
Absent == "ABSENT"
LegStatus == {"pending", "completed", "failed"}

VARIABLES status,   \* split_order.status
          qty,      \* the quantities of its legs
          leg,      \* their statuses
          task,     \* _execute_split_async: "none", "paused", "placing", "cancelled"
          pos,      \* the leg its loop is at
          sent,     \* how often each leg was given to place_order
          live,     \* the legs whose order the broker keeps
          cut       \* the leg that was being placed when the task was cancelled

vars == <<status, qty, leg, task, pos, sent, live, cut>>
-----------------------------------------------------------------------------
(* The legs.                                                               *)

Smaller(a, b) == IF a < b THEN a ELSE b
\* round(chunk, 2)
Rounded(q) == ((q + 5) \div 10) * 10

\* One round of the loop: a chunk of about base, at most what remains.
Cut(base, acc, f) ==
    LET chunk == Smaller((base * f) \div 10, acc.left)
    IN  IF acc.left = 0 THEN acc
        ELSE [left |-> acc.left - chunk, legs |-> Append(acc.legs, chunk)]
Uncut == [left |-> Total, legs |-> <<>>]
CutAll(base, factors) == FoldLeft(LAMBDA acc, f : Cut(base, acc, f), Uncut, factors)

\* As many chunks as it takes, not rounded.
IcebergLegs ==
    LET enough == 1..(Total \div ((Display * 9) \div 10) + 1)
    IN  {CutAll(Display, fs).legs : fs \in [enough -> Factors]}

Bug_AllRandom(acc) == acc.legs
\* The last chunk is what the others left.
WithRest(acc) == IF acc.left = 0 THEN acc.legs ELSE Append(acc.legs, acc.left)

\* Time and volume splits.
TimeLegs ==
    {[i \in DOMAIN legs |-> Rounded(legs[i])] :
        legs \in {WithRest(CutAll(Total \div NumChunks, fs)) :
                     fs \in [1..NumChunks - 1 -> Factors]}}

\* Equal shares, or weights n, n - 1, .., 1.
PriceLegs ==
    LET weights == (NumChunks * (NumChunks + 1)) \div 2
    IN  {[i \in 1..NumChunks |-> Rounded(Total \div NumChunks)],
         [i \in 1..NumChunks |-> Rounded((Total * (NumChunks + 1 - i)) \div weights)]}

LegLists == IcebergLegs \union TimeLegs \union PriceLegs
-----------------------------------------------------------------------------
TypeOK ==
    /\ status \in [Splits -> SplitStatus \union {Absent}]
    /\ \A s \in Splits :
          /\ qty[s] \in Seq(Nat)
          /\ leg[s] \in [DOMAIN qty[s] -> LegStatus]
          /\ sent[s] \in [DOMAIN qty[s] -> Nat]
          /\ pos[s] \in 1..Len(qty[s]) + 1
          /\ live[s] \subseteq DOMAIN qty[s]
          /\ cut[s] \subseteq DOMAIN qty[s]
    /\ task \in [Splits -> {"none", "paused", "placing", "cancelled"}]

Init ==
    /\ status = [s \in Splits |-> Absent]
    /\ qty = [s \in Splits |-> <<>>]
    /\ leg = [s \in Splits |-> <<>>]
    /\ task = [s \in Splits |-> "none"]
    /\ pos = [s \in Splits |-> 1]
    /\ sent = [s \in Splits |-> <<>>]
    /\ live = [s \in Splits |-> {}]
    /\ cut = [s \in Splits |-> {}]

CreateSplit(s, legs) ==
    /\ status[s] = Absent
    /\ status' = [status EXCEPT ![s] = "PENDING"]
    /\ qty' = [qty EXCEPT ![s] = legs]
    /\ leg' = [leg EXCEPT ![s] = [i \in DOMAIN legs |-> "pending"]]
    /\ sent' = [sent EXCEPT ![s] = [i \in DOMAIN legs |-> 0]]
    /\ UNCHANGED <<task, pos, live, cut>>

Bug_Restartable(s) == status[s] \in {"PENDING", "COMPLETED"}
Executable(s) == status[s] = "PENDING"

ExecuteSplit(s) ==
    /\ Executable(s)
    /\ status' = [status EXCEPT ![s] = "IN_PROGRESS"]
    /\ task' = [task EXCEPT ![s] = "paused"]
    /\ pos' = [pos EXCEPT ![s] = 1]
    /\ UNCHANGED <<qty, leg, sent, live, cut>>

PlaceLeg(s) ==
    /\ task[s] = "paused"
    /\ task' = [task EXCEPT ![s] = "placing"]
    /\ sent' = [sent EXCEPT ![s][pos[s]] = @ + 1]
    /\ UNCHANGED <<status, qty, leg, pos, live, cut>>

Bug_LostStaysPending(o) == IF o = "lost" THEN "pending"
                           ELSE IF Success(o) THEN "completed" ELSE "failed"
\* A failed leg never stops the loop: abort_on_error is looked up in metadata,
\* where nothing puts it.
LegAfter(o) == IF Success(o) THEN "completed" ELSE "failed"

Bug_LastLegDecides(legs) == IF legs[Len(legs)] = "failed" THEN "FAILED" ELSE "COMPLETED"
Verdict(legs) == IF \E i \in DOMAIN legs : legs[i] = "failed" THEN "FAILED" ELSE "COMPLETED"

\* The answer to a leg; after the last one the task ends in the same step.
LegReturns(s, o) ==
    LET legs == [leg[s] EXCEPT ![pos[s]] = LegAfter(o)]
        ended == pos[s] = Len(qty[s])
    IN  /\ task[s] = "placing"
        /\ leg' = [leg EXCEPT ![s] = legs]
        /\ live' = [live EXCEPT ![s] = IF KeepsOrder(o) THEN @ \union {pos[s]} ELSE @]
        /\ pos' = [pos EXCEPT ![s] = @ + 1]
        /\ task' = [task EXCEPT ![s] = IF ended THEN "none" ELSE "paused"]
        /\ status' = [status EXCEPT ![s] = IF ended THEN Verdict(legs) ELSE @]
        /\ UNCHANGED <<qty, sent, cut>>

Cancellable(s) == status[s] \in {"PENDING", "IN_PROGRESS"}

Bug_TaskGoesOn(s) == task[s]
TaskAfterCancel(s) == IF task[s] = "none" THEN "none" ELSE "cancelled"

CancelSplit(s) ==
    /\ Cancellable(s)
    /\ status' = [status EXCEPT ![s] = "CANCELLED"]
    /\ task' = [task EXCEPT ![s] = TaskAfterCancel(s)]
    /\ cut' = [cut EXCEPT ![s] = IF task[s] = "placing" THEN {pos[s]} ELSE {}]
    /\ UNCHANGED <<qty, leg, pos, sent, live>>

\* CancelledError ends the pause, or the request to the broker, who may take
\* the order all the same; the leg stays pending.
CancelArrives(s) ==
    /\ task[s] = "cancelled"
    /\ task' = [task EXCEPT ![s] = "none"]
    /\ status' = [status EXCEPT ![s] = "CANCELLED"]
    /\ \E taken \in SUBSET cut[s] : live' = [live EXCEPT ![s] = @ \union taken]
    /\ UNCHANGED <<qty, leg, pos, sent, cut>>

Next == \E s \in Splits :
    \/ \E legs \in LegLists : CreateSplit(s, legs)
    \/ ExecuteSplit(s) \/ PlaceLeg(s) \/ CancelSplit(s) \/ CancelArrives(s)
    \/ \E o \in Outcomes : LegReturns(s, o)

Spec == Init /\ [][Next]_vars
-----------------------------------------------------------------------------
Distance(a, b) == IF a < b THEN b - a ELSE a - b

\* The legs of a split order add up to it, up to half a hundredth for each leg
\* that is rounded (_generate_time_legs rounds after it has subtracted).
LegsAddUp ==
    \A s \in Splits : status[s] # Absent =>
        Distance(FoldLeft(LAMBDA a, b : a + b, 0, qty[s]), Total) <= 5 * Len(qty[s])

\* No leg goes to the broker twice, whatever is executed and cancelled.
LegsSentOnce == \A s \in Splits : \A i \in DOMAIN sent[s] : sent[s][i] <= 1

\* COMPLETED means that every leg was placed, FAILED that each was answered and
\* one failed.
VerdictIsTrue ==
    \A s \in Splits :
        /\ status[s] = "COMPLETED" => \A i \in DOMAIN leg[s] : leg[s][i] = "completed"
        /\ status[s] = "FAILED" => /\ \A i \in DOMAIN leg[s] : leg[s][i] # "pending"
                                   /\ \E i \in DOMAIN leg[s] : leg[s][i] = "failed"

\* A split order that is cancelled stays so and sends nothing more to the broker.
CancelledIsQuiet ==
    [][\A s \in Splits : status[s] = "CANCELLED" =>
          status'[s] = "CANCELLED" /\ sent'[s] = sent[s]]_vars

\* A cancellation leaves at most one order at the broker that the split order
\* does not know of: the one being placed at that moment, whose leg is pending.
AtMostOneUnknown ==
    \A s \in Splits :
        /\ {i \in live[s] : leg[s][i] = "pending"} \subseteq cut[s]
        /\ Cardinality(cut[s]) <= 1
        /\ cut[s] # {} => status[s] = "CANCELLED"
=============================================================================
