---------------------------- MODULE AlertDelivery ---------------------------
(***************************************************************************)
(* The delivery of one alert to the channels of a rule: one after the      *)
(* other, or all at once if the anomaly is critical; three attempts each.  *)
(*                                                                         *)
(* Every attempt is logged as pending before and with its outcome after    *)
(* it.  All tasks log through one database session, and a commit that      *)
(* fails is not rolled back: the session may refuse all later ones.        *)
(***************************************************************************)
EXTENDS Naturals, FiniteSets

CONSTANTS NumChannels,
          MaxRetries

Channels == 1..NumChannels
Attempts == 1..MaxRetries
Results == {"none", "sent", "skipped", "failed"}

VARIABLES critical,
          at,       \* per channel: "waiting", "sending", "pausing", "over"
          attempt,
          result,   \* what _deliver_to_channel returned
          got,      \* messages that reached the user
          unsure,   \* attempts that failed although the message was taken
          rows,     \* rows of the delivery log, per channel
          broken    \* the session refuses to commit

vars == <<critical, at, attempt, result, got, unsure, rows, broken>>

TypeOK ==
    /\ critical \in BOOLEAN
    /\ at \in [Channels -> {"waiting", "sending", "pausing", "over"}]
    /\ attempt \in [Channels -> Attempts]
    /\ result \in [Channels -> Results]
    /\ got \in [Channels -> Nat]
    /\ unsure \in [Channels -> Nat]
    /\ rows \in [Channels -> SUBSET (Attempts \X {"pending", "sent", "skipped", "failed"})]
    /\ broken \in BOOLEAN

Init ==
    /\ critical \in BOOLEAN
    /\ at = [c \in Channels |-> "waiting"]
    /\ attempt = [c \in Channels |-> 1]
    /\ result = [c \in Channels |-> "none"]
    /\ got = [c \in Channels |-> 0]
    /\ unsure = [c \in Channels |-> 0]
    /\ rows = [c \in Channels |-> {}]
    /\ broken = FALSE
-----------------------------------------------------------------------------
\* A row is written, or the commit fails and perhaps the session with it.
LogRow(c, status) ==
    \/ /\ ~broken
       /\ rows' = [rows EXCEPT ![c] = @ \union {<<attempt[c], status>>}]
       /\ UNCHANGED broken
    \/ /\ UNCHANGED rows
       /\ broken' \in {broken, TRUE}

Bug_StopsAtFailure(c) == \A d \in 1..c - 1 : result[d] \in {"sent", "skipped"}
\* Not critical: the channels before are over, whatever became of them.
MayStart(c) == critical \/ \A d \in 1..c - 1 : at[d] = "over"

BeginAttempt(c) ==
    /\ \/ at[c] = "waiting" /\ MayStart(c)
       \/ at[c] = "pausing"
    /\ at' = [at EXCEPT ![c] = "sending"]
    /\ LogRow(c, "pending")
    /\ UNCHANGED <<critical, attempt, result, got, unsure>>

Bug_GoesOn(c) == "pausing"
After(c) == "over"

Return(c, status) ==
    /\ result' = [result EXCEPT ![c] = status]
    /\ at' = [at EXCEPT ![c] = After(c)]
    /\ UNCHANGED attempt

Sent(c) ==
    /\ at[c] = "sending"
    /\ got' = [got EXCEPT ![c] = @ + 1]
    /\ LogRow(c, "sent")
    /\ Return(c, "sent")
    /\ UNCHANGED <<critical, unsure>>

\* The channel is switched off or has no address of the user.
Skipped(c) ==
    /\ at[c] = "sending"
    /\ LogRow(c, "skipped")
    /\ Return(c, "skipped")
    /\ UNCHANGED <<critical, got, unsure>>

Bug_OneAttemptMore(c) == attempt[c] <= MaxRetries
Bug_OneAttemptLess(c) == attempt[c] < MaxRetries - 1
HasAttempts(c) == attempt[c] < MaxRetries

\* The channel says so, or raised: perhaps the message was taken and only the
\* answer is missing.
Failed(c, taken) ==
    /\ at[c] = "sending"
    /\ got' = [got EXCEPT ![c] = @ + taken]
    /\ unsure' = [unsure EXCEPT ![c] = @ + taken]
    /\ LogRow(c, "failed")
    /\ IF HasAttempts(c)
         THEN /\ attempt' = [attempt EXCEPT ![c] = @ + 1]
              /\ at' = [at EXCEPT ![c] = "pausing"]
              /\ UNCHANGED result
         ELSE Return(c, "failed")
    /\ UNCHANGED critical

Next == \E c \in Channels :
    \/ BeginAttempt(c) \/ Sent(c) \/ Skipped(c)
    \/ \E taken \in {0, 1} : Failed(c, taken)

Spec == Init /\ [][Next]_vars
-----------------------------------------------------------------------------
\* The user is told twice by one channel only if the channel took a message and
\* its answer was lost: no attempt follows one that is known to have arrived,
\* and a delivery that is given up has used every attempt.
RepeatedOnlyIfUnsure ==
    \A c \in Channels :
        /\ got[c] <= unsure[c] + (IF result[c] = "sent" THEN 1 ELSE 0)
        /\ result[c] = "failed" => attempt[c] = MaxRetries

\* The log may be incomplete once a commit failed, but never wrong: a row that
\* says sent, or a last failure, is the outcome that was returned, and no
\* attempt is logged behind it.
LogTellsTheTruth ==
    \A c \in Channels : \A row \in rows[c] :
        /\ row[2] = "sent" => result[c] = "sent" /\ got[c] > 0
        /\ row[2] \in {"sent", "skipped"} => \A later \in rows[c] : later[1] <= row[1]
        /\ row = <<MaxRetries, "failed">> => result[c] = "failed"

\* A channel that fails keeps none of the others from being tried.
NoChannelIsForgotten ==
    (\A c \in Channels : at[c] \in {"waiting", "over"}) =>
        \/ \A c \in Channels : result[c] # "none"
        \/ \E c \in Channels : at[c] = "waiting" /\ MayStart(c)
=============================================================================
