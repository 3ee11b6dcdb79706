----------------------------- MODULE Referrals ------------------------------
(***************************************************************************)
(* Referrals of the marketing service: track_referral records the events   *)
(* of one referred user, and her conversion rewards both sides through     *)
(* RewardService.  Each statement commits by itself; requests cross        *)
(* between any two of them, and any of them may fail.                      *)
(*                                                                         *)
(* One referral code and one referred user: referrals has one row of them, *)
(* UNIQUE(referrer_id, referred_user_id).  The amounts are fixed, so       *)
(* rewards are counted.                                                    *)
(***************************************************************************)
EXTENDS FiniteSets, Naturals

CONSTANT Tracks  \* requests

RowEvents == {"signup", "activation", "conversion"}
Places == {"idle", "inserting", "counting", "updating", "succeeding", "checking",
           "month", "extending", "granting", "discount", "couponing", "paying", "over"}

VARIABLES
    event,       \* what a request reports
    at,          \* the statement or call it comes to next
    seen,        \* events of the row it has read
    exists,      \* the row is there
    row,         \* its events: those of signup_at, activated_at, converted_at that are set
    creator,     \* requests that inserted it
    total,       \* total_referrals
    successful,  \* successful_referrals
    months,      \* rewards of type free_month: the requests that inserted them
    discounts,   \* rewards of type discount, likewise
    granted,     \* rewards of free_month whose status is "granted"
    extended,    \* requests for which the subscription service added a month
    paid,        \* total_rewards_paise, in rewards
    crossed,     \* two requests were once between the check for rewards and the insert
    answer       \* "none", "tracked", "error"

vars == <<event, at, seen, exists, row, creator, total, successful, months, discounts,
          granted, extended, paid, crossed, answer>>
rewarding == <<months, discounts, granted, extended, paid, crossed>>
counters == <<total, successful>>

TypeOK ==
    /\ event \in [Tracks -> RowEvents]
    /\ at \in [Tracks -> Places]
    /\ seen \in [Tracks -> SUBSET RowEvents]
    /\ exists \in BOOLEAN /\ crossed \in BOOLEAN /\ row \subseteq RowEvents
    /\ {total, successful, paid} \subseteq 0..Cardinality(Tracks)
    /\ creator \cup months \cup discounts \cup granted \cup extended \subseteq Tracks
    /\ answer \in [Tracks -> {"none", "tracked", "error"}]

Init ==
    /\ event \in [Tracks -> RowEvents]
    /\ at = [t \in Tracks |-> "idle"]
    /\ seen = [t \in Tracks |-> {}]
    /\ exists = FALSE /\ crossed = FALSE /\ row = {}
    /\ total = 0 /\ successful = 0 /\ paid = 0
    /\ creator = {} /\ months = {} /\ discounts = {} /\ granted = {} /\ extended = {}
    /\ answer = [t \in Tracks |-> "none"]
-----------------------------------------------------------------------------
Go(t, place) == at' = [at EXCEPT ![t] = place]
Answer(t, what) == Go(t, "over") /\ answer' = [answer EXCEPT ![t] = what]

\* An event that is already in the row changes nothing.
Look(t) ==
    /\ at[t] = "idle"
    /\ seen' = [seen EXCEPT ![t] = row]
    /\ IF exists /\ event[t] \in row
         THEN Answer(t, "tracked")
         ELSE Go(t, IF exists THEN "updating" ELSE "inserting") /\ UNCHANGED answer
    /\ UNCHANGED <<event, exists, row, creator, counters, rewarding>>

\* The first event creates the row, and only a signup is kept in it.
Insert(t) ==
    /\ at[t] = "inserting"
    /\ ~exists
    /\ exists' = TRUE
    /\ row' = {event[t]} \cap {"signup"}
    /\ creator' = creator \union {t}
    /\ Go(t, "counting")
    /\ UNCHANGED <<event, seen, counters, rewarding, answer>>

Count(t) ==
    /\ at[t] = "counting"
    /\ total' = total + 1
    /\ Answer(t, "tracked")
    /\ UNCHANGED <<event, seen, exists, row, creator, successful, rewarding>>

Bug_WritesBack(t) == seen[t] \union {event[t]}
\* Each event is a column of its own.
RowAfter(t) == row \union {event[t]}

Update(t) ==
    /\ at[t] = "updating"
    /\ row' = RowAfter(t)
    /\ IF event[t] = "conversion"
         THEN Go(t, "succeeding") /\ UNCHANGED answer
         ELSE Answer(t, "tracked")
    /\ UNCHANGED <<event, seen, exists, creator, counters, rewarding>>

Succeed(t) ==
    /\ at[t] = "succeeding"
    /\ successful' = successful + 1
    /\ Go(t, "checking")
    /\ UNCHANGED <<event, seen, exists, row, creator, total, rewarding, answer>>

\* A statement fails, or the insert finds the row of another request.  Before the
\* check for rewards it is the look-up of the referrer's user_id.
Fails(t) ==
    /\ at[t] \in {"idle", "inserting", "counting", "updating", "succeeding", "checking"}
    /\ Answer(t, "error")
    /\ UNCHANGED <<event, seen, exists, row, creator, counters, rewarding>>
-----------------------------------------------------------------------------
(* award_referral_rewards                                                  *)

Bug_NoCheck == FALSE
AlreadyRewarded == months \union discounts # {}

CheckRewards(t) ==
    /\ at[t] = "checking"
    /\ IF AlreadyRewarded
         THEN Answer(t, "tracked")
         ELSE Go(t, "month") /\ UNCHANGED answer
    /\ crossed' = (crossed \/ (~AlreadyRewarded /\ \E u \in Tracks \ {t} : at[u] = "month"))
    /\ UNCHANGED <<event, seen, exists, row, creator, counters, months, discounts,
                   granted, extended, paid>>

InsertMonth(t) ==
    /\ at[t] = "month"
    /\ months' = months \union {t}
    /\ Go(t, "extending")
    /\ UNCHANGED <<event, seen, exists, row, creator, counters, discounts, granted,
                   extended, paid, crossed, answer>>

\* The subscription service adds the month, refuses, or cannot be heard; the
\* last may leave a month added.
Extend(t) ==
    /\ at[t] = "extending"
    /\ \/ extended' = extended \union {t} /\ Go(t, "granting")
       \/ extended' \in {extended, extended \union {t}} /\ Go(t, "discount")
    /\ UNCHANGED <<event, seen, exists, row, creator, counters, months, discounts,
                   granted, paid, crossed, answer>>

Grant(t) ==
    /\ at[t] = "granting"
    /\ granted' = granted \union {t}
    /\ Go(t, "discount")
    /\ UNCHANGED <<event, seen, exists, row, creator, counters, months, discounts,
                   extended, paid, crossed, answer>>

InsertDiscount(t) ==
    /\ at[t] = "discount"
    /\ discounts' = discounts \union {t}
    /\ Go(t, "couponing")
    /\ UNCHANGED <<event, seen, exists, row, creator, counters, months, granted, extended,
                   paid, crossed, answer>>

\* The coupon, its status and the flags of the row, which nothing here reads.
Coupon(t) ==
    /\ at[t] = "couponing"
    /\ Go(t, "paying")
    /\ UNCHANGED <<event, seen, exists, row, creator, counters, rewarding, answer>>

\* The reward counts for the referrer whether it was granted or not.
Pay(t) ==
    /\ at[t] = "paying"
    /\ paid' = paid + 1
    /\ Answer(t, "tracked")
    /\ UNCHANGED <<event, seen, exists, row, creator, counters, months, discounts, granted,
                   extended, crossed>>

\* track_referral logs the exception and says that the event was tracked.
AwardFails(t) ==
    /\ at[t] \in {"checking", "month", "extending", "granting", "discount", "couponing",
                  "paying"}
    /\ Answer(t, "tracked")
    /\ UNCHANGED <<event, seen, exists, row, creator, counters, rewarding>>

Next ==
    \E t \in Tracks :
       \/ Look(t) \/ Insert(t) \/ Count(t) \/ Update(t) \/ Succeed(t) \/ Fails(t)
       \/ CheckRewards(t) \/ InsertMonth(t) \/ Extend(t) \/ Grant(t) \/ InsertDiscount(t)
       \/ Coupon(t) \/ Pay(t) \/ AwardFails(t)

Spec == Init /\ [][Next]_vars
-----------------------------------------------------------------------------
\* The user counts as referred once, and is not counted only while or because a
\* request did not get from the insert to the counter.
ReferredOnce ==
    /\ total <= 1 /\ Cardinality(creator) <= 1
    /\ total = 1 => exists
    /\ exists /\ total = 0 =>
           \E t \in creator : at[t] = "counting" \/ answer[t] = "error"

\* A conversion that is answered as tracked is in the row, except the one that
\* created the row: it is recorded as pending and must be reported again.
TrackedIsKept ==
    \A t \in Tracks : answer[t] = "tracked" =>
        event[t] \in row \/ t \in creator

\* Rewards follow a conversion, and the referrer has more than one only if two
\* requests looked for rewards before either inserted one.  No month is added,
\* shown as granted or counted without its reward.
RewardedOnceEach ==
    /\ months # {} => "conversion" \in row
    /\ Cardinality(months) > 1 => crossed
    /\ granted \subseteq extended /\ extended \subseteq months
    /\ paid <= Cardinality(discounts) /\ discounts \subseteq months
    /\ Cardinality(months) <= successful
=============================================================================
