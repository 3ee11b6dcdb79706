---------------------------- MODULE Commissions -----------------------------
(***************************************************************************)
(* Commissions of an affiliate: track_affiliate_conversion keeps the row   *)
(* of a referred user, record_commission adds a commission per month and   *)
(* adds it to two totals (here: their number).  Each statement commits by  *)
(* itself and may fail.                                                    *)
(*                                                                         *)
(* One affiliate and one referred user, UNIQUE(affiliate_id,               *)
(* referred_user_id); no constraint on (conversion_id, period).            *)
(***************************************************************************)
EXTENDS FiniteSets, Naturals

CONSTANTS Posts,    \* requests to either endpoint
          Periods   \* months, numbered

Kinds == {"signup", "first_payment", "cancelled"} \union Periods

VARIABLES
    post,         \* what a request reports: an event, or the period of a payment
    at,           \* the statement it comes to next
    conversion,   \* its status: "none", "pending", "active", "cancelled"
    signup, payment,       \* signup_at and first_payment_at are set
    signups, conversions,  \* total_signups, total_conversions
    commissions,  \* requests that inserted a commission
    affiliateTotal, conversionTotal,  \* both total_commission_paise
    crossed,      \* kinds of which two requests were at once between check and write
    answer        \* "none", "ok", "refused", "error"

row == <<conversion, signup, payment>>
totals == <<commissions, affiliateTotal, conversionTotal>>
vars == <<post, at, conversion, signup, payment, signups, conversions, commissions,
          affiliateTotal, conversionTotal, crossed, answer>>

TypeOK ==
    /\ post \in [Posts -> Kinds]
    /\ at \in [Posts -> {"idle", "inserting", "signing", "paying", "cancelling",
                         "counting signup", "counting payment", "checking", "recording",
                         "adding", "summing", "over"}]
    /\ conversion \in {"none", "pending", "active", "cancelled"}
    /\ {signup, payment} \subseteq BOOLEAN
    /\ {signups, conversions, affiliateTotal, conversionTotal} \subseteq Nat
    /\ commissions \subseteq Posts /\ crossed \subseteq Kinds
    /\ answer \in [Posts -> {"none", "ok", "refused", "error"}]

Init ==
    /\ post \in [Posts -> Kinds]
    /\ at = [p \in Posts |-> "idle"]
    /\ conversion = "none" /\ signup = FALSE /\ payment = FALSE
    /\ signups = 0 /\ conversions = 0
    /\ commissions = {} /\ affiliateTotal = 0 /\ conversionTotal = 0
    /\ crossed = {}
    /\ answer = [p \in Posts |-> "none"]
-----------------------------------------------------------------------------
Go(p, place) == at' = [at EXCEPT ![p] = place] /\ UNCHANGED answer
Answer(p, what) == at' = [at EXCEPT ![p] = "over"] /\ answer' = [answer EXCEPT ![p] = what]
\* p comes to write what another request of its kind is about to write.
Crossing(p, place) ==
    IF at'[p] = place /\ \E q \in Posts \ {p} : at[q] = place /\ post[q] = post[p]
    THEN crossed \union {post[p]} ELSE crossed

Fails(p) ==
    /\ at[p] # "over"
    /\ Answer(p, "error")
    /\ UNCHANGED <<post, row, signups, conversions, totals, crossed>>
-----------------------------------------------------------------------------
(* track_affiliate_conversion                                              *)

LookEvent(p) ==
    /\ at[p] = "idle" /\ post[p] \notin Periods
    /\ CASE conversion = "none" -> Go(p, "inserting")
         [] conversion # "none" /\ post[p] = "signup" /\ ~signup -> Go(p, "signing")
         [] conversion # "none" /\ post[p] = "first_payment" /\ ~payment -> Go(p, "paying")
         [] conversion # "none" /\ post[p] = "cancelled" -> Go(p, "cancelling")
         [] OTHER -> Answer(p, "ok")
    /\ crossed' = Crossing(p, "signing") \union Crossing(p, "paying")
    /\ UNCHANGED <<post, row, signups, conversions, totals>>

\* The first event creates the row as pending, whatever it is.
InsertRow(p) ==
    /\ at[p] = "inserting" /\ conversion = "none"
    /\ conversion' = "pending"
    /\ signup' = (post[p] = "signup")
    /\ IF post[p] = "signup" THEN Go(p, "counting signup") ELSE Answer(p, "ok")
    /\ UNCHANGED <<post, payment, signups, conversions, totals, crossed>>

SetSignup(p) ==
    /\ at[p] = "signing"
    /\ signup' = TRUE
    /\ Go(p, "counting signup")
    /\ UNCHANGED <<post, conversion, payment, signups, conversions, totals,
                   crossed>>

\* A cancelled conversion becomes active again by its first payment.
SetPayment(p) ==
    /\ at[p] = "paying"
    /\ payment' = TRUE /\ conversion' = "active"
    /\ Go(p, "counting payment")
    /\ UNCHANGED <<post, signup, signups, conversions, totals, crossed>>

Cancel(p) ==
    /\ at[p] = "cancelling"
    /\ conversion' = "cancelled"
    /\ Answer(p, "ok")
    /\ UNCHANGED <<post, signup, payment, signups, conversions, totals, crossed>>

CountSignup(p) ==
    /\ at[p] = "counting signup"
    /\ signups' = signups + 1
    /\ Answer(p, "ok")
    /\ UNCHANGED <<post, row, conversions, totals, crossed>>

CountPayment(p) ==
    /\ at[p] = "counting payment"
    /\ conversions' = conversions + 1
    /\ Answer(p, "ok")
    /\ UNCHANGED <<post, row, signups, totals, crossed>>
-----------------------------------------------------------------------------
(* record_commission                                                       *)

LookStatus(p) ==
    /\ at[p] = "idle" /\ post[p] \in Periods
    /\ IF conversion \in {"active", "pending"}
         THEN Go(p, "checking") ELSE Answer(p, "refused")
    /\ UNCHANGED <<post, row, signups, conversions, totals, crossed>>

Bug_NeverRecorded(p) == FALSE
Recorded(p) == \E q \in commissions : post[q] = post[p]

CheckPeriod(p) ==
    /\ at[p] = "checking"
    /\ IF Recorded(p) THEN Answer(p, "refused") ELSE Go(p, "recording")
    /\ crossed' = Crossing(p, "recording")
    /\ UNCHANGED <<post, row, signups, conversions, totals>>

Record(p) ==
    /\ at[p] = "recording"
    /\ commissions' = commissions \union {p}
    /\ Go(p, "adding")
    /\ UNCHANGED <<post, row, signups, conversions, affiliateTotal, conversionTotal,
                   crossed>>

AddToAffiliate(p) ==
    /\ at[p] = "adding"
    /\ affiliateTotal' = affiliateTotal + 1
    /\ Go(p, "summing")
    /\ UNCHANGED <<post, row, signups, conversions, commissions, conversionTotal,
                   crossed>>

AddToConversion(p) ==
    /\ at[p] = "summing"
    /\ conversionTotal' = conversionTotal + 1
    /\ Answer(p, "ok")
    /\ UNCHANGED <<post, row, signups, conversions, commissions, affiliateTotal,
                   crossed>>

Next ==
    \E p \in Posts :
       \/ LookEvent(p) \/ InsertRow(p) \/ SetSignup(p) \/ SetPayment(p) \/ Cancel(p)
       \/ CountSignup(p) \/ CountPayment(p) \/ LookStatus(p) \/ CheckPeriod(p)
       \/ Record(p) \/ AddToAffiliate(p) \/ AddToConversion(p) \/ Fails(p)

Spec == Init /\ [][Next]_vars
-----------------------------------------------------------------------------
\* The signup and the first payment are counted once and every month is paid for
\* once, unless two requests read the row before either wrote it.
OnceEach ==
    /\ "signup" \in crossed \/ signups <= 1
    /\ "first_payment" \in crossed \/ conversions <= 1
    /\ \A p, q \in commissions : post[p] = post[q] => p = q \/ post[p] \in crossed

\* The counters and totals follow the rows; what they lack belongs to requests
\* under way or failed.
About(kind) == {p \in Posts : post[p] = kind}
Behind(posts, places) == \E p \in posts : at[p] \in places \/ answer[p] = "error"

TotalsAddUp ==
    /\ signup /\ signups = 0 => Behind(About("signup"), {"counting signup"})
    /\ payment /\ conversions = 0 => Behind(About("first_payment"), {"counting payment"})
    /\ conversionTotal <= affiliateTotal /\ affiliateTotal <= Cardinality(commissions)
    /\ \/ affiliateTotal = Cardinality(commissions)
       \/ Behind(commissions, {"adding"})
    /\ \/ conversionTotal = Cardinality(commissions)
       \/ Behind(commissions, {"adding", "summing"})
=============================================================================
