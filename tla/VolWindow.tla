----------------------------- MODULE VolWindow -----------------------------
(***************************************************************************)
(* What the volatility oracle of a feed promises: volatility is computed   *)
(* from the last Size log returns, recomputed from scratch, and each of    *)
(* them is the market's move over a span that counts as one hour.  There   *)
(* are no running sums and no ring here.  Prices are on a log scale, so    *)
(* that a return is a difference.                                          *)
(***************************************************************************)
EXTENDS Integers, Sequences, Functions

CONSTANTS Size, MinSpan, MaxSpan, MaxAge

VARIABLES
    market,   \* the market's price
    base,     \* the price the next return starts from, 0 for none
    age,      \* time since base was taken, MaxAge for that or more
    window,   \* the returns volatility is computed from, oldest first
    moments   \* what the computation reads

Moments(w) ==
    [n       |-> Len(w),
     sum     |-> SumFunction(w),
     squares |-> SumFunction([i \in DOMAIN w |-> w[i] * w[i]])]

Latest(w) == IF Len(w) > Size THEN Tail(w) ELSE w

Remember(w) == window' = w /\ moments' = Moments(w)

TakeBase == base' = market /\ age' = 0 /\ UNCHANGED market

Init == base = 0 /\ age = MaxAge /\ window = <<>> /\ moments = Moments(<<>>)

Sample ==
    /\ base # 0 /\ age \in MinSpan .. MaxSpan
    /\ TakeBase
    /\ Remember(Latest(Append(window, market - base)))

(* The first price, or the first after too long a gap: no return is made   *)
(* of it.                                                                  *)
Rebase ==
    /\ base = 0 \/ age > MaxSpan
    /\ TakeBase
    /\ Remember(window)

Clear ==
    /\ base' = 0 /\ age' = MaxAge
    /\ Remember(<<>>)
    /\ UNCHANGED market

Pass ==
    /\ age' = IF age = MaxAge THEN age ELSE age + 1
    /\ UNCHANGED <<base, window, moments>>

Next == Sample \/ Rebase \/ Clear \/ Pass

Spec == Init /\ [][Next]_<<market, base, age, window, moments>>
============================================================================
