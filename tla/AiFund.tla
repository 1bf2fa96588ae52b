--------------------------------- MODULE AiFund ---------------------------------
(***************************************************************************)
(* What the AI may still risk: a cap less what was lost, less what is at   *)
(* risk now.  An amount is a whole number of the smallest position's risk, *)
(* the broker's volume grid; what is left to risk is in hundredths of one, *)
(* since percentages are taken of it before it is rounded down.            *)
(***************************************************************************)
EXTENDS Integers

CONSTANTS
    Cap,            \* ai_capital_cap
    Percent,        \* ai_risk_percentage
    MaxConcurrent   \* ai_max_concurrent_trades

\* guardAiRisk in the settings: the stakes together are at most the fund.
ASSUME FundAssumption ==
    /\ Cap \in Nat /\ Percent \in Nat /\ MaxConcurrent \in Nat \ {0}
    /\ Percent * MaxConcurrent <= 100

NotBelowZero(x) == IF x > 0 THEN x ELSE 0

Unspent(realised) == NotBelowZero(Cap + realised)

\* Mutant: entries asked for are not charged.
RemainingBookedOnly(realised, booked, inFlight) ==
    NotBelowZero(100 * (Unspent(realised) - booked))

\* booked is what the open positions stand to lose, inFlight the number of entries asked
\* for: each is charged the stake a first position would get.
Remaining(realised, booked, inFlight) ==
    NotBelowZero(100 * (Unspent(realised) - booked) - inFlight * Unspent(realised) * Percent)

\* canOpen: entries in flight count against the money and not against the positions.
CanOpen(realised, booked, inFlight, positions) ==
    /\ Unspent(realised) > 0
    /\ positions < MaxConcurrent
    /\ Remaining(realised, booked, inFlight) > 0

\* The share of what remains, down onto the grid.
Risk(remaining, percent) == (remaining * percent) \div 10000
=============================================================================
