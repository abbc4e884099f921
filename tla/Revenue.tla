------------------------------ MODULE Revenue ------------------------------
(***************************************************************************)
(* The revenue periods of one contract (allocate_revenue of                *)
(* src/app/mapping/revenue.py on the lines src/app/aquira/normalize.py     *)
(* reads): each line is spread over its months, the months of all lines    *)
(* are rounded to cents, and what exceeds the contract total is scaled     *)
(* down.  Money is in cents, a month's share of a line in whole Units of a *)
(* cent, which stand for the 28 digits the code divides with; what the     *)
(* division leaves goes to the line's last month, as in the code.  Those   *)
(* digits may meet half a cent from either side: where rounding to cents   *)
(* meets a tie the model takes either neighbour.                           *)
(***************************************************************************)
EXTENDS Integers, Functions, FiniteSets, Sequences

CONSTANTS
    Months,    \* bound: months of a flight
    Stations,  \* station ids
    Amounts,   \* what a line may state
    Totals,    \* what the contract may state
    Weights,   \* spots or seconds per month; NoEntry: the month is not listed
    MaxLines,  \* bound
    Unit       \* parts of a cent

Month == 1 .. Months
NoEntry == -1
NoDate == 0    \* a day that is absent or unreadable
Slot == Month \X Stations
Tolerance == 5

\* What a line says of each month of the flight, if anything.
Entries == [Month -> Nat \cup {NoEntry}]

ASSUME RevenueAssumption ==
    /\ Months \in Nat \ {0} /\ MaxLines \in Nat
    /\ Stations \subseteq Nat /\ 0 \in Stations
    /\ Amounts \subseteq Nat /\ Totals \subseteq Nat
    /\ Weights \subseteq Entries
    /\ Unit \in Nat \ {0}

Line == [first : Month \cup {NoDate}, last : Month, amount : Amounts, weight : Weights, station : Stations]

VARIABLES
    phase,
    lines, total,    \* the contract
    rounded,         \* the periods before scaling
    amounts          \* the periods

revVars == <<phase, lines, total, rounded, amounts>>

NoPeriods == [b \in {} |-> 0]

RevInit ==
    /\ phase = "idle"
    /\ lines = <<>> /\ total = 0
    /\ rounded = NoPeriods /\ amounts = NoPeriods

\* A contract arrives from load_catalog, line by line.
Arrive(t) ==
    /\ phase = "idle"
    /\ phase' = "lines"
    /\ total' = t
    /\ lines' = <<>> /\ rounded' = NoPeriods /\ amounts' = NoPeriods

ArriveLine(l) ==
    /\ Len(lines) < MaxLines
    /\ lines' = Append(lines, l)
    /\ UNCHANGED <<phase, total, rounded, amounts>>

-----------------------------------------------------------------------------
(* Spreading.                                                              *)

Flight(l) == l.first .. l.last

\* Slip: a line whose months have no weight is left out.
WeightedStrictly(l) ==
    [m \in {n \in Flight(l) : l.weight[n] > 0} |-> l.weight[m]]

\* The months a line is spread over, and how: by its entries; evenly without
\* entries in its flight or when they are all zero; on its first month when
\* it ends before it starts.
Weighted(l) ==
    LET listed == {m \in Flight(l) : l.weight[m] # NoEntry}
        months == IF Flight(l) = {} THEN {l.first} ELSE IF listed = {} THEN Flight(l) ELSE listed
        even   == \A m \in months : l.weight[m] \in {0, NoEntry}
    IN  [m \in months |-> IF even \/ Flight(l) = {} THEN 1 ELSE l.weight[m]]

\* A line without a first day or without an amount is skipped.
Used == {i \in DOMAIN lines : lines[i].first # NoDate /\ lines[i].amount # 0}

LastMonth(M) == CHOOSE m \in M : \A n \in M : n <= m

\* What each month of a line gets; the last takes the rest.
Shares(l) ==
    LET w    == Weighted(l)
        z    == LastMonth(DOMAIN w)
        part == [m \in DOMAIN w \ {z} |-> (l.amount * Unit * w[m]) \div SumFunction(w)]
    IN  [m \in DOMAIN w |-> IF m = z THEN l.amount * Unit - SumFunction(part) ELSE part[m]]

Share(l, slot) ==
    IF slot[2] = l.station /\ slot[1] \in DOMAIN Weighted(l) THEN Shares(l)[slot[1]] ELSE 0

Slots == UNION {(DOMAIN Weighted(lines[i])) \X {lines[i].station} : i \in Used}

Exact == [b \in Slots |-> SumFunction([i \in Used |-> Share(lines[i], b)])]

\* Either neighbour on a tie.
Nearest(c, num, den) == 2 * (c * den - num) <= den /\ 2 * (num - c * den) <= den
Roundings(num, den) == {c \in {num \div den, num \div den + 1} : Nearest(c, num, den)}

RoundSlots ==
    /\ phase = "lines" /\ lines # <<>>
    /\ \E up \in [Slots -> 0 .. 1] :
        /\ \A b \in Slots : Nearest(Exact[b] \div Unit + up[b], Exact[b], Unit)
        /\ rounded' = [b \in Slots |-> Exact[b] \div Unit + up[b]]
    /\ phase' = "rounded"
    /\ UNCHANGED <<lines, total, amounts>>

-----------------------------------------------------------------------------
(* Scaling.                                                                *)

After(a, b) == a[1] > b[1] \/ (a[1] = b[1] /\ a[2] > b[2])
LastSlot(S) == CHOOSE b \in S : \A a \in S \ {b} : After(b, a)

\* normalize_contract: a total that is not stated is that of the lines.
Stated == IF total = 0 THEN SumFunction([i \in DOMAIN lines |-> lines[i].amount]) ELSE total

\* summarize_allocation: what the operator is warned of.
Mismatch ==
    LET off == Stated - SumFunction(amounts)
    IN  off > Tolerance \/ 0 - off > Tolerance

Excessive == Stated > 0 /\ SumFunction(rounded) > Stated + Tolerance

\* Slip: the last period is scaled like the others.
ScaleEach ==
    /\ phase = "rounded"
    /\ amounts' = IF Excessive
                  THEN [b \in DOMAIN rounded |->
                          CHOOSE c \in Roundings(rounded[b] * Stated, SumFunction(rounded)) : TRUE]
                  ELSE rounded
    /\ phase' = "done"
    /\ UNCHANGED <<lines, total, rounded>>

\* _scale_down_to_total: all but the last are scaled, the last takes the rest.
Scale ==
    /\ phase = "rounded"
    /\ LET sum  == SumFunction(rounded)
           head == DOMAIN rounded \ {LastSlot(DOMAIN rounded)}
       IN  IF ~Excessive
           THEN amounts' = rounded
           ELSE \E up \in [head -> 0 .. 1] :
                  LET part == [b \in head |-> (rounded[b] * Stated) \div sum + up[b]]
                  IN  /\ \A b \in head : Nearest(part[b], rounded[b] * Stated, sum)
                      /\ amounts' = [b \in DOMAIN rounded |->
                            IF b \in head THEN part[b] ELSE Stated - SumFunction(part)]
    /\ phase' = "done"
    /\ UNCHANGED <<lines, total, rounded>>

\* Without lines the total is split evenly over the flight, the last month
\* taking the rest; without a total, a first or a last day there is nothing.
Splits(first, last) == total # 0 /\ NoDate \notin {first, last}

Split(first, last) ==
    /\ phase = "lines" /\ lines = <<>>
    /\ Splits(first, last) => first <= last
    /\ LET flight == (first .. last) \X {0}
           n      == last - first + 1
       IN  IF ~ Splits(first, last)
           THEN amounts' = NoPeriods
           ELSE \E each \in Roundings(total, n) :
                  amounts' = [b \in flight |->
                      IF b = LastSlot(flight) THEN total - (n - 1) * each ELSE each]
    /\ phase' = "done"
    /\ UNCHANGED <<lines, total, rounded>>

\* A flight that ends before it starts has no months: the division by their
\* number raises, out of plan_deals and build_plan, and the sync ends there.
SplitRaises(first, last) ==
    /\ phase = "lines" /\ lines = <<>> /\ Splits(first, last) /\ first > last
    /\ phase' = "raised"
    /\ UNCHANGED <<lines, total, rounded, amounts>>

\* The next contract.
NextContract ==
    /\ phase \in {"done", "raised"}
    /\ phase' = "idle"
    /\ lines' = <<>> /\ total' = 0
    /\ rounded' = NoPeriods /\ amounts' = NoPeriods

RevNext ==
    \/ \E t \in Totals : Arrive(t)
    \/ phase = "lines" /\ \E l \in Line : ArriveLine(l)
    \/ RoundSlots
    \/ Scale
    \/ \E s, e \in Month \cup {NoDate} : Split(s, e) \/ SplitRaises(s, e)
    \/ NextContract

RevSpec == RevInit /\ [][RevNext]_revVars

-----------------------------------------------------------------------------

RevTypeOK ==
    /\ phase \in {"idle", "lines", "rounded", "done", "raised"}
    /\ lines \in Seq(Line) /\ Len(lines) <= MaxLines
    /\ total \in Totals \cup {0}
    /\ DOMAIN rounded \subseteq Slot /\ \A b \in DOMAIN rounded : rounded[b] \in Nat
    /\ DOMAIN amounts \subseteq Slot /\ \A b \in DOMAIN amounts : amounts[b] \in Int

\* The mismatch a sync warns of is never an over-allocation, and the periods
\* meet the total exactly when they were scaled down or split: the cents lost
\* in rounding end up in the last period.
NeverOverbooked ==
    phase = "done" =>
        /\ Mismatch => SumFunction(amounts) < Stated
        /\ (lines = <<>> /\ DOMAIN amounts # {}) \/ Excessive => SumFunction(amounts) = Stated

Money(S) == SumFunction([i \in S |-> lines[i].amount])
Undated == {i \in DOMAIN lines : lines[i].first = NoDate}

\* A line with a first day is spread whole, whatever its last day, its weights
\* and the other lines of its slots: before scaling the periods add up to
\* those lines within half a cent per period.  A line without a first day is
\* left out, and not silently: where the total is that of the lines the
\* operator is warned, unless the tolerance and the rounding cover its amount.
NothingLost ==
    phase \in {"rounded", "done"} /\ lines # <<>> =>
        LET off == SumFunction(rounded) - Money(Used)
            n   == Cardinality(DOMAIN rounded)
        IN  /\ 2 * off <= n /\ 0 - 2 * off <= n
            /\ phase = "done" /\ total = 0 /\ 2 * Money(Undated) > 2 * Tolerance + n => Mismatch

\* What "one bad record does not stop a sync" (the apply loop's error items)
\* asks of planning too, and the code does not do.
NeverRaises == phase # "raised"
=============================================================================
