------------------------------ MODULE MCFigures -----------------------------
(***************************************************************************)
(* An instance of PayFigures for TLC: shifts by day and by night, leaves   *)
(* around a month of four days, two configurations of the tax slabs and    *)
(* three employees.                                                        *)
(***************************************************************************)
EXTENDS PayFigures

\* A day shift and a night shift; an invalid configuration, which gives way
\* to the default one, and one that does not tax beyond its last slab.
DayAndNight == {[start |-> 10, end |-> 18], [start |-> 22, end |-> 6]}
SomeConfigs ==
    {[DefaultConfig EXCEPT !.firstSlabRate = 60],
     [DefaultConfig EXCEPT !.slabs = <<Slab(2 * Lakh, 15), Slab(4 * Lakh, 25)>>]}
\* Low and high pay with all deductions, the low one mostly allowances, and
\* one whose advance exceeds its pay.
Pay(basic, allowances, cit, advance, bonus, optedIn) ==
    [basic |-> basic, allowances |-> allowances, overtime |-> 700,
     ssfRate |-> 11, pfRate |-> 10, cit |-> cit, advance |-> advance,
     bonus |-> bonus, optedIn |-> optedIn, isMarried |-> basic > 50000]
SomePay ==
    {Pay(9000, 30000, 1000, 0, 150, Deductions),
     Pay(95000, 0, 5000, 2000, NoBonus, Deductions),
     Pay(20000, 2000, 3000, 25000, 0, {"cit", "tds"})}

DaysAround == 1..8
=============================================================================
