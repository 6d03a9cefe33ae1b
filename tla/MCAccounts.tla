------------------------------ MODULE MCAccounts ------------------------------
(***************************************************************************)
(* Instance of Accounts for TLC.                                           *)
(***************************************************************************)
EXTENDS Accounts, TLC

JobSymmetry == Permutations(Jobs)

\* A negative amount, which counts as none, and one that is not.
SomeAmounts == {-1, 3}

\* Above 4 an amount is a multiple of 4: 3 + 3 is 8.
Rounded(n) == IF n > 4 THEN 4 * ((n + 2) \div 4) ELSE n
RoundedSum(a, b) == Rounded(a + b)
RoundedDifference(a, b) == Rounded(a - b)

Cell(total, down, remain, cash, settled) ==
    [total |-> total, down |-> down, remain |-> remain, cash |-> cash, settled |-> settled]

\* The first row: a down payment and a remainder, cash, or nothing but a
\* negative amount.  The second owes all, its total's cell being without use.
SomeCells == [r \in 1..2 |->
    IF r = 1 THEN {Cell(3, 3, 3, FALSE, FALSE), Cell(3, -1, 3, TRUE, FALSE),
                   Cell(-1, -1, 3, FALSE, TRUE)}
             ELSE {Cell(-1, -1, 3, FALSE, FALSE)}]

\* Two entries the server takes, and one it refuses.
Entry(total, upfront, plan) == [total |-> total, upfront |-> upfront, plan |-> plan]
SomeEntries == {Entry(3, Null, "NORMAL"), Entry(3, 0, "PREPAID"), Entry(3, 8, "PREPAID")}
=============================================================================
