---- MODULE MCEscrow ----
(***************************************************************************)
(* Instances of the escrow for TLC.  Amounts are chosen so that the        *)
(* integer divisions of the fee formulas round (5 * 2000 bps is 1, 5 *     *)
(* 5000 bps is 2), and inputs the guards must reject (amount 0, a fee      *)
(* above its limit, an empty or duplicated committee, a plan or a basket   *)
(* with a zero) are offered as well.                                       *)
(***************************************************************************)
EXTENDS EscrowBasket

CONSTANTS a1, a2, a3, a4, usd, eur

SmallCommittees == {[list |-> <<a1, a2, a3>>, required |-> 2],
                    [list |-> <<a1, a1>>, required |-> 2],
                    [list |-> <<a1>>, required |-> 2],
                    [list |-> <<>>, required |-> 0]}
ThreeOfFour == {[list |-> <<a1, a2, a3, a4>>, required |-> 3]}
Fresh(amounts) == [amounts |-> amounts, released |-> {}]
PlanChoices == {Fresh(<<>>), Fresh(<<2, 0>>), Fresh(<<2, 3>>), Fresh(<<1, 1, 2>>)}
Entry(t, x) == [token |-> t, amount |-> x]
BasketChoices == {<<>>, <<Entry(Lead, 2), Entry(eur, 0)>>,
                  <<Entry(Lead, 5), Entry(eur, 1), Entry(usd, 1), Entry(eur, 1)>>}
====
