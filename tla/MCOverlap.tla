------------------------------ MODULE MCOverlap ------------------------------
(***************************************************************************)
(* MCSettlement with a history: of the documented rules, those not excused *)
(* so far, because the pair of statements that alone may break them was    *)
(* not pending.                                                            *)
(***************************************************************************)
EXTENDS MCSettlement

VARIABLE
  binding  \* the rules that no pair of statements has excused so far

historyVars == <<vars, binding>>

\* A force-close is excused as well if it stops before it has withdrawn everything.
ForceCloseStops ==
  \E t \in Tasks :
    stage[t] \in {"list_stranded", "withdraw"} /\ Abort(t) /\ ~ForceCloseByStaff(t)

StillBinding ==
  { r \in binding : \/ r = "thaw" /\ ThawApart
                    \/ r = "freeze" /\ OrderApart
                    \/ r = "close" /\ CloseApart
                    \/ r = "force-close" /\ ForceApart /\ ~ForceCloseStops }

HistoryInit == Init /\ binding = {"thaw", "freeze", "close", "force-close"}

HistoryNext == Next /\ binding' = StillBinding

HistorySpec == HistoryInit /\ [][HistoryNext]_historyVars

\* NothingOutstandingWhileActive, until a release has been pending beside an
\* initiation that is about to create a payment.
ThawsUnbilled == "thaw" \in binding => NothingOutstandingWhileActive

\* OrdersFrozenWhilePaying, until an admitted order has been pending beside an
\* initiation that is about to freeze.
FrozenStaysFrozen == []["freeze" \in binding' => NoOrderWhilePaying]_historyVars

\* SystemCloseCoversOrders, until an admitted order has been pending beside a close
\* that has compared its bill.
ClosesCovered == []["close" \in binding' => CloseCoversOrders]_historyVars

\* ForceCloseWithdrawsPayments, until a force-close has stopped half way or has
\* yet to list the payments while an initiation is about to create one.
ForceCloseWithdraws == "force-close" \in binding => ForceCloseWithdrawsPayments

=============================================================================
