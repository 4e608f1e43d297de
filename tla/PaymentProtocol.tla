-------------------------- MODULE PaymentProtocol --------------------------
(***************************************************************************)
(* What the payment path promises to a table, whatever runs concurrently   *)
(* behind it: the guests are asked to pay for one bill at a time, a        *)
(* decision about a bill is final, a visit that is over stays over, and it *)
(* is only ever ended as settled when a bill has been collected.           *)
(*                                                                         *)
(* It is the abstract specification that Settlement implements.            *)
(***************************************************************************)
CONSTANT Payments

VARIABLES
  visit,   \* the table's visit, as its guests see it
  ledger   \* ledger[p]: what became of payment p

Visits == {"open", "frozen", "paused", "settled", "left"}

Entries == {"none", "outstanding", "collected", "withdrawn"}

Over == visit \in {"settled", "left"}

NothingOutstanding == \A p \in Payments : ledger[p] # "outstanding"

Init ==
  /\ visit = "open"
  /\ ledger = [p \in Payments |-> "none"]

\* The guests are asked for the money.  An open visit freezes with the question;
\* a visit that is frozen, or that ended while the question was put, stays what
\* it is.
Ask(p) ==
  /\ NothingOutstanding
  /\ ledger[p] = "none"
  /\ ledger' = [ledger EXCEPT ![p] = "outstanding"]
  /\ visit' \in {visit} \cup (IF visit = "open" THEN {"frozen"} ELSE {})

\* Staff decide about an outstanding bill, once.
Decide(p) ==
  /\ ledger[p] = "outstanding"
  /\ \E d \in {"collected", "withdrawn"} : ledger' = [ledger EXCEPT ![p] = d]
  /\ UNCHANGED visit

Thaw == visit = "frozen" /\ visit' = "open" /\ UNCHANGED ledger

Pause == visit = "open" /\ visit' = "paused" /\ UNCHANGED ledger

Resume == visit = "paused" /\ visit' = "open" /\ UNCHANGED ledger

\* The visit ends as settled only for money.
SettleVisit ==
  /\ ~Over
  /\ \E p \in Payments : ledger[p] = "collected"
  /\ visit' = "settled"
  /\ UNCHANGED ledger

Leave == ~Over /\ visit' = "left" /\ UNCHANGED ledger

Next ==
  \/ \E p \in Payments : Ask(p) \/ Decide(p)
  \/ Thaw \/ Pause \/ Resume \/ SettleVisit \/ Leave

Spec == Init /\ [][Next]_<<visit, ledger>>

=============================================================================
