---------------------------- MODULE StockLedger ----------------------------
(***************************************************************************)
(* What the movement engine promises its callers (the header comment of    *)
(* inventory.service.ts and the contract of `apply` and `transfer`): stock *)
(* changes by whole transactions, one at a time.  A transaction is one or  *)
(* two movements; each is checked against the stock its predecessor left,  *)
(* and either all of them happen or none.  A caller that is answered has   *)
(* had exactly its own transaction performed.  There are no locks, private *)
(* copies, aborts or crashes here.                                         *)
(***************************************************************************)
EXTENDS Movements

CONSTANTS
  Callers,
  Transactions,  \* sequences of one or two movements
  SafetyLevels

VARIABLES
  stock, safety,
  answer         \* per caller: the transaction performed for it, or << >>

Applied(rows, m) == [rows EXCEPT ![m.row] = Plus(@, m.deltas)]
Legal(rows, m) ==
  Validates(Plus(rows[m.row], m.deltas), safety[m.row], m)

Init ==
  /\ stock = [r \in Rows |-> ZeroBuckets]
  /\ safety = [r \in Rows |-> 0]
  /\ answer = [p \in Callers |-> << >>]

(* A transaction of one movement. *)
Single(m) ==
  /\ Legal(stock, m)
  /\ stock' = Applied(stock, m)

(* A transaction of two: the second movement sees the first. *)
Pair(m, n) ==
  /\ Legal(stock, m)
  /\ Legal(Applied(stock, m), n)
  /\ stock' = Applied(Applied(stock, m), n)

Perform(p, s) ==
  /\ answer[p] = << >>
  /\ answer' = [answer EXCEPT ![p] = s]
  /\ \/ Len(s) = 1 /\ Single(s[1])
     \/ Len(s) = 2 /\ Pair(s[1], s[2])
  /\ UNCHANGED safety

(* The caller has its answer, or died before it could use it. *)
Return(p) ==
  /\ answer' = [answer EXCEPT ![p] = << >>]
  /\ UNCHANGED <<stock, safety>>

SetSafety(r, n) ==
  /\ safety' = [safety EXCEPT ![r] = n]
  /\ UNCHANGED <<stock, answer>>

Next ==
  \/ \E r \in Rows, n \in SafetyLevels : SetSafety(r, n)
  \/ \E p \in Callers : Return(p) \/ \E s \in Transactions : Perform(p, s)

Spec == Init /\ [][Next]_<<stock, safety, answer>>
=============================================================================
