--------------------------- MODULE CellOrderProofs ---------------------------
(***************************************************************************)
(* Theorems of CellOrder, for every order and any number of restarts.      *)
(***************************************************************************)
EXTENDS CellOrder, TLAPS

(* OrderInv is inductive: only an open order begins a cycle, and a restart cuts the count. *)
LEMMA OrderInvStep == OrderInv /\ [Next]_orderVars => OrderInv'
<1> SUFFICES ASSUME OrderInv, [Next]_orderVars
             PROVE  OrderInv'
  OBVIOUS
<1> USE DEF OrderInv, TypeOK, Phases, OneMoreAtMost
<1>1. CASE LoadOrder
  <2>1. target' \in Nat /\ completed' = 0 /\ open' = TRUE /\ phase' = "rest"
    BY <1>1 DEF LoadOrder
  <2>2. \A t \in Nat : 0 \in Nat /\ 0 <= t /\ 0 <= t + 1
    OBVIOUS
  <2>3. TypeOK' /\ completed' <= target' /\ OneMoreAtMost'
    <3>1. completed' <= target' /\ completed' <= target' + 1
      BY <2>1, <2>2
    <3>2. TypeOK'
      BY <2>1
    <3>3. QED
      BY <3>1, <3>2
  <2>4. QED
    BY <2>3
<1>2. CASE CancelOrder
  BY <1>2 DEF CancelOrder
<1>3. CASE LeaveCycle
  BY <1>3 DEF LeaveCycle
<1>4. CASE BeginCycle
  BY <1>4 DEF BeginCycle
<1>5. CASE CompleteCycle
  <2>1. /\ completed \in Nat /\ target \in Nat /\ completed <= target
        /\ completed' = completed + 1 /\ target' = target
        /\ phase' \in {"cycle", "rest"} /\ open' \in BOOLEAN
        /\ open' \/ phase' = "cycle" => completed' < target
    BY <1>5 DEF CompleteCycle
  <2>2. QED
    BY <2>1
<1>6. CASE Restore(phase, completed)
  BY <1>6 DEF Restore
<1>7. CASE Forget
  <2>1. target' = 0 /\ completed' = 0 /\ open' = FALSE /\ phase' = "none"
    BY <1>7 DEF Forget, NoOrder
  <2>2. OneMoreAtMost'
    BY <2>1
  <2>3. QED
    BY <2>1, <2>2
<1>8. CASE UNCHANGED orderVars
  BY <1>8 DEF orderVars
<1>9. QED
  BY <1>1, <1>2, <1>3, <1>4, <1>5, <1>6, <1>7, <1>8 DEF Next

(* Every cell that keeps the promise of CellOrder makes at most one part more than an   *)
(* order asked for, whatever it restarts from and however often.                        *)
THEOREM OneMoreTheorem == Spec => []OneMoreAtMost
<1>1. Init => OrderInv
  <2> USE DEF OrderInv, TypeOK, Phases, OneMoreAtMost
  <2>1. CASE NoOrder
    <3>1. OneMoreAtMost
      BY <2>1 DEF NoOrder
    <3>2. TypeOK
      BY <2>1 DEF NoOrder
    <3>3. QED
      BY <2>1, <3>1, <3>2 DEF NoOrder
  <2>2. ASSUME phase \in {"busy", "cycle"}, open = TRUE, target \in Nat, completed \in 0..target
        PROVE  OrderInv
    BY <2>2
  <2>3. QED
    BY <2>1, <2>2 DEF Init
<1>2. OrderInv => OneMoreAtMost
  BY DEF OrderInv
<1>3. QED
  BY <1>1, <1>2, OrderInvStep, PTL DEF Spec

=============================================================================
