--------------------------- MODULE TransferEscrow ---------------------------
(***************************************************************************)
(* What a transfer promises, with no sagas, locks, retries or recoverers:  *)
(* the amount leaves the sender's balance and is held in escrow, and from  *)
(* there it goes either to the receiver or back to the sender, once.       *)
(***************************************************************************)
EXTENDS Integers

CONSTANTS Wallets, Transfers, Amounts

VARIABLES
  terms,    \* sender, receiver and amount of every transfer
  balance,  \* the balance of every wallet
  phase     \* of a transfer: open, held, paid, refunded or void

vars == <<terms, balance, phase>>

Init ==
  /\ balance \in [Wallets -> Nat]
  /\ phase = [t \in Transfers |-> "open"]

(* The amount moves into escrow; the sender must have it. *)
Hold(t) ==
  /\ phase[t] = "open"
  /\ balance[terms[t].from] >= terms[t].amount
  /\ balance' = [balance EXCEPT ![terms[t].from] = @ - terms[t].amount]
  /\ phase' = [phase EXCEPT ![t] = "held"]

(* The amount held goes to a wallet and the transfer ends. *)
PayOut(t, wallet, end) ==
  /\ phase[t] = "held"
  /\ balance' = [balance EXCEPT ![wallet] = @ + terms[t].amount]
  /\ phase' = [phase EXCEPT ![t] = end]

(* The transfer is given up before anything was held. *)
Void(t) ==
  /\ phase[t] = "open"
  /\ phase' = [phase EXCEPT ![t] = "void"]
  /\ UNCHANGED balance

(* A plain deposit or withdrawal touches no transfer. *)
Deposit(w, amount) ==
  /\ balance' = [balance EXCEPT ![w] = @ + amount]
  /\ UNCHANGED phase

Withdraw(w, amount) ==
  /\ balance[w] >= amount
  /\ balance' = [balance EXCEPT ![w] = @ - amount]
  /\ UNCHANGED phase

Next ==
  /\ \/ \E t \in Transfers :
          \/ Hold(t)
          \/ PayOut(t, terms[t].to, "paid")
          \/ PayOut(t, terms[t].from, "refunded")
          \/ Void(t)
     \/ \E w \in Wallets, a \in Amounts : Deposit(w, a) \/ Withdraw(w, a)
  /\ UNCHANGED terms

Spec == Init /\ [][Next]_vars
=============================================================================
