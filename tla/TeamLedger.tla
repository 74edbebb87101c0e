----------------------------- MODULE TeamLedger -----------------------------
(***************************************************************************)
(* What the trade context promises of its teams, without the requests,     *)
(* rows and stores that keep the promise: a ledger of seats.  An order is  *)
(* seated once, in a team with a free seat, may be paid once, and gives    *)
(* its seat back once; giving it back is announced in the same step.  A    *)
(* team forms once, when an order is paid.  Every step concerns one order. *)
(*                                                                         *)
(* GroupBuyTrade implements the whole of it (module TradeLedger), with     *)
(* stale reads and racing transactions.  TeamStock, which sees MySQL only  *)
(* as a counter and a stage per order, is shown to take the same steps, so *)
(* that what it says of Redis is about the tables GroupBuyTrade has.       *)
(***************************************************************************)
EXTENDS Integers, FiniteSets

CONSTANTS
  Teams,   \* the teams
  Orders,  \* the orders there may be
  Target   \* seats of a team

VARIABLES
  lock,    \* the published number of taken seats of each team
  live,    \* the orders seated in each team
  paid,    \* the seated orders that are paid
  closed,  \* the orders of each team whose refund has been announced
  formed   \* the teams that have formed

vars == <<lock, live, paid, closed, formed>>

Init ==
  /\ lock   = [t \in Teams |-> 0]
  /\ live   = [t \in Teams |-> {}]
  /\ paid   = {}
  /\ closed = [t \in Teams |-> {}]
  /\ formed = {}

\* A new order takes a seat that is free.
Seat(t, o) ==
  /\ \A s \in Teams : o \notin live[s] \cup closed[s]
  /\ Cardinality(live[t]) < Target
  /\ lock' = [lock EXCEPT ![t] = @ + 1]
  /\ live' = [live EXCEPT ![t] = @ \cup {o}]
  /\ UNCHANGED <<paid, closed, formed>>

\* A seated order is paid; a team may form with it.
Pay(t, o) ==
  /\ o \in live[t] \ paid
  /\ paid' = paid \cup {o}
  /\ \E S \in SUBSET (Teams \ formed) :
       Cardinality(S) <= 1 /\ formed' = formed \cup S
  /\ UNCHANGED <<lock, live, closed>>

\* A seated order gives its seat back, and its refund is announced.
GiveBack(t, o) ==
  /\ o \in live[t]
  /\ lock'   = [lock EXCEPT ![t] = @ - 1]
  /\ live'   = [live EXCEPT ![t] = @ \ {o}]
  /\ paid'   = paid \ {o}
  /\ closed' = [closed EXCEPT ![t] = @ \cup {o}]
  /\ UNCHANGED formed

Next ==
  \E t \in Teams, o \in Orders : Seat(t, o) \/ Pay(t, o) \/ GiveBack(t, o)

\* The first conjunct changes nothing in [][...]_vars; it spares TLC the search
\* for a ledger step when there is none.
Steps == [][vars' # vars /\ Next]_vars

Spec == Init /\ Steps
=============================================================================
