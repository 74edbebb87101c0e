----------------------------- MODULE TradeLedger -----------------------------
(***************************************************************************)
(* GroupBuyTrade implements TeamLedger.  The mapping reads the ledger off  *)
(* the tables: a seat is a row that is not closed, an announcement is a    *)
(* refund notification in notify_task (not the closed row), and the number *)
(* of taken seats is the lock_count column.                                *)
(***************************************************************************)
EXTENDS GroupBuyTrade

\* The orders whose refund notification names team t.
Announced(t) ==
  UNION {tasks[n].orders : n \in {m \in DOMAIN tasks :
                                    /\ tasks[m].category \in RefundCategory
                                    /\ tasks[m].team = t}}

Ledger == INSTANCE TeamLedger WITH
  Orders <- 1..MaxOrders,
  lock   <- [t \in Teams |-> team[t].lock],
  live   <- [t \in Teams |-> LiveOrders(t)],
  paid   <- {i \in DOMAIN orders : orders[i].status = "complete"},
  closed <- [t \in Teams |-> Announced(t)],
  formed <- {t \in Teams : team[t].status \in Formed}

\* The requests that read first and write later, the unconditional counters
\* and the outbox together keep the promise of the ledger: an order takes one
\* free seat, is paid once, and gives the seat back once with its notification
\* in the same transaction, whatever else commits between a read and a write.
ImplementsLedger == Ledger!Spec
=============================================================================
