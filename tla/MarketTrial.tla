----------------------------- MODULE MarketTrial -----------------------------
(***************************************************************************)
(* The trial: what a user would pay for a product and whether the activity *)
(* is open to him.  The home page asks for it (QueryGroupBuyMarketConfig)  *)
(* and every lock does (LockMarketPayOrder), which is then refused unless  *)
(* the activity is visible and enabled for the user.                       *)
(*                                                                         *)
(* A trial reads two switches of the dynamic configuration, takes one of   *)
(* the slots of a semaphore, and loads the activity with its discount and  *)
(* the product in two goroutines of an errgroup, statement by statement.   *)
(* It then asks at most twice whether the user is in the crowd, once for   *)
(* the price and once for the access.  Nothing holds the rows, the crowd   *)
(* or the switches still meanwhile.                                        *)
(*                                                                         *)
(* The discount and the activity name a tag each.  What IsTagCrowdRange    *)
(* answers is taken from module CrowdTag: after a batch has completed, yes *)
(* to who shares a bit with a user of the batch and no to everybody else   *)
(* (CompletedBatchIsTheCrowd), before it may be anything.                  *)
(***************************************************************************)
EXTENDS Discount, FiniteSets

CONSTANTS
  Users,     \* user_id
  Bucket,    \* the hash of each user modulo 100
  DiscountCrowd,  \* who shares a bit with a user of the discount's tag
  ActivityCrowd,  \* and with one of the activity's tag
  Procs,     \* request slots
  Catalogs,  \* what the rows of the activity and the product may say
  Cuts,      \* settings of cutRange
  Nil,       \* no row
  Slots,     \* weight of the semaphore (4 in the code)
  MaxEdits   \* bound: changes of the catalog and the switches

\* linked: the row of sc_sku_activity; on: status = 1 of the activity; tagged:
\* its tag_id is not empty; discount and price may have no row.
DiscountRow == [type: {"base", "tag"}, plan: STRING, expr: Seq(Int \cup {Bad})]
IsCatalog(c) ==
  /\ DOMAIN c = {"linked", "on", "tagged", "scope", "discount", "price"}
  /\ {c.linked, c.on, c.tagged} \subseteq BOOLEAN
  /\ c.scope \in Seq(STRING)
  /\ c.discount = Nil \/ c.discount \in DiscountRow
  /\ c.price = Nil \/ c.price \in Nat

ASSUME CatalogsAssumption == \A c \in Catalogs : IsCatalog(c)
ASSUME CutsAssumption     == \A c \in Cuts : c \in Seq(-1..9)
ASSUME BucketAssumption   == Bucket \in [Users -> 0..99]
ASSUME CrowdAssumption    == DiscountCrowd \cup ActivityCrowd \subseteq Users
ASSUME SlotsAssumption    == Slots \in Nat \ {0} /\ MaxEdits \in Nat
ASSUME NilAssumption      ==
  Nil \notin {"link", "activity", "discount", "sku", "index", "lock", "ok", "E0001",
              "E0002", "E0003", "E0004", "E0007", "UN_ERROR"}

VARIABLES
  catalog,    \* the rows as they are now
  downgrade,  \* downgradeSwitch = "1"
  cut,        \* cutRange
  settled,    \* has a batch of either tag completed?
  edits,      \* changes so far
  held,       \* slots of the semaphore that are taken
  req         \* each trial

vars == <<catalog, downgrade, cut, settled, edits, held, req>>
config == <<catalog, downgrade, cut, settled, edits>>

\* The two goroutines of a load: the statement each is at, Nil once it returned.
ActLoader == {"link", "activity", "discount", Nil}
SkuLoader == {"sku", Nil}

\* Who asks: the home page, which does not know the activity, or a lock, which
\* names it.
Kinds == {"index", "lock"}

Codes == {"ok", "E0001", "E0002", "E0003", "E0004", "E0007", "UN_ERROR"}

\* What a trial needs of the activity's row.
RowOf(c) == [tagged |-> c.tagged, scope |-> c.scope]

\* What a trial holds: rows of any catalogs, as they were when they were read.
\* quiet (ghost): the crowds were settled when the trial began, and no row has
\* changed since.
Trial ==
  [pc: {"idle", "switch", "acquire", "load", "price", "tag", "done"},
   user: Users \cup {Nil}, kind: Kinds \cup {Nil}, act: ActLoader, sku: SkuLoader,
   err: BOOLEAN,
   row: {Nil} \cup {RowOf(c) : c \in Catalogs},
   discount: {Nil} \cup {c.discount : c \in Catalogs},
   price: {Nil} \cup {c.price : c \in Catalogs}, pay: {Nil} \cup Int,
   visible: BOOLEAN, enable: BOOLEAN, code: Codes \cup {Nil}, quiet: BOOLEAN]

IdleTrial ==
  [pc |-> "idle", user |-> Nil, kind |-> Nil, act |-> Nil, sku |-> Nil, err |-> FALSE,
   row |-> Nil, discount |-> Nil, price |-> Nil, pay |-> Nil,
   visible |-> FALSE, enable |-> FALSE, code |-> Nil, quiet |-> FALSE]

Init ==
  /\ catalog \in Catalogs
  /\ downgrade = FALSE
  /\ cut \in Cuts
  /\ settled = FALSE
  /\ edits = 0
  /\ held = 0
  /\ req = [p \in Procs |-> IdleTrial]

Goto(p, pc) == req' = [req EXCEPT ![p].pc = pc]

\* An error: what was loaded goes with the request's context.
Answer(p, code) ==
  req' = [req EXCEPT ![p] =
            [@ EXCEPT !.pc = "done", !.code = code, !.err = FALSE,
                      !.row = Nil, !.discount = Nil, !.price = Nil, !.pay = Nil]]

-----------------------------------------------------------------------------
(* Root and Switch                                                         *)

\* A request with all its parameters; the downgrade switch is read.
Start(p, u, kind) ==
  /\ req[p].pc = "idle"
  /\ req' = [req EXCEPT ![p] =
       [IdleTrial EXCEPT !.user = u, !.kind = kind, !.quiet = settled,
                         !.pc   = IF downgrade THEN "done" ELSE "switch",
                         !.code = IF downgrade THEN "E0003" ELSE Nil]]
  /\ UNCHANGED <<config, held>>

SwitchNode(p) ==
  /\ req[p].pc = "switch"
  /\ IF IsCutRange(cut, Bucket[req[p].user]) THEN Goto(p, "acquire")
                                             ELSE Answer(p, "E0004")
  /\ UNCHANGED <<config, held>>

-----------------------------------------------------------------------------
(* Market: the load                                                        *)

\* loadActivity: without an activity it is looked up by source, channel and
\* product.
FirstQuery(kind) == IF kind = "index" THEN "link" ELSE "activity"

\* A slot is free: both goroutines start.
Acquire(p) ==
  /\ req[p].pc = "acquire"
  /\ held < Slots
  /\ held' = held + 1
  /\ req' = [req EXCEPT ![p].pc = "load", ![p].sku = "sku",
                        ![p].act = FirstQuery(req[p].kind)]
  /\ UNCHANGED config

\* The five seconds are over, or the client is gone, before there is a slot.
AcquireFails(p) ==
  /\ req[p].pc = "acquire"
  /\ Answer(p, "UN_ERROR")
  /\ UNCHANGED <<config, held>>

QueryLink(p) ==
  /\ req[p].act = "link"
  /\ req' = [req EXCEPT ![p].act = IF catalog.linked THEN "activity" ELSE Nil]
  /\ UNCHANGED <<config, held>>

\* WHERE activity_id = ? AND status = 1
QueryActivity(p) ==
  /\ req[p].act = "activity"
  /\ req' = [req EXCEPT
       ![p].act = IF catalog.on THEN "discount" ELSE Nil,
       ![p].row = IF catalog.on THEN RowOf(catalog) ELSE Nil]
  /\ UNCHANGED <<config, held>>

QueryDiscount(p) ==
  /\ req[p].act = "discount"
  /\ req' = [req EXCEPT ![p].act = Nil, ![p].discount = catalog.discount]
  /\ UNCHANGED <<config, held>>

QuerySku(p) ==
  /\ req[p].sku = "sku"
  /\ req' = [req EXCEPT ![p].sku = Nil, ![p].price = catalog.price]
  /\ UNCHANGED <<config, held>>

\* A statement fails: MySQL, the deadline, or the cancellation by the other
\* goroutine's error.
LoadFails(p) ==
  /\ \/ req[p].act # Nil /\ req' = [req EXCEPT ![p].act = Nil, ![p].err = TRUE]
     \/ req[p].sku # Nil /\ req' = [req EXCEPT ![p].sku = Nil, ![p].err = TRUE]
  /\ UNCHANGED <<config, held>>

\* Mutant: the load returns at the first error.
WaitedFirst(r) == r.err \/ {r.act, r.sku} = {Nil}

\* errgroup.Wait: both goroutines have returned.
Waited(r) == {r.act, r.sku} = {Nil}

\* What follows from a load: an error, a missing row, a plan without a strategy.
CodeOfLoad(r) ==
  IF r.err THEN "UN_ERROR"
  ELSE IF Nil \in {r.discount, r.price} THEN "E0002"
  ELSE IF r.discount.plan \notin Plans THEN "E0001"
  ELSE "ok"

\* Mutant: the slot of a failed load is not released.
ReleaseOnSuccess(p) ==
  held' = IF CodeOfLoad(req[p]) = "UN_ERROR" THEN held ELSE held - 1

\* Mutant: the slot is released by the deadline and by the return.
ReleaseTwice(p) == held' = IF CodeOfLoad(req[p]) = "UN_ERROR" THEN held - 2 ELSE held - 1

\* defer c.sem.Release(1)
Release(p) == held' = held - 1

\* multiThreadLoad returns and the market node goes on.  The repository never
\* returns an activity without its discount, so the error node that answers an
\* empty trial is not reached.
Wait(p) ==
  /\ req[p].pc = "load"
  /\ Waited(req[p])
  /\ Release(p)
  /\ LET code == CodeOfLoad(req[p])
     IN  IF code = "ok" THEN Goto(p, "price") ELSE Answer(p, code)
  /\ UNCHANGED config

-----------------------------------------------------------------------------
(* Market: the price; Tag; End                                             *)

\* IsTagCrowdRange on the tag with these users: see module CrowdTag.
CrowdAnswers(u, crowd) == IF settled THEN {u \in crowd} ELSE BOOLEAN

\* FilterAndCalculate: outside the crowd of a tag discount the price stays.
Calculate(p) ==
  /\ req[p].pc = "price"
  /\ LET d == req[p].discount
     IN  \E within \in IF d.type = "tag" THEN CrowdAnswers(req[p].user, DiscountCrowd)
                                         ELSE {TRUE} :
           req' = [req EXCEPT ![p].pc = "tag",
                     ![p].pay = IF within THEN DoCalculate(d.plan, req[p].price, d.expr)
                                          ELSE req[p].price]
  /\ UNCHANGED <<config, held>>

\* Mutant: the activity is open to whoever sees it.
AccessSwapped(row, within) ==
  [visible |-> ~ row.tagged \/ IsVisible(row.scope) \/ within,
   enable  |-> ~ row.tagged \/ IsVisible(row.scope) \/ within]

\* An activity without a tag is open; otherwise each restriction of its scope
\* is lifted for the crowd.
Access(row, within) ==
  [visible |-> ~ row.tagged \/ IsVisible(row.scope) \/ within,
   enable  |-> ~ row.tagged \/ IsEnable(row.scope) \/ within]

\* The code a caller makes of the access: a lock needs both.
CodeOfAccess(kind, access) ==
  IF kind = "lock" /\ ~ (access.visible /\ access.enable) THEN "E0007" ELSE "ok"

TagNode(p) ==
  /\ req[p].pc = "tag"
  /\ \E within \in IF req[p].row.tagged THEN CrowdAnswers(req[p].user, ActivityCrowd)
                                         ELSE {TRUE} :
       LET access == Access(req[p].row, within)
       IN  req' = [req EXCEPT ![p].pc = "done",
                     ![p].visible = access.visible, ![p].enable = access.enable,
                     ![p].code = CodeOfAccess(req[p].kind, access),
                     ![p].row = Nil, ![p].discount = Nil, ![p].price = Nil]
  /\ UNCHANGED <<config, held>>

\* A question about the crowd fails.
QuestionFails(p) ==
  /\ \/ req[p].pc = "price" /\ req[p].discount.type = "tag"
     \/ req[p].pc = "tag" /\ req[p].row.tagged
  /\ Answer(p, "UN_ERROR")
  /\ UNCHANGED <<config, held>>

\* The answer is sent; the slot serves the next request.
Return(p) ==
  /\ req[p].pc = "done"
  /\ req' = [req EXCEPT ![p] = IdleTrial]
  /\ UNCHANGED <<config, held>>

-----------------------------------------------------------------------------
(* The environment                                                         *)

Edit == edits < MaxEdits /\ edits' = edits + 1

\* The rows of two catalogs that differ.
Changed(c, d) ==
  {row \in {{"linked"}, {"on", "tagged", "scope"}, {"discount"}, {"price"}} :
     \E f \in row : c[f] # d[f]}

\* Somebody changes one row.
EditCatalog(c) ==
  /\ Edit
  /\ Cardinality(Changed(c, catalog)) = 1
  /\ catalog' = c
  /\ req' = [p \in Procs |-> [req[p] EXCEPT !.quiet = FALSE]]
  /\ UNCHANGED <<downgrade, cut, settled, held>>

\* DCC changes a switch.
SetDowngrade ==
  /\ Edit
  /\ downgrade' = ~ downgrade
  /\ UNCHANGED <<catalog, cut, settled, held, req>>

SetCutRange(c) ==
  /\ Edit
  /\ c # cut
  /\ cut' = c
  /\ UNCHANGED <<catalog, downgrade, settled, held, req>>

\* A batch run of each tag has completed.
Settle ==
  /\ ~ settled
  /\ settled' = TRUE
  /\ UNCHANGED <<catalog, downgrade, cut, edits, held, req>>

Load(p) ==
  \/ QueryLink(p)
  \/ QueryActivity(p)
  \/ QueryDiscount(p)
  \/ QuerySku(p)
  \/ LoadFails(p)

Next ==
  \/ \E p \in Procs :
       \/ \E u \in Users, kind \in Kinds : Start(p, u, kind)
       \/ SwitchNode(p)
       \/ Acquire(p)
       \/ AcquireFails(p)
       \/ Load(p)
       \/ Wait(p)
       \/ Calculate(p)
       \/ TagNode(p)
       \/ QuestionFails(p)
       \/ Return(p)
  \/ \E c \in Catalogs : EditCatalog(c)
  \/ \E c \in Cuts : SetCutRange(c)
  \/ SetDowngrade
  \/ Settle

Spec == Init /\ [][Next]_vars

\* Every statement returns within the load's deadline of five seconds, and a
\* trial that is not waiting for a slot goes on.
FairSpec ==
  Spec /\ \A p \in Procs : WF_vars(Load(p)) /\ WF_vars(Wait(p))

-----------------------------------------------------------------------------
(* Properties                                                              *)

\* Every trial has the shape the code gives it, and a trial is answered with a
\* code of the documented set.
TypeOK ==
  /\ catalog \in Catalogs /\ cut \in Cuts
  /\ {downgrade, settled} \subseteq BOOLEAN
  /\ edits \in 0..MaxEdits
  /\ held \in 0..Slots
  /\ req \in [Procs -> Trial]
  /\ \A p \in Procs : req[p].pc = "done" <=> req[p].code \in Codes

\* The semaphore bounds the goroutines: however loads fail or are cancelled,
\* at most two run for each slot, because a slot is released only when both of
\* its goroutines have returned.
LoadersBounded ==
  Cardinality({p \in Procs : req[p].act # Nil})
    + Cardinality({p \in Procs : req[p].sku # Nil}) <= 2 * Slots

\* The answer to a user of a catalog that nobody changes, with settled crowds.
\* A "1" in the scope hides the activity from users outside the crowd, a "2"
\* keeps them out.
Quote(c, u, kind) ==
  LET found   == (kind = "index" => c.linked) /\ c.on /\ Nil \notin {c.discount, c.price}
      free    == ~ c.tagged \/ u \in ActivityCrowd
      visible == free \/ "1" \notin Range(c.scope)
      enable  == free \/ "2" \notin Range(c.scope)
  IN  IF ~ found THEN "E0002"
      ELSE IF c.discount.plan \notin Plans THEN "E0001"
      ELSE [code   |-> IF kind = "lock" /\ ~ (visible /\ enable) THEN "E0007" ELSE "ok",
            access |-> [visible |-> visible, enable |-> enable],
            pay    |-> IF c.discount.type = "base" \/ u \in DiscountCrowd
                       THEN DoCalculate(c.discount.plan, c.price, c.discount.expr)
                       ELSE c.price]

\* The answered trial r says what belongs to catalog c.
AnswersQuote(r, c) ==
  Quote(c, r.user, r.kind) =
    IF r.code \in {"E0001", "E0002"} THEN r.code
    ELSE [code |-> r.code, pay |-> r.pay,
          access |-> [visible |-> r.visible, enable |-> r.enable]]

\* The loads that run side by side, the two questions about the crowd and the
\* errors of other trials do not change the answer: a trial that is answered,
\* and under which no row changed and the crowds were settled, has the price, the
\* access and the code that belong to the catalog and the user.
QuietTrialIsExact ==
  \A p \in Procs :
    LET r == req[p]
    IN  r.pc = "done" /\ r.quiet /\ r.code \notin {"UN_ERROR", "E0003", "E0004"} =>
          AnswersQuote(r, catalog)

\* Whatever rows a trial has mixed, the price it computes is one cent at least
\* and not above the product's price, except for the fixed price of plan N.
\* (Products cost something, reductions are not negative, ratios at most 1.)
PriceBounded ==
  \A p \in Procs :
    LET r == req[p]
    IN  r.pc = "tag" /\ r.discount.plan # "N" =>
          1 <= r.pay /\ r.pay <= r.price

\* Rows as the strategies expect them: products cost something, no part of an
\* expression is negative, a ratio is at most 1.
Reasonable(c) ==
  /\ c.price # Nil => c.price >= 1
  /\ c.discount # Nil =>
       /\ \A n \in DOMAIN c.discount.expr : PartValue(c.discount.expr[n]) >= 0
       /\ c.discount.plan = "ZK" => ExprValue(c.discount.expr) <= 100

\* The scopes the column is meant for: 1 restricts who sees the activity, 2 who
\* takes part.
WellScoped(c) == c.scope \in {<<>>, <<"1">>, <<"2">>, <<"1", "2">>}

\* The semaphore never stays exhausted: slots come back from loads that
\* succeed, fail, or run into their deadline.
SlotsComeBack == held = Slots ~> held < Slots

-----------------------------------------------------------------------------
(* What keeps these properties true from step to step                      *)

Loading == {p \in Procs : req[p].pc = "load"}

\* A slot is taken for each load, and goroutines run only inside one.
SlotsCounted ==
  /\ IsFiniteSet(Loading)
  /\ held = Cardinality(Loading)
  /\ \A p \in Procs : req[p].act # Nil \/ req[p].sku # Nil => req[p].pc = "load"

\* Past the load there is a product and a discount with a strategy; before it
\* there is nothing.
LoadedBeforePriced ==
  \A p \in Procs :
    /\ req[p].pc \in {"price", "tag"} =>
         /\ Nil \notin {req[p].discount, req[p].price}
         /\ req[p].discount.plan \in Plans
    /\ req[p].pc \in {"switch", "acquire"} => req[p].discount = Nil /\ ~ req[p].err
    /\ req[p].pc \in {"switch", "acquire", "load", "price", "tag"} =>
         req[p].user \in Users /\ req[p].kind \in Kinds

\* The activity that a request of this kind finds in catalog c.
Finds(c, kind) == (kind = "index" => c.linked) /\ c.on

\* How far the load of r has read catalog c, when no row of it has changed: the
\* activity's goroutine statement by statement, and the product's.
ReadSoFar(r, c) ==
  /\ r.act = "link" => r.kind = "index" /\ r.discount = Nil
  /\ r.act = "activity" => (r.kind = "index" => c.linked) /\ r.discount = Nil
  /\ r.act = "discount" => Finds(c, r.kind) /\ r.row = RowOf(c) /\ r.discount = Nil
  /\ r.act = Nil /\ ~ r.err =>
       IF Finds(c, r.kind) THEN r.row = RowOf(c) /\ r.discount = c.discount
                           ELSE r.discount = Nil
  /\ r.sku = Nil /\ ~ r.err => r.price = c.price

\* The load of r has read all of catalog c.
ReadAll(r, c) ==
  /\ Finds(c, r.kind)
  /\ r.row = RowOf(c) /\ r.discount = c.discount /\ r.price = c.price

\* What FilterAndCalculate makes of catalog c for user u.
PayOf(c, u) ==
  IF c.discount.type = "base" \/ u \in DiscountCrowd
    THEN DoCalculate(c.discount.plan, c.price, c.discount.expr)
    ELSE c.price

QuietReads ==
  \A p \in Procs : req[p].quiet =>
    /\ settled
    /\ req[p].pc = "load" => ReadSoFar(req[p], catalog)
    /\ req[p].pc \in {"price", "tag"} => ReadAll(req[p], catalog)
    /\ req[p].pc = "tag" => req[p].pay = PayOf(catalog, req[p].user)

TrialInv ==
  /\ TypeOK
  /\ SlotsCounted
  /\ LoadedBeforePriced
  /\ QuietReads
  /\ (\A c \in Catalogs : Reasonable(c)) => PriceBounded
  /\ (\A c \in Catalogs : WellScoped(c)) => QuietTrialIsExact
=============================================================================
