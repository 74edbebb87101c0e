-------------------------- MODULE MarketTrialProofs --------------------------
(***************************************************************************)
(* Proofs about Discount and MarketTrial, for any catalogs, any number of  *)
(* trials and any number of slots.                                         *)
(***************************************************************************)
EXTENDS MarketTrial, TLAPS, FiniteSetTheorems

-----------------------------------------------------------------------------
(* The strategies                                                          *)

\* A price after the floor is a cent or more, and no more than a price that the
\* reduced one does not exceed.
LEMMA MinPayBounds ==
  ASSUME NEW op \in Nat, op >= 1, NEW price \in Int, price <= op
  PROVE  MinPay(price) \in Int /\ 1 <= MinPay(price) /\ MinPay(price) <= op
BY DEF MinPay

\* What an expression's parts stand for.
LEMMA PartValueType ==
  ASSUME NEW expr \in Seq(Int \cup {Bad})
  PROVE  /\ \A n \in DOMAIN expr : PartValue(expr[n]) \in Int
         /\ ExprValue(expr) \in Int
<1>1. \A n \in DOMAIN expr : PartValue(expr[n]) \in Int
  BY DEF PartValue
<1>2. Len(expr) = 1 => 1 \in DOMAIN expr
  OBVIOUS
<1>. QED  BY <1>1, <1>2 DEF ExprValue

\* A ratio of at most 1, cut down to whole yuan, takes nobody above the price.
LEMMA RatioBound ==
  ASSUME NEW op \in Nat, NEW v \in 0..100
  PROVE  /\ ((op * v) \div 10000) * 100 \in Int
         /\ ((op * v) \div 10000) * 100 <= op
<1>1. PICK m \in Nat : m = op * v
  OBVIOUS
<1>2. m <= op * 100
  <2>1. op * (100 - v) \in Nat
    OBVIOUS
  <2>2. op * 100 = op * v + op * (100 - v)
    OBVIOUS
  <2>. QED  BY <1>1, <2>1, <2>2
<1>3. PICK q \in Nat : q = m \div 10000
  BY <1>1
<1>4. q * 10000 <= m
  BY <1>3
<1>5. q * 100 <= op
  BY <1>2, <1>4
<1>. QED  BY <1>1, <1>3, <1>5

\* Every strategy makes a price of a price.
LEMMA CalculateType ==
  ASSUME NEW op \in Nat, NEW plan \in Plans, NEW expr \in Seq(Int \cup {Bad})
  PROVE  DoCalculate(plan, op, expr) \in Int
<1>1. /\ \A n \in DOMAIN expr : PartValue(expr[n]) \in Int
      /\ ExprValue(expr) \in Int
  BY PartValueType
<1>2. \A x \in Int : MinPay(x) \in Int
  BY DEF MinPay
<1>3. ZJ(op, expr) \in Int
  BY <1>1, <1>2 DEF ZJ
<1>4. MJ(op, expr) \in Int
  <2>1. CASE Len(expr) < 2 \/ op < PartValue(expr[1])
    BY <2>1 DEF MJ
  <2>2. CASE ~ (Len(expr) < 2 \/ op < PartValue(expr[1]))
    <3>1. 2 \in DOMAIN expr
      BY <2>2
    <3>2. PICK x \in Int : x = op - PartValue(expr[2])
      BY <1>1, <3>1
    <3>3. MJ(op, expr) = MinPay(x)
      BY <2>2, <3>2 DEF MJ
    <3>. QED  BY <1>2, <3>3
  <2>. QED  BY <2>1, <2>2
<1>5. N(op, expr) \in Int
  BY <1>1 DEF N
<1>6. ZK(op, expr) \in Int
  <2>1. PICK v \in Int : v = ExprValue(expr)
    BY <1>1
  <2>2. ((op * v) \div 10000) * 100 \in Int
    OBVIOUS
  <2>. QED  BY <1>2, <2>1, <2>2 DEF ZK
<1>. QED  BY <1>3, <1>4, <1>5, <1>6 DEF DoCalculate, Plans

\* Reductions that are not negative and ratios of at most 1 leave the price
\* between one cent and itself, whatever the plan, the fixed price apart.
LEMMA CalculateBounds ==
  ASSUME NEW op \in Nat, op >= 1, NEW plan \in Plans \ {"N"},
         NEW expr \in Seq(Int \cup {Bad}),
         \A n \in DOMAIN expr : PartValue(expr[n]) >= 0,
         plan = "ZK" => ExprValue(expr) <= 100
  PROVE  1 <= DoCalculate(plan, op, expr) /\ DoCalculate(plan, op, expr) <= op
<1>1. /\ \A n \in DOMAIN expr : PartValue(expr[n]) \in Nat
  BY PartValueType
<1>2. ExprValue(expr) \in Nat
  <2>1. Len(expr) = 1 => 1 \in DOMAIN expr
    OBVIOUS
  <2>. QED  BY <1>1, <2>1 DEF ExprValue
<1>3. 1 <= ZJ(op, expr) /\ ZJ(op, expr) <= op
  <2>1. PICK x \in Int : x = op - ExprValue(expr)
    BY <1>2
  <2>2. x <= op
    BY <1>2, <2>1
  <2>. QED  BY <2>1, <2>2, MinPayBounds DEF ZJ
<1>4. 1 <= MJ(op, expr) /\ MJ(op, expr) <= op
  <2>1. CASE Len(expr) < 2 \/ op < PartValue(expr[1])
    BY <2>1 DEF MJ
  <2>2. CASE ~ (Len(expr) < 2 \/ op < PartValue(expr[1]))
    <3>1. 2 \in DOMAIN expr
      BY <2>2
    <3>2. PICK x \in Int : x = op - PartValue(expr[2])
      BY <1>1, <3>1
    <3>3. x <= op
      BY <1>1, <3>1, <3>2
    <3>4. MJ(op, expr) = MinPay(x)
      BY <2>2, <3>2 DEF MJ
    <3>. QED  BY <3>3, <3>4, MinPayBounds
  <2>. QED  BY <2>1, <2>2
<1>5. plan = "ZK" => 1 <= ZK(op, expr) /\ ZK(op, expr) <= op
  <2>. SUFFICES ASSUME plan = "ZK" PROVE 1 <= ZK(op, expr) /\ ZK(op, expr) <= op
    OBVIOUS
  <2>1. PICK v \in 0..100 : v = ExprValue(expr)
    <3>1. PICK n \in Nat : n = ExprValue(expr)
      BY <1>2
    <3>2. n <= 100
      BY <3>1
    <3>3. n \in 0..100
      BY <3>2
    <3>. QED  BY <3>1, <3>3
  <2>2. PICK x \in Int : x = ((op * v) \div 10000) * 100 /\ x <= op
    BY RatioBound
  <2>3. ZK(op, expr) = MinPay(x)
    BY <2>1, <2>2 DEF ZK
  <2>. QED  BY <2>2, <2>3, MinPayBounds
<1>. QED  BY <1>3, <1>4, <1>5 DEF DoCalculate, Plans

-----------------------------------------------------------------------------
(* One trial                                                               *)

AllReasonable == \A c \in Catalogs : Reasonable(c)
AllWellScoped == \A c \in Catalogs : WellScoped(c)

\* What TrialInv says of a trial in state r: its shape and its goroutines, ...
Sound(r) ==
  /\ r \in Trial
  /\ r.pc = "done" <=> r.code \in Codes
  /\ r.act # Nil \/ r.sku # Nil => r.pc = "load"
  /\ r.pc \in {"price", "tag"} =>
       Nil \notin {r.discount, r.price} /\ r.discount.plan \in Plans
  /\ r.pc \in {"switch", "acquire"} => r.discount = Nil /\ ~ r.err
  /\ r.pc \in {"switch", "acquire", "load", "price", "tag"} =>
       r.user \in Users /\ r.kind \in Kinds

\* ... its price, ...
Priced(r) ==
  AllReasonable /\ r.pc = "tag" /\ r.discount.plan # "N"
    => 1 <= r.pay /\ r.pay <= r.price

\* ... and what it has read and answered, if nobody changed catalog c since it
\* began.
Quiet(r, c, s) ==
  r.quiet =>
    /\ s
    /\ r.pc = "load" => ReadSoFar(r, c)
    /\ r.pc \in {"price", "tag"} => ReadAll(r, c)
    /\ r.pc = "tag" => r.pay = PayOf(c, r.user)
    /\ AllWellScoped /\ r.pc = "done" /\ r.code \notin {"UN_ERROR", "E0003", "E0004"}
         => AnswersQuote(r, c)

TrialOK(r, c, s) == Sound(r) /\ Priced(r) /\ Quiet(r, c, s)

\* The parts of TrialInv that speak of trials, one trial at a time.
LEMMA TrialSplit ==
  ASSUME req \in [Procs -> Trial],
         \A p \in Procs : req[p].pc = "done" <=> req[p].code \in Codes
  PROVE  (/\ \A p \in Procs : req[p].act # Nil \/ req[p].sku # Nil => req[p].pc = "load"
          /\ LoadedBeforePriced /\ QuietReads
          /\ AllReasonable => PriceBounded
          /\ AllWellScoped => QuietTrialIsExact)
         <=> \A p \in Procs : TrialOK(req[p], catalog, settled)
<1>1. (/\ \A p \in Procs : req[p].act # Nil \/ req[p].sku # Nil => req[p].pc = "load"
       /\ LoadedBeforePriced)
      <=> \A p \in Procs : Sound(req[p])
  BY DEF LoadedBeforePriced, Sound
<1>2. (AllReasonable => PriceBounded) <=> \A p \in Procs : Priced(req[p])
  BY DEF PriceBounded, Priced
<1>3. QuietReads /\ (AllWellScoped => QuietTrialIsExact)
      <=> \A p \in Procs : Quiet(req[p], catalog, settled)
  BY DEF QuietReads, QuietTrialIsExact, Quiet
<1>. QED  BY <1>1, <1>2, <1>3 DEF TrialOK

\* The invariant, with its trials one by one.
LEMMA TrialParts ==
  TrialInv <=>
    /\ catalog \in Catalogs /\ cut \in Cuts
    /\ {downgrade, settled} \subseteq BOOLEAN
    /\ edits \in 0..MaxEdits
    /\ held \in 0..Slots
    /\ req \in [Procs -> Trial]
    /\ IsFiniteSet(Loading) /\ held = Cardinality(Loading)
    /\ \A p \in Procs : TrialOK(req[p], catalog, settled)
<1>1. TrialInv => \A p \in Procs : TrialOK(req[p], catalog, settled)
  BY TrialSplit DEF TrialInv, TypeOK, SlotsCounted, AllReasonable, AllWellScoped
<1>2. (\A p \in Procs : TrialOK(req[p], catalog, settled))
        => \A p \in Procs : req[p].pc = "done" <=> req[p].code \in Codes
  BY DEF TrialOK, Sound
<1>3. req \in [Procs -> Trial] /\ (\A p \in Procs : TrialOK(req[p], catalog, settled))
      => /\ \A p \in Procs : req[p].act # Nil \/ req[p].sku # Nil => req[p].pc = "load"
         /\ LoadedBeforePriced /\ QuietReads
         /\ AllReasonable => PriceBounded
         /\ AllWellScoped => QuietTrialIsExact
  BY <1>2, TrialSplit
<1>. QED
  BY <1>1, <1>2, <1>3 DEF TrialInv, TypeOK, SlotsCounted, AllReasonable, AllWellScoped

\* The same for the state a step leads to.
LEMMA TrialPartsNext ==
  ASSUME catalog' \in Catalogs, cut' \in Cuts,
         {downgrade', settled'} \subseteq BOOLEAN,
         edits' \in 0..MaxEdits, held' \in 0..Slots,
         req' \in [Procs -> Trial],
         IsFiniteSet(Loading'), held' = Cardinality(Loading'),
         \A p \in Procs : TrialOK(req'[p], catalog', settled')
  PROVE  TrialInv'
<1>1. \A p \in Procs : Sound(req'[p]) /\ Priced(req'[p]) /\ Quiet(req'[p], catalog', settled')
  BY DEF TrialOK
<1>2. TypeOK' /\ SlotsCounted' /\ LoadedBeforePriced'
  BY <1>1 DEF TypeOK, SlotsCounted, LoadedBeforePriced, Sound
<1>3. AllReasonable => PriceBounded'
  BY <1>1 DEF PriceBounded, Priced
<1>4. QuietReads' /\ (AllWellScoped => QuietTrialIsExact')
  BY <1>1 DEF QuietReads, QuietTrialIsExact, Quiet
<1>. QED  BY <1>2, <1>3, <1>4 DEF TrialInv, AllReasonable, AllWellScoped

\* A step of one trial, which takes a slot when it begins to load, gives it back
\* when it stops loading, and leaves the trial as TrialInv wants it.
LEMMA TrialMoves ==
  ASSUME TrialInv, NEW p \in Procs, NEW x, req' = [req EXCEPT ![p] = x],
         TrialOK(x, catalog, settled), UNCHANGED config,
         \/ held' = held /\ (x.pc = "load" <=> req[p].pc = "load")
         \/ held' = held + 1 /\ held < Slots /\ x.pc = "load" /\ req[p].pc # "load"
         \/ held' = held - 1 /\ x.pc # "load" /\ req[p].pc = "load"
  PROVE  TrialInv'
<1>1. /\ catalog \in Catalogs /\ cut \in Cuts /\ {downgrade, settled} \subseteq BOOLEAN
      /\ edits \in 0..MaxEdits /\ held \in 0..Slots /\ req \in [Procs -> Trial]
      /\ IsFiniteSet(Loading) /\ held = Cardinality(Loading)
      /\ \A q \in Procs : TrialOK(req[q], catalog, settled)
  BY TrialParts
<1>2. UNCHANGED <<catalog, downgrade, cut, settled, edits>>
  BY DEF config
<1>3. x \in Trial
  BY DEF TrialOK, Sound
<1>4. /\ req' \in [Procs -> Trial] /\ req'[p] = x
      /\ \A q \in Procs \ {p} : req'[q] = req[q]
  BY <1>1, <1>3
<1>5. \A q \in Procs : TrialOK(req'[q], catalog', settled')
  BY <1>1, <1>2, <1>4
<1>6. IsFiniteSet(Loading') /\ held' = Cardinality(Loading') /\ held' \in 0..Slots
  <2>1. CASE held' = held /\ (x.pc = "load" <=> req[p].pc = "load")
    <3>1. Loading' = Loading
      BY <1>4, <2>1 DEF Loading
    <3>. QED  BY <1>1, <2>1, <3>1
  <2>2. CASE held' = held + 1 /\ held < Slots /\ x.pc = "load" /\ req[p].pc # "load"
    <3>1. Loading' = Loading \cup {p} /\ p \notin Loading
      BY <1>4, <2>2 DEF Loading
    <3>2. /\ IsFiniteSet(Loading \cup {p})
          /\ Cardinality(Loading \cup {p}) = Cardinality(Loading) + 1
      BY <1>1, <3>1, FS_AddElement
    <3>3. held + 1 \in 0..Slots
      BY <1>1, <2>2, SlotsAssumption
    <3>. QED  BY <1>1, <2>2, <3>1, <3>2, <3>3
  <2>3. CASE held' = held - 1 /\ x.pc # "load" /\ req[p].pc = "load"
    <3>1. Loading' = Loading \ {p} /\ p \in Loading
      BY <1>4, <2>3 DEF Loading
    <3>2. /\ IsFiniteSet(Loading \ {p})
          /\ Cardinality(Loading \ {p}) = Cardinality(Loading) - 1
      BY <1>1, <3>1, FS_RemoveElement
    <3>3. Cardinality(Loading) # 0
      BY <1>1, <3>1, FS_EmptySet
    <3>4. held - 1 \in 0..Slots
      BY <1>1, <3>3, SlotsAssumption
    <3>. QED  BY <1>1, <2>3, <3>1, <3>2, <3>4
  <2>. QED  BY <2>1, <2>2, <2>3
<1>. QED  BY <1>1, <1>2, <1>4, <1>5, <1>6, TrialPartsNext

\* An error clears what was loaded; it is the answer of an unchanged catalog
\* when it is about rows that are not there.
LEMMA AnswerOK ==
  ASSUME NEW r, NEW c, NEW s, TrialOK(r, c, s), r.act = Nil, r.sku = Nil,
         NEW code \in Codes \ {"ok", "E0007"},
         r.quiet /\ code \in {"E0001", "E0002"} => Quote(c, r.user, r.kind) = code
  PROVE  LET x == [r EXCEPT !.pc = "done", !.code = code, !.err = FALSE,
                            !.row = Nil, !.discount = Nil, !.price = Nil, !.pay = Nil]
         IN  TrialOK(x, c, s) /\ x.pc = "done"
<1>. DEFINE x == [r EXCEPT !.pc = "done", !.code = code, !.err = FALSE,
                           !.row = Nil, !.discount = Nil, !.price = Nil, !.pay = Nil]
<1>1. r \in Trial /\ (r.quiet => s)
  BY DEF TrialOK, Sound, Quiet
<1>2. /\ x \in Trial
      /\ x.pc = "done" /\ x.code = code /\ x.act = Nil /\ x.sku = Nil
      /\ x.user = r.user /\ x.kind = r.kind /\ x.quiet = r.quiet
  <2>. DEFINE r1 == [r EXCEPT !.pc = "done"]
              r2 == [r1 EXCEPT !.code = code]
              r3 == [r2 EXCEPT !.err = FALSE]
              r4 == [r3 EXCEPT !.row = Nil]
              r5 == [r4 EXCEPT !.discount = Nil]
              r6 == [r5 EXCEPT !.price = Nil]
              r7 == [r6 EXCEPT !.pay = Nil]
  <2>1. x = r7
    OBVIOUS
  <2>2. /\ r1 \in Trial /\ r1.pc = "done" /\ r1.act = Nil /\ r1.sku = Nil
        /\ r1.user = r.user /\ r1.kind = r.kind /\ r1.quiet = r.quiet
    BY <1>1 DEF Trial
  <2>. HIDE DEF r1
  <2>3. /\ r2 \in Trial /\ r2.pc = "done" /\ r2.act = Nil /\ r2.sku = Nil /\ r2.code = code
        /\ r2.user = r.user /\ r2.kind = r.kind /\ r2.quiet = r.quiet
    BY <2>2 DEF Trial
  <2>. HIDE DEF r2
  <2>4. /\ r4 \in Trial /\ r4.pc = "done" /\ r4.act = Nil /\ r4.sku = Nil /\ r4.code = code
        /\ r4.user = r.user /\ r4.kind = r.kind /\ r4.quiet = r.quiet
    BY <2>3 DEF Trial
  <2>. HIDE DEF r4
  <2>5. /\ r6 \in Trial /\ r6.pc = "done" /\ r6.act = Nil /\ r6.sku = Nil /\ r6.code = code
        /\ r6.user = r.user /\ r6.kind = r.kind /\ r6.quiet = r.quiet
    BY <2>4 DEF Trial
  <2>. HIDE DEF r6
  <2>6. /\ r7 \in Trial /\ r7.pc = "done" /\ r7.act = Nil /\ r7.sku = Nil /\ r7.code = code
        /\ r7.user = r.user /\ r7.kind = r.kind /\ r7.quiet = r.quiet
    BY <2>5 DEF Trial
  <2>. QED  BY <2>1, <2>6 DEF x
<1>. HIDE DEF x
<1>3. Sound(x)
  BY <1>2 DEF Sound
<1>4. Priced(x)
  BY <1>2 DEF Priced
<1>5. Quiet(x, c, s)
  <2>. SUFFICES ASSUME r.quiet, code \notin {"UN_ERROR", "E0003", "E0004"}
                PROVE  AnswersQuote(x, c)
    BY <1>1, <1>2 DEF Quiet
  <2>1. code \in {"E0001", "E0002"}
    BY DEF Codes
  <2>. QED  BY <1>2, <2>1 DEF AnswersQuote
<1>6. TrialOK(x, c, s) /\ x.pc = "done"
  BY <1>2, <1>3, <1>4, <1>5 DEF TrialOK
<1>. QED  BY <1>6 DEF x

\* A statement of a load: what matters is what has been read.
LEMMA LoadingOK ==
  ASSUME NEW r, NEW x, NEW c, NEW s, TrialOK(r, c, s), r.pc = "load",
         x \in Trial, x.pc = "load", x.code = r.code, x.user = r.user,
         x.kind = r.kind, x.quiet = r.quiet,
         r.quiet => ReadSoFar(x, c)
  PROVE  TrialOK(x, c, s)
<1>1. /\ r.code \notin Codes /\ (r.quiet => s)
      /\ r.user \in Users /\ r.kind \in Kinds
  BY DEF TrialOK, Sound, Quiet
<1>2. Sound(x)
  BY <1>1 DEF Sound
<1>. QED  BY <1>1, <1>2 DEF TrialOK, Priced, Quiet

-----------------------------------------------------------------------------
(* The actions                                                             *)

\* A request comes in.
LEMMA StartPreserves ==
  ASSUME TrialInv, NEW p \in Procs, NEW u \in Users, NEW kind \in Kinds,
         Start(p, u, kind)
  PROVE  TrialInv'
<1>. DEFINE pc == IF downgrade THEN "done" ELSE "switch"
            code == IF downgrade THEN "E0003" ELSE Nil
            x == [IdleTrial EXCEPT !.user = u, !.kind = kind, !.quiet = settled,
                                   !.pc = pc, !.code = code]
<1>1. /\ req[p].pc = "idle" /\ req' = [req EXCEPT ![p] = x]
      /\ UNCHANGED <<config, held>>
  BY DEF Start
<1>2. settled \in BOOLEAN
  BY TrialParts
<1>3. /\ pc \in {"done", "switch"} /\ code \in {"E0003", Nil}
      /\ pc = "done" <=> code = "E0003"
  BY NilAssumption
<1>. HIDE DEF pc, code
<1>4. /\ IdleTrial \in Trial /\ IdleTrial.act = Nil /\ IdleTrial.sku = Nil
      /\ IdleTrial.err = FALSE /\ IdleTrial.discount = Nil
  BY DEF IdleTrial, Trial, ActLoader, SkuLoader
<1>5. /\ x \in Trial /\ x.pc = pc /\ x.code = code /\ x.act = Nil /\ x.sku = Nil
      /\ x.err = FALSE /\ x.discount = Nil /\ x.user = u /\ x.kind = kind
      /\ x.quiet = settled
  <2>. DEFINE x1 == [IdleTrial EXCEPT !.user = u, !.kind = kind]
              x2 == [x1 EXCEPT !.quiet = settled, !.pc = pc]
              x3 == [x2 EXCEPT !.code = code]
  <2>1. x = x3
    OBVIOUS
  <2>2. /\ x1 \in Trial /\ x1.user = u /\ x1.kind = kind /\ x1.act = Nil /\ x1.sku = Nil
        /\ x1.err = FALSE /\ x1.discount = Nil
    BY <1>4 DEF Trial
  <2>. HIDE DEF x1
  <2>3. /\ x2 \in Trial /\ x2.user = u /\ x2.kind = kind /\ x2.act = Nil /\ x2.sku = Nil
        /\ x2.err = FALSE /\ x2.discount = Nil /\ x2.quiet = settled /\ x2.pc = pc
    BY <1>2, <1>3, <2>2 DEF Trial
  <2>. HIDE DEF x2
  <2>4. /\ x3 \in Trial /\ x3.user = u /\ x3.kind = kind /\ x3.act = Nil /\ x3.sku = Nil
        /\ x3.err = FALSE /\ x3.discount = Nil /\ x3.quiet = settled /\ x3.pc = pc
        /\ x3.code = code
    BY <1>3, <2>3 DEF Trial, Codes
  <2>. HIDE DEF x3
  <2>. QED  BY <2>1, <2>4
<1>. HIDE DEF x
<1>6. code \in Codes <=> code = "E0003"
  BY <1>3, NilAssumption DEF Codes
<1>7. Sound(x) /\ Priced(x) /\ Quiet(x, catalog, settled)
  BY <1>3, <1>5, <1>6 DEF Sound, Priced, Quiet
<1>8. x.pc # "load"
  BY <1>3, <1>5
<1>. QED  BY <1>1, <1>7, <1>8, TrialMoves DEF TrialOK

\* The facts about trial p that the steps below start from.
LEMMA TrialFacts ==
  ASSUME TrialInv, NEW p \in Procs
  PROVE  /\ TrialOK(req[p], catalog, settled)
         /\ req[p] \in Trial /\ req \in [Procs -> Trial]
         /\ catalog \in Catalogs /\ settled \in BOOLEAN
         /\ req[p].pc # "load" => req[p].act = Nil /\ req[p].sku = Nil
BY TrialParts DEF TrialOK, Sound

\* A trial that is answered with an error outside a load.
LEMMA ErrorPreserves ==
  ASSUME TrialInv, NEW p \in Procs, NEW code \in {"E0004", "UN_ERROR"},
         req[p].pc \notin {"load"}, Answer(p, code), UNCHANGED <<config, held>>
  PROVE  TrialInv'
<1>. DEFINE x == [req[p] EXCEPT !.pc = "done", !.code = code, !.err = FALSE,
                    !.row = Nil, !.discount = Nil, !.price = Nil, !.pay = Nil]
<1>1. req' = [req EXCEPT ![p] = x]
  BY DEF Answer
<1>2. PICK r : r = req[p]
  OBVIOUS
<1>3. TrialOK(r, catalog, settled) /\ r.act = Nil /\ r.sku = Nil
  BY <1>2, TrialFacts
<1>4. code \in Codes \ {"ok", "E0007"} /\ code \notin {"E0001", "E0002"}
  BY DEF Codes
<1>5. TrialOK(x, catalog, settled) /\ x.pc = "done"
  BY <1>2, <1>3, <1>4, AnswerOK
<1>. HIDE DEF x
<1>. QED  BY <1>1, <1>5, TrialMoves

\* The traffic cut: in, or answered.
LEMMA SwitchPreserves ==
  ASSUME TrialInv, NEW p \in Procs, SwitchNode(p)
  PROVE  TrialInv'
<1>1. req[p].pc = "switch" /\ UNCHANGED <<config, held>>
  BY DEF SwitchNode
<1>2. CASE Answer(p, "E0004")
  BY <1>1, <1>2, ErrorPreserves
<1>3. CASE Goto(p, "acquire")
  <2>. DEFINE x == [req[p] EXCEPT !.pc = "acquire"]
  <2>1. req' = [req EXCEPT ![p] = x]
    BY <1>3 DEF Goto
  <2>2. TrialOK(req[p], catalog, settled) /\ req[p] \in Trial
    BY TrialFacts
  <2>3. /\ x \in Trial /\ x.pc = "acquire" /\ x.code = req[p].code /\ x.act = req[p].act
        /\ x.sku = req[p].sku /\ x.err = req[p].err /\ x.discount = req[p].discount
        /\ x.user = req[p].user /\ x.kind = req[p].kind /\ x.quiet = req[p].quiet
    BY <2>2 DEF Trial
  <2>. HIDE DEF x
  <2>4. Sound(x) /\ Priced(x) /\ Quiet(x, catalog, settled)
    BY <1>1, <2>2, <2>3 DEF TrialOK, Sound, Priced, Quiet
  <2>. QED  BY <1>1, <2>1, <2>3, <2>4, TrialMoves DEF TrialOK
<1>. QED  BY <1>2, <1>3 DEF SwitchNode

\* A slot is taken and both goroutines start with nothing read.
LEMMA AcquirePreserves ==
  ASSUME TrialInv, NEW p \in Procs, Acquire(p)
  PROVE  TrialInv'
<1>. DEFINE first == FirstQuery(req[p].kind)
            x == [req[p] EXCEPT !.pc = "load", !.sku = "sku", !.act = first]
<1>1. /\ req[p].pc = "acquire" /\ held < Slots /\ held' = held + 1 /\ UNCHANGED config
      /\ req' = [req EXCEPT ![p].pc = "load", ![p].sku = "sku", ![p].act = first]
  BY DEF Acquire
<1>2. TrialOK(req[p], catalog, settled) /\ req[p] \in Trial /\ req \in [Procs -> Trial]
  BY TrialFacts
<1>3. req' = [req EXCEPT ![p] = x]
  BY <1>1, <1>2
<1>4. /\ first \in {"link", "activity"} /\ (first = "link" <=> req[p].kind = "index")
      /\ first # Nil /\ "sku" # Nil
  BY NilAssumption DEF FirstQuery
<1>. HIDE DEF first
<1>5. /\ x \in Trial /\ x.pc = "load" /\ x.code = req[p].code /\ x.act = first
      /\ x.sku = "sku" /\ x.discount = req[p].discount
      /\ x.user = req[p].user /\ x.kind = req[p].kind /\ x.quiet = req[p].quiet
  BY <1>2, <1>4 DEF Trial, ActLoader, SkuLoader
<1>. HIDE DEF x
<1>6. ReadSoFar(x, catalog)
  <2>1. req[p].discount = Nil
    BY <1>1, <1>2 DEF TrialOK, Sound
  <2>. QED  BY <1>4, <1>5, <2>1 DEF ReadSoFar
<1>7. Sound(x) /\ Priced(x) /\ Quiet(x, catalog, settled)
  BY <1>1, <1>2, <1>5, <1>6 DEF TrialOK, Sound, Priced, Quiet
<1>. QED  BY <1>1, <1>3, <1>5, <1>7, TrialMoves DEF TrialOK

\* A statement of one of the two goroutines, or its failure.
LEMMA LoadPreserves ==
  ASSUME TrialInv, NEW p \in Procs, Load(p)
  PROVE  TrialInv'
<1>. DEFINE r == req[p]
<1>1. /\ TrialOK(r, catalog, settled) /\ r \in Trial /\ req \in [Procs -> Trial]
      /\ catalog \in Catalogs
  BY TrialFacts
<1>2. UNCHANGED <<config, held>>
  BY DEF Load, QueryLink, QueryActivity, QueryDiscount, QuerySku, LoadFails
<1>3. r.pc = "load"
  <2>1. r.act # Nil \/ r.sku # Nil
    BY NilAssumption DEF Load, QueryLink, QueryActivity, QueryDiscount, QuerySku, LoadFails
  <2>. QED  BY <1>1, <2>1 DEF TrialOK, Sound
<1>4. r.quiet => ReadSoFar(r, catalog)
  BY <1>1, <1>3 DEF TrialOK, Quiet
<1>5. ASSUME NEW x, req' = [req EXCEPT ![p] = x], x \in Trial, x.pc = "load",
             x.code = r.code, x.user = r.user, x.kind = r.kind, x.quiet = r.quiet,
             ReadSoFar(r, catalog) => ReadSoFar(x, catalog)
      PROVE  TrialInv'
  <2>1. PICK y : y = r
    OBVIOUS
  <2>2. TrialOK(x, catalog, settled)
    BY <1>1, <1>3, <1>4, <1>5, <2>1, LoadingOK
  <2>. QED  BY <1>2, <1>3, <1>5, <2>2, TrialMoves
<1>6. CASE QueryLink(p)
  <2>. DEFINE a == IF catalog.linked THEN "activity" ELSE Nil
              x == [r EXCEPT !.act = a]
  <2>1. r.act = "link" /\ req' = [req EXCEPT ![p] = x]
    BY <1>6 DEF QueryLink
  <2>2. /\ x \in Trial /\ x.pc = r.pc /\ x.code = r.code /\ x.user = r.user
        /\ x.kind = r.kind /\ x.quiet = r.quiet /\ x.act = a /\ x.sku = r.sku
        /\ x.err = r.err /\ x.discount = r.discount /\ x.price = r.price
    BY <1>1 DEF Trial, ActLoader
  <2>3. a \in {"activity", Nil} /\ (a = "activity" <=> catalog.linked)
    BY NilAssumption
  <2>. HIDE DEF x, a, r
  <2>4. ReadSoFar(r, catalog) => ReadSoFar(x, catalog)
    BY <2>1, <2>2, <2>3, NilAssumption DEF ReadSoFar, Finds
  <2>. QED  BY <1>3, <1>5, <2>1, <2>2, <2>4
<1>7. CASE QueryActivity(p)
  <2>. DEFINE a == IF catalog.on THEN "discount" ELSE Nil
              row == IF catalog.on THEN RowOf(catalog) ELSE Nil
              x == [r EXCEPT !.act = a, !.row = row]
  <2>1. r.act = "activity" /\ req' = [req EXCEPT ![p] = x]
    BY <1>1, <1>7 DEF QueryActivity
  <2>2. row \in {Nil} \cup {RowOf(c) : c \in Catalogs} /\ a \in ActLoader
    BY <1>1 DEF ActLoader
  <2>3. /\ a \in {"discount", Nil} /\ (a = "discount" <=> catalog.on)
        /\ catalog.on => row = RowOf(catalog)
    BY NilAssumption
  <2>. HIDE DEF a, row
  <2>4. /\ x \in Trial /\ x.pc = r.pc /\ x.code = r.code /\ x.user = r.user
        /\ x.kind = r.kind /\ x.quiet = r.quiet /\ x.act = a /\ x.sku = r.sku
        /\ x.err = r.err /\ x.discount = r.discount /\ x.price = r.price /\ x.row = row
    BY <1>1, <2>2 DEF Trial
  <2>. HIDE DEF x, r
  <2>5. ReadSoFar(r, catalog) => ReadSoFar(x, catalog)
    BY <2>1, <2>3, <2>4, NilAssumption DEF ReadSoFar, Finds
  <2>. QED  BY <1>3, <1>5, <2>1, <2>4, <2>5
<1>8. CASE QueryDiscount(p)
  <2>. DEFINE x == [r EXCEPT !.act = Nil, !.discount = catalog.discount]
  <2>1. r.act = "discount" /\ req' = [req EXCEPT ![p] = x]
    BY <1>1, <1>8 DEF QueryDiscount
  <2>2. catalog.discount \in {Nil} \cup {c.discount : c \in Catalogs}
    BY <1>1
  <2>3. /\ x \in Trial /\ x.pc = r.pc /\ x.code = r.code /\ x.user = r.user
        /\ x.kind = r.kind /\ x.quiet = r.quiet /\ x.act = Nil /\ x.sku = r.sku
        /\ x.err = r.err /\ x.discount = catalog.discount /\ x.price = r.price
        /\ x.row = r.row
    BY <1>1, <2>2 DEF Trial, ActLoader
  <2>. HIDE DEF x, r
  <2>4. ReadSoFar(r, catalog) => ReadSoFar(x, catalog)
    BY <2>1, <2>3, NilAssumption DEF ReadSoFar, Finds
  <2>. QED  BY <1>3, <1>5, <2>1, <2>3, <2>4
<1>9. CASE QuerySku(p)
  <2>. DEFINE x == [r EXCEPT !.sku = Nil, !.price = catalog.price]
  <2>1. r.sku = "sku" /\ req' = [req EXCEPT ![p] = x]
    BY <1>1, <1>9 DEF QuerySku
  <2>2. catalog.price \in {Nil} \cup {c.price : c \in Catalogs}
    BY <1>1
  <2>3. /\ x \in Trial /\ x.pc = r.pc /\ x.code = r.code /\ x.user = r.user
        /\ x.kind = r.kind /\ x.quiet = r.quiet /\ x.act = r.act /\ x.sku = Nil
        /\ x.err = r.err /\ x.discount = r.discount /\ x.price = catalog.price
        /\ x.row = r.row
    BY <1>1, <2>2 DEF Trial, SkuLoader
  <2>. HIDE DEF x, r
  <2>4. ReadSoFar(r, catalog) => ReadSoFar(x, catalog)
    BY <2>3 DEF ReadSoFar, Finds
  <2>. QED  BY <1>3, <1>5, <2>1, <2>3, <2>4
<1>10. CASE LoadFails(p)
  <2>1. CASE r.act # Nil /\ req' = [req EXCEPT ![p].act = Nil, ![p].err = TRUE]
    <3>. DEFINE x == [r EXCEPT !.act = Nil, !.err = TRUE]
    <3>1. req' = [req EXCEPT ![p] = x]
      BY <1>1, <2>1
    <3>2. /\ x \in Trial /\ x.pc = r.pc /\ x.code = r.code /\ x.user = r.user
          /\ x.kind = r.kind /\ x.quiet = r.quiet /\ x.act = Nil /\ x.err = TRUE
      BY <1>1 DEF Trial, ActLoader
    <3>. HIDE DEF x, r
    <3>3. ReadSoFar(x, catalog)
      BY <3>2, NilAssumption DEF ReadSoFar
    <3>. QED  BY <1>3, <1>5, <3>1, <3>2, <3>3
  <2>2. CASE r.sku # Nil /\ req' = [req EXCEPT ![p].sku = Nil, ![p].err = TRUE]
    <3>. DEFINE x == [r EXCEPT !.sku = Nil, !.err = TRUE]
    <3>1. req' = [req EXCEPT ![p] = x]
      BY <1>1, <2>2
    <3>2. /\ x \in Trial /\ x.pc = r.pc /\ x.code = r.code /\ x.user = r.user
          /\ x.kind = r.kind /\ x.quiet = r.quiet /\ x.act = r.act /\ x.err = TRUE
          /\ x.discount = r.discount /\ x.row = r.row
      BY <1>1 DEF Trial, SkuLoader
    <3>. HIDE DEF x, r
    <3>3. ReadSoFar(r, catalog) => ReadSoFar(x, catalog)
      BY <3>2 DEF ReadSoFar
    <3>. QED  BY <1>3, <1>5, <3>1, <3>2, <3>3
  <2>. QED  BY <1>10, <2>1, <2>2 DEF LoadFails
<1>. QED  BY <1>6, <1>7, <1>8, <1>9, <1>10 DEF Load

\* The answer of an unchanged catalog that lacks a row.
LEMMA QuoteOfMissing ==
  ASSUME NEW c, NEW u, NEW kind,
         ~ Finds(c, kind) \/ Nil \in {c.discount, c.price}
  PROVE  Quote(c, u, kind) = "E0002"
BY DEF Quote, Finds

\* The answer of an unchanged catalog whose plan has no strategy.
LEMMA QuoteOfUnknownPlan ==
  ASSUME NEW c, NEW u, NEW kind, Finds(c, kind), Nil \notin {c.discount, c.price},
         c.discount.plan \notin Plans
  PROVE  Quote(c, u, kind) = "E0001"
BY DEF Quote, Finds

\* Both goroutines have returned: the slot is given back, and the trial has read
\* all rows or is answered.
LEMMA WaitPreserves ==
  ASSUME TrialInv, NEW p \in Procs, Wait(p)
  PROVE  TrialInv'
<1>. DEFINE r == req[p]
            code == CodeOfLoad(r)
<1>1. /\ r.pc = "load" /\ r.act = Nil /\ r.sku = Nil
      /\ held' = held - 1 /\ UNCHANGED config
      /\ IF code = "ok" THEN Goto(p, "price") ELSE Answer(p, code)
  BY DEF Wait, Waited, Release
<1>2. /\ TrialOK(r, catalog, settled) /\ r \in Trial /\ req \in [Procs -> Trial]
      /\ catalog \in Catalogs
  BY TrialFacts
<1>3. r.quiet /\ ~ r.err =>
        /\ IF Finds(catalog, r.kind)
             THEN r.row = RowOf(catalog) /\ r.discount = catalog.discount
             ELSE r.discount = Nil
        /\ r.price = catalog.price
  BY <1>1, <1>2 DEF TrialOK, Quiet, ReadSoFar
<1>4. /\ code \in {"UN_ERROR", "E0002", "E0001", "ok"}
      /\ code = "E0002" => ~ r.err /\ Nil \in {r.discount, r.price}
      /\ code = "E0001" =>
           ~ r.err /\ Nil \notin {r.discount, r.price} /\ r.discount.plan \notin Plans
      /\ code = "ok" =>
           ~ r.err /\ Nil \notin {r.discount, r.price} /\ r.discount.plan \in Plans
  <2>1. r.err \in BOOLEAN
    BY <1>2 DEF Trial
  <2>2. CASE r.err
    BY <2>2 DEF CodeOfLoad
  <2>3. CASE ~ r.err /\ Nil \in {r.discount, r.price}
    BY <2>3 DEF CodeOfLoad
  <2>4. CASE ~ r.err /\ Nil \notin {r.discount, r.price} /\ r.discount.plan \notin Plans
    BY <2>4 DEF CodeOfLoad
  <2>5. CASE ~ r.err /\ Nil \notin {r.discount, r.price} /\ r.discount.plan \in Plans
    BY <2>5 DEF CodeOfLoad
  <2>. QED  BY <2>1, <2>2, <2>3, <2>4, <2>5
<1>. HIDE DEF code
<1>5. CASE code # "ok"
  <2>. DEFINE x == [r EXCEPT !.pc = "done", !.code = code, !.err = FALSE,
                      !.row = Nil, !.discount = Nil, !.price = Nil, !.pay = Nil]
  <2>1. req' = [req EXCEPT ![p] = x]
    BY <1>1, <1>5 DEF Answer
  <2>2. r.quiet /\ code = "E0002" => Quote(catalog, r.user, r.kind) = "E0002"
    <3>. HIDE DEF r
    <3>1. r.quiet /\ code = "E0002" =>
            ~ Finds(catalog, r.kind) \/ Nil \in {catalog.discount, catalog.price}
      BY <1>3, <1>4
    <3>. QED  BY <3>1, QuoteOfMissing
  <2>3. r.quiet /\ code = "E0001" => Quote(catalog, r.user, r.kind) = "E0001"
    <3>. HIDE DEF r
    <3>1. r.quiet /\ code = "E0001" =>
            /\ Finds(catalog, r.kind) /\ Nil \notin {catalog.discount, catalog.price}
            /\ catalog.discount.plan \notin Plans
      BY <1>3, <1>4
    <3>. QED  BY <3>1, QuoteOfUnknownPlan
  <2>4. PICK y : y = r
    OBVIOUS
  <2>5. PICK k : k = code
    OBVIOUS
  <2>6. k \in Codes \ {"ok", "E0007"}
    BY <1>4, <1>5, <2>5 DEF Codes
  <2>7. y.quiet /\ k \in {"E0001", "E0002"} => Quote(catalog, y.user, y.kind) = k
    BY <2>2, <2>3, <2>4, <2>5
  <2>8. TrialOK(x, catalog, settled) /\ x.pc = "done"
    <3>1. TrialOK(y, catalog, settled) /\ y.act = Nil /\ y.sku = Nil
      BY <1>1, <1>2, <2>4
    <3>. DEFINE z == [y EXCEPT !.pc = "done", !.code = k, !.err = FALSE,
                        !.row = Nil, !.discount = Nil, !.price = Nil, !.pay = Nil]
    <3>2. TrialOK(z, catalog, settled) /\ z.pc = "done"
      BY <2>6, <2>7, <3>1, AnswerOK
    <3>3. x = z
      BY <2>4, <2>5
    <3>. HIDE DEF x, z
    <3>. QED  BY <3>2, <3>3
  <2>. HIDE DEF x
  <2>. QED  BY <1>1, <2>1, <2>8, TrialMoves
<1>6. CASE code = "ok"
  <2>. DEFINE x == [r EXCEPT !.pc = "price"]
  <2>1. req' = [req EXCEPT ![p] = x]
    BY <1>1, <1>6 DEF Goto
  <2>2. /\ x \in Trial /\ x.pc = "price" /\ x.code = r.code /\ x.act = r.act
        /\ x.sku = r.sku /\ x.discount = r.discount /\ x.price = r.price /\ x.row = r.row
        /\ x.user = r.user /\ x.kind = r.kind /\ x.quiet = r.quiet
    BY <1>2 DEF Trial
  <2>. HIDE DEF x, r
  <2>3. Sound(x) /\ Priced(x)
    BY <1>1, <1>2, <1>4, <1>6, <2>2 DEF TrialOK, Sound, Priced
  <2>4. Quiet(x, catalog, settled)
    <3>1. r.quiet => ReadAll(x, catalog)
      BY <1>3, <1>4, <1>6, <2>2 DEF ReadAll
    <3>. QED  BY <1>2, <2>2, <3>1 DEF TrialOK, Quiet
  <2>. QED  BY <1>1, <2>1, <2>2, <2>3, <2>4, TrialMoves DEF TrialOK, r
<1>. QED  BY <1>5, <1>6

\* The rows a trial has read, of whichever catalogs, are rows: the price is a
\* price, and the discount has a strategy that makes a price of it.
LEMMA PriceFacts ==
  ASSUME NEW r, Sound(r), r.pc \in {"price", "tag"}
  PROVE  /\ r.price \in Nat
         /\ r.discount \in DiscountRow /\ r.discount.plan \in Plans
         /\ DoCalculate(r.discount.plan, r.price, r.discount.expr) \in Int
         /\ AllReasonable =>
              /\ 1 <= r.price
              /\ r.discount.plan # "N" =>
                   /\ 1 <= DoCalculate(r.discount.plan, r.price, r.discount.expr)
                   /\ DoCalculate(r.discount.plan, r.price, r.discount.expr) <= r.price
<1>1. /\ r \in Trial /\ r.discount # Nil /\ r.price # Nil /\ r.discount.plan \in Plans
  BY DEF Sound
<1>2. PICK c \in Catalogs : r.discount = c.discount
  BY <1>1 DEF Trial
<1>3. PICK d \in Catalogs : r.price = d.price
  BY <1>1 DEF Trial
<1>4. r.discount \in DiscountRow
  BY <1>1, <1>2, CatalogsAssumption DEF IsCatalog
<1>5. r.price \in Nat
  BY <1>1, <1>3, CatalogsAssumption DEF IsCatalog
<1>6. PICK op \in Nat : op = r.price
  BY <1>5
<1>7. PICK expr \in Seq(Int \cup {Bad}) : expr = r.discount.expr
  BY <1>4 DEF DiscountRow
<1>8. PICK plan \in Plans : plan = r.discount.plan
  BY <1>1
<1>9. DoCalculate(plan, op, expr) \in Int
  BY CalculateType
<1>10. ASSUME AllReasonable PROVE op >= 1
  BY <1>1, <1>3, <1>6, <1>10 DEF AllReasonable, Reasonable
<1>11. ASSUME AllReasonable, plan # "N"
       PROVE  1 <= DoCalculate(plan, op, expr) /\ DoCalculate(plan, op, expr) <= op
  <2>1. Reasonable(c) /\ c.discount # Nil
    BY <1>1, <1>2, <1>11 DEF AllReasonable
  <2>2. /\ \A n \in DOMAIN expr : PartValue(expr[n]) >= 0
        /\ plan = "ZK" => ExprValue(expr) <= 100
    BY <1>2, <1>7, <1>8, <2>1 DEF Reasonable
  <2>. QED  BY <1>10, <1>11, <2>2, CalculateBounds
<1>. QED  BY <1>4, <1>5, <1>6, <1>7, <1>8, <1>9, <1>10, <1>11

\* The price, of the rows read.
LEMMA CalculatePreserves ==
  ASSUME TrialInv, NEW p \in Procs, Calculate(p)
  PROVE  TrialInv'
<1>. DEFINE r == req[p]
            price == DoCalculate(r.discount.plan, r.price, r.discount.expr)
<1>1. r.pc = "price" /\ UNCHANGED <<config, held>>
  BY DEF Calculate
<1>2. /\ TrialOK(r, catalog, settled) /\ r \in Trial /\ req \in [Procs -> Trial]
      /\ catalog \in Catalogs /\ settled \in BOOLEAN
  BY TrialFacts
<1>3. /\ r.price \in Nat /\ r.discount.type \in {"base", "tag"}
      /\ price \in Int
      /\ AllReasonable =>
           1 <= r.price /\ (r.discount.plan # "N" => 1 <= price /\ price <= r.price)
  <2>1. PICK y : y = r
    OBVIOUS
  <2>2. Sound(y) /\ y.pc \in {"price", "tag"}
    BY <1>1, <1>2, <2>1 DEF TrialOK
  <2>. QED  BY <2>1, <2>2, PriceFacts DEF DiscountRow
<1>4. PICK within \in (IF r.discount.type = "tag" THEN CrowdAnswers(r.user, DiscountCrowd) ELSE {TRUE}) :
        req' = [req EXCEPT ![p].pc = "tag",
                  ![p].pay = IF within THEN price ELSE r.price]
  BY DEF Calculate
<1>5. PICK pay : pay = IF within THEN price ELSE r.price
  OBVIOUS
<1>6. /\ pay \in Int
      /\ AllReasonable /\ r.discount.plan # "N" => 1 <= pay /\ pay <= r.price
  <2>. HIDE DEF price, r
  <2>. QED  BY <1>3, <1>5
<1>7. r.quiet => pay = PayOf(catalog, r.user)
  <2>. SUFFICES ASSUME r.quiet PROVE pay = PayOf(catalog, r.user)
    OBVIOUS
  <2>1. settled /\ r.discount = catalog.discount /\ r.price = catalog.price
    BY <1>1, <1>2 DEF TrialOK, Quiet, ReadAll
  <2>2. CASE r.discount.type = "tag"
    <3>1. within = (r.user \in DiscountCrowd)
      BY <1>4, <2>1, <2>2 DEF CrowdAnswers
    <3>. QED  BY <1>5, <2>1, <2>2, <3>1 DEF PayOf
  <2>3. CASE r.discount.type = "base"
    <3>1. within = TRUE
      BY <1>4, <2>3
    <3>. QED  BY <1>5, <2>1, <2>3, <3>1 DEF PayOf
  <2>. QED  BY <1>3, <2>2, <2>3
<1>. DEFINE x == [r EXCEPT !.pc = "tag", !.pay = pay]
<1>8. req' = [req EXCEPT ![p] = x]
  BY <1>2, <1>4, <1>5
<1>9. /\ x \in Trial /\ x.pc = "tag" /\ x.code = r.code /\ x.act = r.act /\ x.pay = pay
      /\ x.sku = r.sku /\ x.discount = r.discount /\ x.price = r.price /\ x.row = r.row
      /\ x.user = r.user /\ x.kind = r.kind /\ x.quiet = r.quiet
  BY <1>2, <1>6 DEF Trial
<1>. HIDE DEF x, r, price
<1>10. Sound(x) /\ Priced(x)
  BY <1>1, <1>2, <1>6, <1>9 DEF TrialOK, Sound, Priced
<1>11. Quiet(x, catalog, settled)
  <2>1. r.quiet => settled /\ ReadAll(r, catalog)
    BY <1>1, <1>2 DEF TrialOK, Quiet
  <2>2. ReadAll(r, catalog) => ReadAll(x, catalog)
    BY <1>9 DEF ReadAll
  <2>. QED  BY <1>7, <1>9, <2>1, <2>2 DEF Quiet
<1>. QED  BY <1>1, <1>8, <1>9, <1>10, <1>11, TrialMoves DEF TrialOK, r

\* On the scopes the column is meant for, the two questions of the tag node ask
\* for a "1" and a "2".
LEMMA ScopeMeaning ==
  ASSUME NEW c, WellScoped(c)
  PROVE  /\ IsVisible(c.scope) <=> "1" \notin Range(c.scope)
         /\ IsEnable(c.scope) <=> "2" \notin Range(c.scope)
<1>1. CASE c.scope = <<>>
  BY <1>1 DEF IsVisible, IsEnable, Range
<1>2. CASE c.scope = <<"1">>
  BY <1>2 DEF IsVisible, IsEnable, Range
<1>3. CASE c.scope = <<"2">>
  BY <1>3 DEF IsVisible, IsEnable, Range
<1>4. CASE c.scope = <<"1", "2">>
  BY <1>4 DEF IsVisible, IsEnable, Range
<1>. QED  BY <1>1, <1>2, <1>3, <1>4 DEF WellScoped

\* The answer of an unchanged catalog that has everything.
LEMMA QuoteOfFound ==
  ASSUME NEW c, NEW u, NEW kind, Finds(c, kind), Nil \notin {c.discount, c.price},
         c.discount.plan \in Plans, WellScoped(c),
         NEW visible \in BOOLEAN, NEW enable \in BOOLEAN,
         visible <=> ~ c.tagged \/ IsVisible(c.scope) \/ u \in ActivityCrowd,
         enable <=> ~ c.tagged \/ IsEnable(c.scope) \/ u \in ActivityCrowd
  PROVE  Quote(c, u, kind) =
           [code   |-> IF kind = "lock" /\ ~ (visible /\ enable) THEN "E0007" ELSE "ok",
            access |-> [visible |-> visible, enable |-> enable],
            pay    |-> PayOf(c, u)]
<1>. DEFINE v == (~ c.tagged \/ u \in ActivityCrowd) \/ "1" \notin Range(c.scope)
            e == (~ c.tagged \/ u \in ActivityCrowd) \/ "2" \notin Range(c.scope)
<1>1. v = visible
  <2>1. v <=> visible
    BY ScopeMeaning
  <2>2. v \in BOOLEAN
    OBVIOUS
  <2>. HIDE DEF v
  <2>. QED  BY <2>1, <2>2
<1>2. e = enable
  <2>1. e <=> enable
    BY ScopeMeaning
  <2>2. e \in BOOLEAN
    OBVIOUS
  <2>. HIDE DEF e
  <2>. QED  BY <2>1, <2>2
<1>3. Quote(c, u, kind) =
        [code   |-> IF kind = "lock" /\ ~ (v /\ e) THEN "E0007" ELSE "ok",
         access |-> [visible |-> v, enable |-> e],
         pay    |-> PayOf(c, u)]
  BY DEF Quote, Finds, PayOf
<1>. HIDE DEF v, e
<1>. QED  BY <1>1, <1>2, <1>3

\* The access, and the answer.
LEMMA TagPreserves ==
  ASSUME TrialInv, NEW p \in Procs, TagNode(p)
  PROVE  TrialInv'
<1>. DEFINE r == req[p]
<1>1. r.pc = "tag" /\ UNCHANGED <<config, held>>
  BY DEF TagNode
<1>2. /\ TrialOK(r, catalog, settled) /\ r \in Trial /\ req \in [Procs -> Trial]
      /\ catalog \in Catalogs /\ settled \in BOOLEAN
  BY TrialFacts
<1>3. PICK within \in (IF r.row.tagged THEN CrowdAnswers(r.user, ActivityCrowd) ELSE {TRUE}) :
        req' = [req EXCEPT ![p].pc = "done",
                  ![p].visible = Access(r.row, within).visible,
                  ![p].enable = Access(r.row, within).enable,
                  ![p].code = CodeOfAccess(r.kind, Access(r.row, within)),
                  ![p].row = Nil, ![p].discount = Nil, ![p].price = Nil]
  BY DEF TagNode
<1>4. PICK v \in BOOLEAN : v = Access(r.row, within).visible
  BY DEF Access
<1>5. PICK e \in BOOLEAN : e = Access(r.row, within).enable
  BY DEF Access
<1>6. /\ v <=> ~ r.row.tagged \/ IsVisible(r.row.scope) \/ within
      /\ e <=> ~ r.row.tagged \/ IsEnable(r.row.scope) \/ within
  BY <1>4, <1>5 DEF Access
<1>7. PICK code : code = CodeOfAccess(r.kind, Access(r.row, within))
  OBVIOUS
<1>8. code = IF r.kind = "lock" /\ ~ (v /\ e) THEN "E0007" ELSE "ok"
  BY <1>4, <1>5, <1>7 DEF CodeOfAccess
<1>9. code \in {"ok", "E0007"}
  BY <1>8
<1>. DEFINE x1 == [r EXCEPT !.pc = "done", !.visible = v]
            x2 == [x1 EXCEPT !.enable = e]
            x3 == [x2 EXCEPT !.code = code]
            x4 == [x3 EXCEPT !.row = Nil]
            x5 == [x4 EXCEPT !.discount = Nil]
            x == [x5 EXCEPT !.price = Nil]
<1>10. req' = [req EXCEPT ![p] = x]
  BY <1>2, <1>3, <1>4, <1>5, <1>7
<1>11. /\ x \in Trial /\ x.pc = "done" /\ x.visible = v /\ x.enable = e /\ x.code = code
       /\ x.act = r.act /\ x.sku = r.sku /\ x.user = r.user /\ x.kind = r.kind
       /\ x.quiet = r.quiet /\ x.pay = r.pay
  <2>1. /\ x1 \in Trial /\ x1.pc = "done" /\ x1.visible = v
        /\ x1.act = r.act /\ x1.sku = r.sku /\ x1.user = r.user /\ x1.kind = r.kind
        /\ x1.quiet = r.quiet /\ x1.pay = r.pay
    BY <1>2 DEF Trial
  <2>. HIDE DEF x1
  <2>2. /\ x2 \in Trial /\ x2.pc = "done" /\ x2.visible = v /\ x2.enable = e
        /\ x2.act = r.act /\ x2.sku = r.sku /\ x2.user = r.user /\ x2.kind = r.kind
        /\ x2.quiet = r.quiet /\ x2.pay = r.pay
    BY <2>1 DEF Trial
  <2>. HIDE DEF x2
  <2>3. /\ x3 \in Trial /\ x3.pc = "done" /\ x3.visible = v /\ x3.enable = e
        /\ x3.code = code
        /\ x3.act = r.act /\ x3.sku = r.sku /\ x3.user = r.user /\ x3.kind = r.kind
        /\ x3.quiet = r.quiet /\ x3.pay = r.pay
    BY <1>9, <2>2 DEF Trial, Codes
  <2>. HIDE DEF x3
  <2>4. /\ x4 \in Trial /\ x4.pc = "done" /\ x4.visible = v /\ x4.enable = e
        /\ x4.code = code
        /\ x4.act = r.act /\ x4.sku = r.sku /\ x4.user = r.user /\ x4.kind = r.kind
        /\ x4.quiet = r.quiet /\ x4.pay = r.pay
    BY <2>3 DEF Trial
  <2>. HIDE DEF x4
  <2>5. /\ x5 \in Trial /\ x5.pc = "done" /\ x5.visible = v /\ x5.enable = e
        /\ x5.code = code
        /\ x5.act = r.act /\ x5.sku = r.sku /\ x5.user = r.user /\ x5.kind = r.kind
        /\ x5.quiet = r.quiet /\ x5.pay = r.pay
    BY <2>4 DEF Trial
  <2>. HIDE DEF x5
  <2>. QED  BY <2>5 DEF Trial
<1>. HIDE DEF x
<1>12. Sound(x) /\ Priced(x)
  <2>1. r.act = Nil /\ r.sku = Nil
    BY <1>1, TrialFacts
  <2>. QED  BY <1>9, <1>11, <2>1 DEF Sound, Priced, Codes
<1>13. Quiet(x, catalog, settled)
  <2>. SUFFICES ASSUME r.quiet
                PROVE  settled /\ (AllWellScoped => AnswersQuote(x, catalog))
    BY <1>11 DEF Quiet
  <2>1. /\ settled /\ Finds(catalog, r.kind) /\ r.row = RowOf(catalog)
        /\ r.discount = catalog.discount /\ r.price = catalog.price
        /\ r.pay = PayOf(catalog, r.user)
    BY <1>1, <1>2 DEF TrialOK, Quiet, ReadAll
  <2>2. Nil \notin {catalog.discount, catalog.price} /\ catalog.discount.plan \in Plans
    BY <1>1, <1>2, <2>1 DEF TrialOK, Sound
  <2>3. catalog.tagged => (within <=> r.user \in ActivityCrowd)
    <3>1. r.row.tagged = catalog.tagged
      BY <2>1 DEF RowOf
    <3>. QED  BY <1>3, <2>1, <3>1 DEF CrowdAnswers
  <2>4. /\ v <=> ~ catalog.tagged \/ IsVisible(catalog.scope) \/ r.user \in ActivityCrowd
        /\ e <=> ~ catalog.tagged \/ IsEnable(catalog.scope) \/ r.user \in ActivityCrowd
    <3>1. r.row.tagged = catalog.tagged /\ r.row.scope = catalog.scope
      BY <2>1 DEF RowOf
    <3>. QED  BY <1>6, <2>3, <3>1
  <2>5. PICK c : c = catalog
    OBVIOUS
  <2>6. PICK u : u = r.user
    OBVIOUS
  <2>7. PICK kind : kind = r.kind
    OBVIOUS
  <2>8. ASSUME AllWellScoped
        PROVE  Quote(c, u, kind) =
                 [code   |-> IF kind = "lock" /\ ~ (v /\ e) THEN "E0007" ELSE "ok",
                  access |-> [visible |-> v, enable |-> e],
                  pay    |-> PayOf(c, u)]
    <3>1. WellScoped(c)
      BY <1>2, <2>5, <2>8 DEF AllWellScoped
    <3>. QED  BY <2>1, <2>2, <2>4, <2>5, <2>6, <2>7, <3>1, QuoteOfFound
  <2>9. ASSUME AllWellScoped
        PROVE  Quote(catalog, r.user, r.kind) =
                 [code |-> code, pay |-> r.pay, access |-> [visible |-> v, enable |-> e]]
    BY <1>8, <2>1, <2>5, <2>6, <2>7, <2>8, <2>9
  <2>. QED  BY <1>9, <1>11, <2>1, <2>9 DEF AnswersQuote
<1>. QED  BY <1>1, <1>10, <1>11, <1>12, <1>13, TrialMoves DEF TrialOK

\* A failed question about the crowd, or no slot in time, is an error; the next
\* request starts afresh.
LEMMA EndPreserves ==
  ASSUME TrialInv, NEW p \in Procs, AcquireFails(p) \/ QuestionFails(p) \/ Return(p)
  PROVE  TrialInv'
<1>1. CASE AcquireFails(p) \/ QuestionFails(p)
  <2>1. /\ req[p].pc \notin {"load"} /\ Answer(p, "UN_ERROR")
        /\ UNCHANGED <<config, held>>
    BY <1>1 DEF AcquireFails, QuestionFails
  <2>. QED  BY <2>1, ErrorPreserves
<1>2. CASE Return(p)
  <2>1. /\ req[p].pc = "done" /\ req' = [req EXCEPT ![p] = IdleTrial]
        /\ UNCHANGED <<config, held>>
    BY <1>2 DEF Return
  <2>2. /\ IdleTrial \in Trial /\ IdleTrial.act = Nil /\ IdleTrial.sku = Nil
        /\ IdleTrial.pc = "idle" /\ IdleTrial.code = Nil /\ IdleTrial.quiet = FALSE
    BY DEF IdleTrial, Trial, ActLoader, SkuLoader
  <2>3. Sound(IdleTrial) /\ Priced(IdleTrial) /\ Quiet(IdleTrial, catalog, settled)
    BY <2>2, NilAssumption DEF Sound, Priced, Quiet, Codes
  <2>. QED  BY <2>1, <2>2, <2>3, TrialMoves DEF TrialOK
<1>. QED  BY <1>1, <1>2

\* A row changes under the trials: none of them is quiet any more.
LEMMA EditPreserves ==
  ASSUME TrialInv, NEW c \in Catalogs, EditCatalog(c)
  PROVE  TrialInv'
<1>1. /\ edits < MaxEdits /\ edits' = edits + 1 /\ catalog' = c
      /\ req' = [p \in Procs |-> [req[p] EXCEPT !.quiet = FALSE]]
      /\ UNCHANGED <<downgrade, cut, settled, held>>
  BY DEF EditCatalog, Edit
<1>2. /\ cut \in Cuts /\ {downgrade, settled} \subseteq BOOLEAN
      /\ edits \in 0..MaxEdits /\ held \in 0..Slots /\ req \in [Procs -> Trial]
      /\ IsFiniteSet(Loading) /\ held = Cardinality(Loading)
      /\ \A p \in Procs : TrialOK(req[p], catalog, settled)
  BY TrialParts
<1>3. ASSUME NEW p \in Procs
      PROVE  /\ req'[p] \in Trial /\ req'[p].pc = req[p].pc
             /\ TrialOK(req'[p], catalog', settled')
  <2>. DEFINE x == [req[p] EXCEPT !.quiet = FALSE]
  <2>1. req[p] \in Trial /\ req'[p] = x
    BY <1>1, <1>2
  <2>2. /\ x \in Trial /\ x.quiet = FALSE /\ x.pc = req[p].pc /\ x.code = req[p].code
        /\ x.act = req[p].act /\ x.sku = req[p].sku /\ x.discount = req[p].discount
        /\ x.price = req[p].price /\ x.pay = req[p].pay /\ x.err = req[p].err
        /\ x.user = req[p].user /\ x.kind = req[p].kind
    BY <2>1 DEF Trial
  <2>. HIDE DEF x
  <2>3. Sound(req[p]) /\ Priced(req[p])
    BY <1>2 DEF TrialOK
  <2>4. Sound(x) /\ Priced(x) /\ Quiet(x, catalog', settled')
    BY <2>2, <2>3 DEF Sound, Priced, Quiet
  <2>. QED  BY <2>1, <2>2, <2>4 DEF TrialOK
<1>4. req' \in [Procs -> Trial]
  BY <1>1, <1>3
<1>5. Loading' = Loading
  BY <1>3 DEF Loading
<1>6. edits' \in 0..MaxEdits
  BY <1>1, <1>2, SlotsAssumption
<1>. QED  BY <1>1, <1>2, <1>3, <1>4, <1>5, <1>6, TrialPartsNext

\* A switch changes, the crowd settles, or nothing happens: no trial is touched.
LEMMA SettingsPreserve ==
  ASSUME TrialInv, UNCHANGED <<catalog, held, req>>, cut' \in Cuts,
         downgrade' \in BOOLEAN, settled' \in BOOLEAN, settled => settled',
         edits' \in 0..MaxEdits
  PROVE  TrialInv'
<1>1. /\ catalog \in Catalogs /\ held \in 0..Slots /\ req \in [Procs -> Trial]
      /\ IsFiniteSet(Loading) /\ held = Cardinality(Loading)
      /\ \A p \in Procs : TrialOK(req[p], catalog, settled)
  BY TrialParts
<1>2. Loading' = Loading
  BY DEF Loading
<1>3. \A p \in Procs : TrialOK(req'[p], catalog', settled')
  BY <1>1 DEF TrialOK, Quiet
<1>. QED  BY <1>1, <1>2, <1>3, TrialPartsNext

-----------------------------------------------------------------------------
(* The theorems                                                            *)

\* Nobody has asked yet.
LEMMA TrialInit == Init => TrialInv
<1>. SUFFICES ASSUME Init PROVE TrialInv
  OBVIOUS
<1>. USE DEF Init
<1>1. /\ IdleTrial \in Trial /\ IdleTrial.act = Nil /\ IdleTrial.sku = Nil
      /\ IdleTrial.pc = "idle" /\ IdleTrial.code = Nil /\ IdleTrial.quiet = FALSE
  BY DEF IdleTrial, Trial, ActLoader, SkuLoader
<1>2. Sound(IdleTrial) /\ Priced(IdleTrial) /\ Quiet(IdleTrial, catalog, settled)
  BY <1>1, NilAssumption DEF Sound, Priced, Quiet, Codes
<1>3. \A p \in Procs : req[p] = IdleTrial
  OBVIOUS
<1>4. Loading = {}
  BY <1>1, <1>3 DEF Loading
<1>5. IsFiniteSet(Loading) /\ Cardinality(Loading) = 0
  BY <1>4, FS_EmptySet
<1>6. held \in 0..Slots /\ edits \in 0..MaxEdits
  BY SlotsAssumption
<1>7. req \in [Procs -> Trial]
  BY <1>1
<1>. QED  BY <1>2, <1>3, <1>5, <1>6, <1>7, TrialParts DEF TrialOK

\* The invariant holds in every state, whatever trials overlap, whichever of
\* their statements fail and whatever changes under them.
THEOREM TrialInvariance == Spec => []TrialInv
<1>1. ASSUME TrialInv, [Next]_vars PROVE TrialInv'
  <2>1. /\ cut \in Cuts /\ downgrade \in BOOLEAN /\ settled \in BOOLEAN
        /\ edits \in 0..MaxEdits
    BY <1>1, TrialParts
  <2>2. CASE UNCHANGED vars
    BY <1>1, <2>1, <2>2, SettingsPreserve DEF vars
  <2>3. CASE SetDowngrade \/ (\E c \in Cuts : SetCutRange(c))
    <3>1. edits' \in 0..MaxEdits
      BY <2>1, <2>3, SlotsAssumption DEF SetDowngrade, SetCutRange, Edit
    <3>2. /\ UNCHANGED <<catalog, held, req, settled>>
          /\ cut' \in Cuts /\ downgrade' \in BOOLEAN
      BY <2>1, <2>3 DEF SetDowngrade, SetCutRange
    <3>. QED  BY <1>1, <2>1, <3>1, <3>2, SettingsPreserve
  <2>4. CASE Settle
    BY <1>1, <2>1, <2>4, SettingsPreserve DEF Settle
  <2>5. ASSUME NEW p \in Procs,
               \/ \E u \in Users, kind \in Kinds : Start(p, u, kind)
               \/ SwitchNode(p) \/ Acquire(p) \/ AcquireFails(p) \/ Load(p) \/ Wait(p)
               \/ Calculate(p) \/ TagNode(p) \/ QuestionFails(p) \/ Return(p)
        PROVE  TrialInv'
    BY <1>1, <2>5, StartPreserves, SwitchPreserves, AcquirePreserves, LoadPreserves,
       WaitPreserves, CalculatePreserves, TagPreserves, EndPreserves
  <2>6. ASSUME NEW c \in Catalogs, EditCatalog(c) PROVE TrialInv'
    BY <1>1, <2>6, EditPreserves
  <2>. QED  BY <1>1, <2>2, <2>3, <2>4, <2>5, <2>6 DEF Next
<1>. QED  BY <1>1, TrialInit, PTL DEF Spec

\* Every trial keeps its shape, the semaphore its bounds, and a trial is answered
\* exactly when it has a code of the documented set.
THEOREM TrialTypeCorrect == Spec => []TypeOK
<1>1. TrialInv => TypeOK
  BY DEF TrialInv
<1>. QED  BY <1>1, TrialInvariance, PTL

\* At most two goroutines run for each slot, for any number of trials.
THEOREM LoadersBoundedCorrect == Spec => []LoadersBounded
<1>1. ASSUME TrialInv PROVE LoadersBounded
  <2>. DEFINE A == {p \in Procs : req[p].act # Nil}
              S == {p \in Procs : req[p].sku # Nil}
  <2>1. /\ IsFiniteSet(Loading) /\ held = Cardinality(Loading) /\ held \in 0..Slots
        /\ A \in SUBSET Loading /\ S \in SUBSET Loading
    BY <1>1 DEF TrialInv, TypeOK, SlotsCounted, Loading
  <2>. HIDE DEF A, S
  <2>2. IsFiniteSet(A) /\ Cardinality(A) <= Cardinality(Loading)
    BY <2>1, FS_Subset
  <2>3. IsFiniteSet(S) /\ Cardinality(S) <= Cardinality(Loading)
    BY <2>1, FS_Subset
  <2>4. Cardinality(A) \in Nat /\ Cardinality(S) \in Nat
    BY <2>2, <2>3, FS_CardinalityType
  <2>5. Cardinality(A) + Cardinality(S) <= 2 * Slots
    BY <2>1, <2>2, <2>3, <2>4, SlotsAssumption
  <2>. QED  BY <2>5 DEF LoadersBounded, A, S
<1>. QED  BY <1>1, TrialInvariance, PTL

\* Where products cost something, reductions are not negative and ratios at most
\* 1, every plan but the fixed price N computes a price between a cent and the
\* product's price, whichever rows a trial has mixed and however large prices and
\* reductions are.
THEOREM PriceBoundedCorrect ==
  ASSUME \A c \in Catalogs : Reasonable(c)
  PROVE  Spec => []PriceBounded
<1>1. TrialInv => PriceBounded
  BY DEF TrialInv
<1>. QED  BY <1>1, TrialInvariance, PTL

\* With scopes as the column is meant for, a trial under which nothing changed
\* answers what belongs to the catalog and the user.
THEOREM QuietTrialCorrect ==
  ASSUME \A c \in Catalogs : WellScoped(c)
  PROVE  Spec => []QuietTrialIsExact
<1>1. TrialInv => QuietTrialIsExact
  BY DEF TrialInv
<1>. QED  BY <1>1, TrialInvariance, PTL
=============================================================================
