------------------------ MODULE SalesProjectionProofs ------------------------
(***************************************************************************)
(* Proofs about orders and their stock (OrderStock, and the behaviours of  *)
(* SalesProjection, which start with orders older than the ledger) and     *)
(* about analytics (SalesProjection), for every finite set of orders,      *)
(* every set of menu items, ingredients, keys and days and every price:    *)
(* orders are accounted for, the daily sales are what the orders table     *)
(* says, a rebuild is always possible, and nothing that analytics knows of *)
(* an order goes back.                                                     *)
(*                                                                         *)
(* OInv binds each order to the ledger.  SInv adds what binds an order to  *)
(* its contribution: which of its events announce its end (Ended), and     *)
(* that a contribution is never ahead of the order, counts a completion    *)
(* only where there was one, and owes nothing to the events that were      *)
(* handled (Followed).                                                     *)
(***************************************************************************)
EXTENDS SalesProjection, InventoryLedgerProofs, FiniteSetTheorems,
        NaturalsInduction, WellFoundedInduction

-----------------------------------------------------------------------------
(* Sums over finite sets.  The library's induction theorems take an        *)
(* operator; a set of naturals is one object, and serves as well.          *)

\* A set of naturals that holds 0 and with a number its successor holds all.
LEMMA NaturalInduction ==
  ASSUME NEW N, 0 \in N, \A n \in Nat : n \in N => n + 1 \in N
  PROVE  Nat \subseteq N
  <1> SUFFICES ASSUME Nat \ N # {}
               PROVE  FALSE
    OBVIOUS
  <1>1. PICK n \in Nat \ N : \A m \in Nat \ N : ~(<<m, n>> \in OpToRel(<, Nat))
    <2>1. IsWellFoundedOn(OpToRel(<, Nat), Nat)
      BY NatLessThanWellFounded
    <2> DEFINE R == OpToRel(<, Nat)
    <2> HIDE DEF R
    <2>2. IsWellFoundedOn(R, Nat)
      BY <2>1 DEF R
    <2>3. Nat \ N \subseteq Nat
      OBVIOUS
    <2>4. \E x \in Nat \ N : \A y \in Nat \ N : ~(<<y, x>> \in R)
      BY <2>2, <2>3, WFMin
    <2> QED
      BY <2>4 DEF R
  <1>2. \A m \in Nat \ N : ~(m < n)
    BY <1>1 DEF OpToRel
  <1>3. n # 0 /\ n - 1 \in Nat
    OBVIOUS
  <1>4. n - 1 \in N
    BY <1>2, <1>3
  <1> QED
    BY <1>3, <1>4

\* The element MapThenSumSet takes away first.
Chosen(s) == CHOOSE x \in s : TRUE

\* g sums w over every subset of S, taking elements away one by one.
Sums(g, w, S) ==
    g = [s \in SUBSET S |-> IF s = {} THEN 0 ELSE w[Chosen(s)] + g[s \ {Chosen(s)}]]

\* w gives each element of S a natural weight.
Weighs(w, S) == \A x \in S : w[x] \in Nat

\* It is an element.
LEMMA ChosenIn == \A s : s # {} => Chosen(s) \in s
  BY DEF Chosen

\* A part of a finite set without its chosen element.
LEMMA PartSmaller ==
  ASSUME NEW S, IsFiniteSet(S), NEW s \in SUBSET S, NEW x \in s
  PROVE  /\ s \ {x} \in SUBSET S /\ IsFiniteSet(s) /\ Cardinality(s) \in Nat
         /\ Cardinality(s) > 0 /\ Cardinality(s \ {x}) = Cardinality(s) - 1
  <1>1. IsFiniteSet(s)
    BY FS_Subset
  <1>2. Cardinality(s) \in Nat /\ Cardinality(s) # 0
    BY <1>1, FS_CardinalityType, FS_EmptySet
  <1>3. Cardinality(s \ {x}) = Cardinality(s) - 1
    BY <1>1, FS_RemoveElement
  <1> QED
    BY <1>1, <1>2, <1>3

\* There is such a function.
LEMMA SumsExist ==
  ASSUME NEW S, IsFiniteSet(S), NEW w
  PROVE  \E g : Sums(g, w, S)
  <1> DEFINE Layer(n) == {s \in SUBSET S : Cardinality(s) <= n}
             Part(g, n) == g = [s \in Layer(n) |-> IF s = {} THEN 0
                                                   ELSE w[Chosen(s)] + g[s \ {Chosen(s)}]]
             N == {n \in Nat : \E g : Part(g, n)}
  <1>1. \A s \in SUBSET S : /\ IsFiniteSet(s) /\ Cardinality(s) \in Nat
                            /\ Cardinality(s) = 0 <=> s = {}
    BY FS_Subset, FS_CardinalityType, FS_EmptySet
  <1>2. 0 \in N
    <2> DEFINE g == [s \in Layer(0) |-> 0]
    <2>1. \A s \in Layer(0) : s = {}
      BY <1>1
    <2>2. Part(g, 0)
      BY <2>1
    <2> QED
      BY <2>2
  <1>3. ASSUME NEW n \in Nat, n \in N
        PROVE  n + 1 \in N
    <2>1. PICK g : Part(g, n)
      BY <1>3
    <2> DEFINE h == [s \in Layer(n + 1) |-> IF s = {} THEN 0
                                            ELSE w[Chosen(s)] + g[s \ {Chosen(s)}]]
    <2>2. ASSUME NEW s \in Layer(n + 1), s # {}
          PROVE  s \ {Chosen(s)} \in Layer(n) /\ s \ {Chosen(s)} \in Layer(n + 1)
      <3>1. Chosen(s) \in s
        BY <2>2, ChosenIn
      <3> QED
        BY <1>1, <3>1, PartSmaller
    <2>3. ASSUME NEW t \in Layer(n), t \in Layer(n + 1)
          PROVE  h[t] = g[t]
      <3>1. g[t] = IF t = {} THEN 0 ELSE w[Chosen(t)] + g[t \ {Chosen(t)}]
        BY <2>1
      <3> QED
        BY <2>3, <3>1
    <2>4. \A s \in Layer(n + 1) : s # {} => h[s \ {Chosen(s)}] = g[s \ {Chosen(s)}]
      BY <2>2, <2>3
    <2>5. Part(h, n + 1)
      <3> DEFINE Value(s) == IF s = {} THEN 0 ELSE w[Chosen(s)] + h[s \ {Chosen(s)}]
      <3>1. \A s \in Layer(n + 1) : h[s] = Value(s)
        BY <2>4
      <3>2. h = [s \in Layer(n + 1) |-> h[s]]
        OBVIOUS
      <3> HIDE DEF Layer, h, Value
      <3>3. h = [s \in Layer(n + 1) |-> Value(s)]
        BY <3>1, <3>2
      <3> QED
        BY <3>3 DEF Value
    <2> HIDE DEF Part, h
    <2> QED
      BY <2>5
  <1>4. Nat \subseteq N
    <2> HIDE DEF N
    <2> QED
      BY <1>2, <1>3, NaturalInduction
  <1>5. Layer(Cardinality(S)) = SUBSET S
    <2>1. \A s \in SUBSET S : Cardinality(s) <= Cardinality(S)
      BY FS_Subset
    <2> QED
      BY <2>1
  <1>6. Cardinality(S) \in N
    BY <1>1, <1>4
  <1>7. PICK g : Part(g, Cardinality(S))
    BY <1>6
  <1>8. g = [s \in SUBSET S |-> IF s = {} THEN 0 ELSE w[Chosen(s)] + g[s \ {Chosen(s)}]]
    <2> HIDE DEF Layer
    <2> QED
      BY <1>5, <1>7
  <1> QED
    BY <1>8 DEF Sums
\* What the equation says of each set.
LEMMA SumsStep ==
  ASSUME NEW S, NEW w, NEW g, Sums(g, w, S)
  PROVE  g[{}] = 0 /\ \A s \in SUBSET S : s # {} => g[s] = w[Chosen(s)] + g[s \ {Chosen(s)}]
  BY DEF Sums

\* Sums of naturals are naturals.
LEMMA SumsNatural ==
  ASSUME NEW S, IsFiniteSet(S), NEW w, Weighs(w, S), NEW g, Sums(g, w, S)
  PROVE  \A s \in SUBSET S : g[s] \in Nat
  <1> DEFINE N == {n \in Nat : \A s \in SUBSET S : Cardinality(s) = n => g[s] \in Nat}
  <1>1. \A s \in SUBSET S : /\ IsFiniteSet(s) /\ Cardinality(s) \in Nat
                            /\ Cardinality(s) = 0 <=> s = {}
    BY FS_Subset, FS_CardinalityType, FS_EmptySet
  <1>2. 0 \in N
    BY <1>1, SumsStep
  <1>3. ASSUME NEW n \in Nat, n \in N
        PROVE  n + 1 \in N
    <2>1. ASSUME NEW s \in SUBSET S, Cardinality(s) = n + 1
          PROVE  g[s] \in Nat
      <3>1. PICK c : c = Chosen(s)
        OBVIOUS
      <3>2. s # {} /\ c \in s
        BY <1>1, <2>1, <3>1, ChosenIn
      <3>5. g[s] = w[c] + g[s \ {c}]
        BY <3>1, <3>2, SumsStep
      <3>3. s \ {c} \in SUBSET S /\ Cardinality(s \ {c}) = n
        BY <2>1, <3>2, PartSmaller
      <3>4. g[s \ {c}] \in Nat
        BY <1>3, <3>3
      <3> QED
        BY <3>2, <3>4, <3>5 DEF Weighs
    <2> QED
      BY <2>1
  <1>4. Nat \subseteq N
    <2> HIDE DEF N
    <2> QED
      BY <1>2, <1>3, NaturalInduction
  <1> QED
    BY <1>1, <1>4

\* The order in which elements are taken does not matter.
LEMMA SumsTake ==
  ASSUME NEW S, IsFiniteSet(S), NEW w, Weighs(w, S), NEW g, Sums(g, w, S),
         NEW r \in SUBSET S, NEW y \in r
  PROVE  g[r] = w[y] + g[r \ {y}]
  <1> DEFINE N == {n \in Nat : \A s \in SUBSET S : Cardinality(s) = n =>
                                \A x \in s : g[s] = w[x] + g[s \ {x}]}
  <1>1. \A s \in SUBSET S : /\ IsFiniteSet(s) /\ Cardinality(s) \in Nat
                            /\ Cardinality(s) = 0 <=> s = {}
    BY FS_Subset, FS_CardinalityType, FS_EmptySet
  <1>2. 0 \in N
    BY <1>1
  <1>3. ASSUME NEW n \in Nat, n \in N
        PROVE  n + 1 \in N
    <2>1. ASSUME NEW s \in SUBSET S, Cardinality(s) = n + 1, NEW x \in s
          PROVE  g[s] = w[x] + g[s \ {x}]
      <3>1. PICK c : c = Chosen(s)
        OBVIOUS
      <3>2. s # {} /\ c \in s
        BY <2>1, <3>1, ChosenIn
      <3>5. g[s] = w[c] + g[s \ {c}]
        BY <3>1, <3>2, SumsStep
      <3>3. CASE c = x
        BY <3>3, <3>5
      <3>4. CASE c # x
        <4>1. /\ s \ {c} \in SUBSET S /\ Cardinality(s \ {c}) = n
              /\ s \ {x} \in SUBSET S /\ Cardinality(s \ {x}) = n
          BY <2>1, <3>2, PartSmaller
        <4>2. /\ g[s \ {c}] = w[x] + g[(s \ {c}) \ {x}]
              /\ g[s \ {x}] = w[c] + g[(s \ {x}) \ {c}]
          BY <1>3, <3>2, <3>4, <4>1
        <4>3. (s \ {c}) \ {x} = (s \ {x}) \ {c}
          OBVIOUS
        <4>4. PICK t : t = g[(s \ {c}) \ {x}] /\ t = g[(s \ {x}) \ {c}]
          BY <4>3
        <4>5. w[x] \in Nat /\ w[c] \in Nat /\ t \in Nat
          <5>1. (s \ {c}) \ {x} \in SUBSET S
            OBVIOUS
          <5>2. g[(s \ {c}) \ {x}] \in Nat
            BY <5>1, SumsNatural
          <5> QED
            BY <3>2, <4>4, <5>2 DEF Weighs
        <4>6. g[s] = w[c] + (w[x] + t) /\ g[s \ {x}] = w[c] + t
          BY <3>5, <4>2, <4>4
        <4> QED
          BY <4>5, <4>6
      <3> QED
        BY <3>3, <3>4
    <2> QED
      BY <2>1
  <1>4. Nat \subseteq N
    <2> HIDE DEF N
    <2> QED
      BY <1>2, <1>3, NaturalInduction
  <1> QED
    BY <1>1, <1>4

\* What weighs nothing can be left out.
LEMMA SumsSkip ==
  ASSUME NEW S, IsFiniteSet(S), NEW w, Weighs(w, S), NEW g, Sums(g, w, S),
         NEW t \in SUBSET S
  PROVE  \A s \in SUBSET S : t \subseteq s /\ (\A x \in s \ t : w[x] = 0) => g[s] = g[t]
  <1> DEFINE N == {n \in Nat : \A s \in SUBSET S :
                       Cardinality(s) = n /\ t \subseteq s /\ (\A x \in s \ t : w[x] = 0)
                           => g[s] = g[t]}
  <1>1. \A s \in SUBSET S : /\ IsFiniteSet(s) /\ Cardinality(s) \in Nat
                            /\ Cardinality(s) = 0 <=> s = {}
    BY FS_Subset, FS_CardinalityType, FS_EmptySet
  <1>2. 0 \in N
    BY <1>1
  <1>3. ASSUME NEW n \in Nat, n \in N
        PROVE  n + 1 \in N
    <2>1. ASSUME NEW s \in SUBSET S, Cardinality(s) = n + 1, t \subseteq s,
                 \A x \in s \ t : w[x] = 0
          PROVE  g[s] = g[t]
      <3>1. CASE s = t
        BY <3>1
      <3>2. CASE s # t
        <4>1. PICK x \in s \ t : TRUE
          BY <2>1, <3>2
        <4>2. s \ {x} \in SUBSET S /\ Cardinality(s \ {x}) = n
          BY <2>1, PartSmaller
        <4>3. g[s \ {x}] = g[t]
          BY <1>3, <2>1, <4>2
        <4>4. g[s] = w[x] + g[s \ {x}]
          BY <4>1, SumsTake
        <4>5. g[t] \in Nat
          BY SumsNatural
        <4> QED
          BY <2>1, <4>1, <4>3, <4>4, <4>5
      <3> QED
        BY <3>1, <3>2
    <2> QED
      BY <2>1
  <1>4. Nat \subseteq N
    <2> HIDE DEF N
    <2> QED
      BY <1>2, <1>3, NaturalInduction
  <1> QED
    BY <1>1, <1>4

\* Sums of the same weights over a set and over a part of it agree.
LEMMA SumsAgree ==
  ASSUME NEW S, IsFiniteSet(S), NEW T \in SUBSET S, NEW w, NEW g, Sums(g, w, S),
         NEW h, Sums(h, w, T)
  PROVE  \A s \in SUBSET T : h[s] = g[s]
  <1> DEFINE N == {n \in Nat : \A s \in SUBSET T : Cardinality(s) = n => h[s] = g[s]}
  <1>1. \A s \in SUBSET S : /\ IsFiniteSet(s) /\ Cardinality(s) \in Nat
                            /\ Cardinality(s) = 0 <=> s = {}
    BY FS_Subset, FS_CardinalityType, FS_EmptySet
  <1>2. 0 \in N
    BY <1>1, SumsStep
  <1>3. ASSUME NEW n \in Nat, n \in N
        PROVE  n + 1 \in N
    <2>1. ASSUME NEW s \in SUBSET T, Cardinality(s) = n + 1
          PROVE  h[s] = g[s]
      <3>1. PICK c : c = Chosen(s)
        OBVIOUS
      <3>2. s \in SUBSET S /\ s # {} /\ c \in s
        BY <1>1, <2>1, <3>1, ChosenIn
      <3>3. h[s] = w[c] + h[s \ {c}]
        BY <3>1, <3>2, SumsStep
      <3>4. g[s] = w[c] + g[s \ {c}]
        BY SMTT(30), <3>1, <3>2, SumsStep
      <3>5. s \ {c} \in SUBSET T /\ Cardinality(s \ {c}) = n
        BY <2>1, <3>2, PartSmaller
      <3> QED
        BY <1>3, <3>3, <3>4, <3>5
    <2> QED
      BY <2>1
  <1>4. Nat \subseteq N
    <2> HIDE DEF N
    <2> QED
      BY <1>2, <1>3, NaturalInduction
  <1> QED
    BY <1>1, <1>4

\* The fold behind SumOver sums its weights.
LEMMA SumOverSums ==
  ASSUME NEW S, IsFiniteSet(S), NEW w
  PROVE  \E g : Sums(g, w, S) /\ SumOver(w, S) = g[S]
  <1> DEFINE Equation(g) == g = [s \in SUBSET S |-> IF s = {} THEN 0
                                 ELSE w[Chosen(s)] + g[s \ {Chosen(s)}]]
             iter == CHOOSE g : Equation(g)
  <1>1. \A g : Sums(g, w, S) <=> Equation(g)
    BY DEF Sums
  <1>2. \E g : Sums(g, w, S)
    BY SumsExist
  <1>3. Equation(iter)
    <2> HIDE DEF Equation
    <2> QED
      BY <1>1, <1>2
  <1>4. Sums(iter, w, S)
    <2> HIDE DEF Equation, iter
    <2> QED
      BY <1>1, <1>3
  <1>5. SumOver(w, S) = iter[S]
    BY DEF SumOver, MapThenSumSet, MapThenFoldSet, Chosen
  <1> QED
    <2> HIDE DEF iter
    <2> QED
      BY <1>4, <1>5

\* A sum of naturals is one.
LEMMA SumOverNatural ==
  ASSUME NEW S, IsFiniteSet(S), NEW w, Weighs(w, S)
  PROVE  SumOver(w, S) \in Nat
  <1>1. PICK g : Sums(g, w, S) /\ SumOver(w, S) = g[S]
    BY SumOverSums
  <1>2. S \in SUBSET S
    OBVIOUS
  <1> QED
    BY <1>1, <1>2, SumsNatural

\* A sum, one element first.
LEMMA SumOverTake ==
  ASSUME NEW S, IsFiniteSet(S), NEW w, Weighs(w, S), NEW y \in S
  PROVE  SumOver(w, S) = w[y] + SumOver(w, S \ {y})
  <1>1. PICK T : T = S \ {y}
    OBVIOUS
  <1>2. T \in SUBSET S /\ IsFiniteSet(T) /\ S \in SUBSET S /\ T \in SUBSET T
    BY <1>1, FS_Subset
  <1>3. PICK g : Sums(g, w, S) /\ SumOver(w, S) = g[S]
    BY SumOverSums
  <1>4. PICK h : Sums(h, w, T) /\ SumOver(w, T) = h[T]
    BY <1>2, SumOverSums
  <1>5. h[T] = g[T]
    BY <1>2, <1>3, <1>4, SumsAgree
  <1>6. g[S] = w[y] + g[T]
    BY <1>1, <1>2, <1>3, SumsTake
  <1> QED
    BY <1>1, <1>3, <1>4, <1>5, <1>6

\* Only the weights of a set's elements count.
LEMMA SumOverSame ==
  ASSUME NEW S, IsFiniteSet(S), NEW w, NEW v, \A x \in S : w[x] = v[x]
  PROVE  SumOver(w, S) = SumOver(v, S)
  <1>1. PICK g : Sums(g, w, S) /\ SumOver(w, S) = g[S]
    BY SumOverSums
  <1>2. PICK h : Sums(h, v, S) /\ SumOver(v, S) = h[S]
    BY SumOverSums
  <1>3. Sums(g, v, S)
    <2> DEFINE Sum(u, s) == IF s = {} THEN 0 ELSE u[Chosen(s)] + g[s \ {Chosen(s)}]
    <2>1. \A s \in SUBSET S : Sum(w, s) = Sum(v, s)
      BY ChosenIn
    <2>2. g = [s \in SUBSET S |-> Sum(w, s)]
      BY <1>1 DEF Sums
    <2>3. Sums(g, v, S) <=> g = [s \in SUBSET S |-> Sum(v, s)]
      BY DEF Sums
    <2> HIDE DEF Sum
    <2> QED
      BY <2>1, <2>2, <2>3
  <1>4. h[S] = g[S]
    BY <1>2, <1>3, SumsAgree
  <1> QED
    BY <1>1, <1>2, <1>4

-----------------------------------------------------------------------------
(* The inductive invariant *)

AnyBasket == [MenuItems -> 0..MaxPortions]
AnyStatus == OrderStatuses \cup {"absent", "deleted"}
OrderRec == [status: AnyStatus, basket: AnyBasket, revision: Nat, processed: BOOLEAN,
             detail: 0..MaxDetail, key: OrderKeys \cup {NoKey}]
SubmissionRec == [used: BOOLEAN, order: Orders \cup {NoOrder}]
OrderEventRec == [type: {"submitted", "accepted", "completed", "cancelled", "deleted"},
                  revision: Nat, basket: AnyBasket]
ItemRec == [state: {"absent", "live", "deleted"}, available: BOOLEAN, tracked: BOOLEAN,
            recipe: Recipes]
Os == Orders \cup {NoOrder}

OrdersTyped ==
    /\ order \in [Orders -> OrderRec]
    /\ submission \in [OrderKeys -> SubmissionRec]
    /\ orderEvents \in [Orders -> Seq(OrderEventRec)]
    /\ menuItem \in [MenuItems -> ItemRec]

\* A submission keeps its key used, whatever happens to its order.
KeysHeld ==
    /\ \A k \in OrderKeys : submission[k].order # NoOrder =>
         submission[k].used /\ Exists(submission[k].order)
    /\ \A o \in Orders : order[o].key # NoKey =>
         order[o].key \in OrderKeys /\ submission[order[o].key].used
    /\ OneOrderPerKey

\* What an order took, by its movements and by inventory_processed_at.
Charged(o) ==
    /\ \A i \in Ingredients : \A x, y \in DOMAIN movements[i] :
         movements[i][x].order = o /\ movements[i][y].order = o => x = y
    /\ \A i \in Ingredients : \A x \in DOMAIN movements[i] :
         movements[i][x].order = o => Exists(o) /\ order[o].processed
    /\ order[o].status \in {"ACCEPTED", "PREPARING", "READY", "COMPLETED"} =>
         order[o].processed \/ order[o].key = NoKey
    /\ order[o].status \in {"absent", "DRAFT", "SUBMITTED"} => ~order[o].processed

\* Drafts are announced nowhere, and a deletion is announced last.
Told(o) ==
    LET e == orderEvents[o]
    IN /\ order[o].status \in {"absent", "DRAFT"} => e = <<>>
       /\ \A x, y \in 1 .. Len(e) : x < y => e[x].revision < e[y].revision
       /\ \A x \in 1 .. Len(e) :
            IF e[x].type = "deleted" THEN x = Len(e) /\ ~Exists(o)
            ELSE e[x].revision <= order[o].revision /\ e[x].basket = order[o].basket

\* The lines of an order have their menu items.
LinesRemain(o) ==
    \A m \in MenuItems : Exists(o) /\ order[o].basket[m] > 0 => menuItem[m].state = "live"

OInv ==
    /\ LInv(Os)
    /\ OrdersTyped
    /\ KeysHeld
    /\ \A o \in Orders : Charged(o) /\ Told(o) /\ LinesRemain(o)

-----------------------------------------------------------------------------
(* Statuses and quantities *)

\* ORDER_TRANSITIONS, read backwards.
LEMMA Transitions ==
  /\ OrderStatuses = {"DRAFT", "SUBMITTED", "ACCEPTED", "PREPARING", "READY",
                      "COMPLETED", "CANCELLED"}
  /\ \A c, s \in OrderStatuses : MayBecome(c, s) =>
       /\ s = "DRAFT" => c = "DRAFT"
       /\ s = "SUBMITTED" => c \in {"DRAFT", "SUBMITTED"}
       /\ s = "ACCEPTED" => c \in {"SUBMITTED", "ACCEPTED"}
       /\ s \in {"PREPARING", "READY", "COMPLETED"} =>
            c \in {"ACCEPTED", "PREPARING", "READY", "COMPLETED"}
  <1>1. OrderStatuses = {"DRAFT", "SUBMITTED", "ACCEPTED", "PREPARING", "READY",
                         "COMPLETED", "CANCELLED"}
    BY DEF OrderStatuses, ORDER_TRANSITIONS
  <1>2. /\ ORDER_TRANSITIONS["DRAFT"] = {"SUBMITTED", "CANCELLED"}
        /\ ORDER_TRANSITIONS["SUBMITTED"] = {"ACCEPTED", "CANCELLED"}
        /\ ORDER_TRANSITIONS["ACCEPTED"] = {"PREPARING", "CANCELLED"}
        /\ ORDER_TRANSITIONS["PREPARING"] = {"READY", "CANCELLED"}
        /\ ORDER_TRANSITIONS["READY"] = {"COMPLETED", "CANCELLED"}
        /\ ORDER_TRANSITIONS["COMPLETED"] = {} /\ ORDER_TRANSITIONS["CANCELLED"] = {}
    BY DEF ORDER_TRANSITIONS
  <1> HIDE DEF ORDER_TRANSITIONS
  <1> QED
    BY <1>1, <1>2 DEF MayBecome

\* The statuses that are announced, and how.
LEMMA Announcements ==
  /\ DOMAIN Announced = {"SUBMITTED", "ACCEPTED", "COMPLETED", "CANCELLED"}
  /\ \A s \in DOMAIN Announced :
       Announced[s] \in {"submitted", "accepted", "completed", "cancelled"}
  <1>1. DOMAIN Announced = {"SUBMITTED", "ACCEPTED", "COMPLETED", "CANCELLED"}
    BY DEF Announced
  <1>2. /\ Announced["SUBMITTED"] = "submitted" /\ Announced["ACCEPTED"] = "accepted"
        /\ Announced["COMPLETED"] = "completed" /\ Announced["CANCELLED"] = "cancelled"
    BY DEF Announced
  <1> QED
    BY <1>1, <1>2

\* Recipes ask for naturals.
LEMMA NeedNatural ==
  ASSUME OrdersTyped, NEW b \in AnyBasket, NEW i \in Ingredients
  PROVE  Need(b, i) \in [MenuItems -> Nat]
  <1> SUFFICES ASSUME NEW m \in MenuItems
               PROVE  b[m] * menuItem[m].recipe[i] \in Nat
    BY DEF Need
  <1>1. b[m] \in 0..MaxPortions /\ MaxPortions \in Nat /\ MaxNeed \in Nat
    BY OrderAssumption DEF AnyBasket
  <1>2. menuItem[m].recipe \in Recipes
    BY DEF OrdersTyped, ItemRec
  <1>3. menuItem[m].recipe[i] \in 0..MaxNeed
    BY <1>2 DEF Recipes
  <1>4. \A x, y \in Nat : x * y \in Nat
    OBVIOUS
  <1> QED
    BY <1>1, <1>3, <1>4

\* What _stock_rows requires is a natural quantity, and nothing of untracked
\* items: items that are not in the basket do not change it.
LEMMA RequiredNatural ==
  ASSUME OrdersTyped, NEW b \in AnyBasket, NEW i \in Ingredients
  PROVE  /\ Required(b)[i] \in Nat
         /\ Required(b)[i] = SumOver(Need(b, i), {m \in MenuItems : menuItem[m].tracked})
  <1> DEFINE w == Need(b, i)
             T == Tracked(b)
             U == {m \in MenuItems : menuItem[m].tracked}
  <1>1. w \in [MenuItems -> Nat] /\ T \in SUBSET U /\ U \in SUBSET MenuItems
    BY NeedNatural DEF Tracked
  <1>2. \A m \in U \ T : w[m] = 0
    <2>1. ASSUME NEW m \in U \ T
          PROVE  b[m] * menuItem[m].recipe[i] = 0
      <3>1. b[m] \in 0..MaxPortions /\ MaxPortions \in Nat /\ MaxNeed \in Nat
        BY OrderAssumption DEF AnyBasket
      <3>2. b[m] = 0
        BY <2>1, <3>1 DEF Tracked
      <3>3. menuItem[m].recipe \in Recipes
        BY <2>1 DEF OrdersTyped, ItemRec
      <3>4. menuItem[m].recipe[i] \in Nat
        BY <3>1, <3>3 DEF Recipes
      <3> QED
        BY <3>2, <3>4
    <2> QED
      BY <2>1 DEF Need
  <1>3. IsFiniteSet(U)
    BY <1>1, FS_Subset, OrderAssumption
  <1>4. Required(b)[i] = SumOver(Need(b, i), T)
    BY DEF Required
  <1> HIDE DEF w, U, T
  <1>5. T \in SUBSET MenuItems /\ Weighs(w, U)
    BY <1>1 DEF Weighs
  <1>6. PICK h : Sums(h, w, T) /\ SumOver(Need(b, i), T) = h[T]
    <2>1. IsFiniteSet(T)
      BY <1>1, <1>3, FS_Subset
    <2> QED
      BY <2>1, SumOverSums DEF w
  <1>7. PICK g : Sums(g, w, U) /\ SumOver(Need(b, i), U) = g[U]
    BY <1>3, SumOverSums DEF w
  <1>8. h[T] = g[T]
    BY <1>1, <1>3, <1>6, <1>7, SumsAgree
  <1>9. g[U] = g[T]
    BY <1>1, <1>2, <1>3, <1>5, <1>7, SumsSkip
  <1>10. g[T] \in Nat
    BY <1>1, <1>3, <1>5, <1>7, SumsNatural
  <1> QED
    BY <1>4, <1>6, <1>7, <1>8, <1>9, <1>10 DEF U

-----------------------------------------------------------------------------
(* Rows and announcements *)

\* What one write leaves of each order, given the row it writes.
Wrote(o, row) ==
    /\ order' = [order EXCEPT ![o] = row]
    /\ orderEvents' \in [Orders -> Seq(OrderEventRec)]
    /\ \A p \in Orders : p # o => orderEvents'[p] = orderEvents[p]

\* The orders a write leaves alone stay as they were told.
LEMMA OthersTold ==
  ASSUME OInv, NEW o \in Orders, NEW row, Wrote(o, row), NEW p \in Orders, p # o
  PROVE  order'[p] = order[p] /\ Told(p)'
  <1>1. order'[p] = order[p] /\ orderEvents'[p] = orderEvents[p]
    BY DEF Wrote, OInv, OrdersTyped
  <1>2. Told(p)
    BY DEF OInv
  <1> QED
    BY <1>1, <1>2 DEF Told, Exists

\* An announcement at a new revision, of the lines the order has from then on.
LEMMA Announces ==
  ASSUME OInv, NEW o \in Orders, Exists(o), NEW row \in OrderRec, Wrote(o, row),
         NEW v \in OrderEventRec, orderEvents'[o] = Append(orderEvents[o], v),
         order[o].revision < v.revision, row.basket = order[o].basket,
         order[o].revision <= row.revision, row.status \notin {"absent", "DRAFT"},
         IF v.type = "deleted" THEN row.status \notin OrderStatuses
         ELSE v.revision <= row.revision /\ v.basket = row.basket
  PROVE  Told(o)'
  <1>1. PICK e \in Seq(OrderEventRec) : e = orderEvents[o]
    BY DEF OInv, OrdersTyped
  <1>2. order'[o] = row
    BY DEF Wrote, OInv, OrdersTyped
  <1>3. /\ \A x, y \in 1 .. Len(e) : x < y => e[x].revision < e[y].revision
        /\ \A x \in 1 .. Len(e) : /\ e[x].type # "deleted"
                                  /\ e[x].revision <= order[o].revision
                                  /\ e[x].basket = order[o].basket
    BY <1>1 DEF OInv, Told
  <1>4. PICK u \in Seq(OrderEventRec) : u = Append(e, v)
    <2>1. Append(e, v) \in Seq(OrderEventRec)
      BY AppendProperties
    <2> QED
      BY <2>1
  <1>5. /\ Len(u) = Len(e) + 1 /\ Len(e) \in Nat /\ u[Len(u)] = v
        /\ \A x \in 1 .. Len(e) : u[x] = e[x]
    BY <1>4
  <1>6. \A x \in 1 .. Len(e) : e[x].revision \in Nat
    <2>1. \A x \in 1 .. Len(e) : e[x] \in OrderEventRec
      BY <1>1
    <2> QED
      BY <2>1 DEF OrderEventRec
  <1>7. order[o].revision \in Nat /\ row.revision \in Nat /\ v.revision \in Nat
    BY DEF OInv, OrdersTyped, OrderRec, OrderEventRec
  <1>8. \A x, y \in 1 .. Len(u) : x < y => u[x].revision < u[y].revision
    <2>1. ASSUME NEW x \in 1 .. Len(u), NEW y \in 1 .. Len(u), x < y
          PROVE  u[x].revision < u[y].revision
      <3>1. x \in 1 .. Len(e)
        BY <1>5, <2>1
      <3>2. CASE y \in 1 .. Len(e)
        BY <1>3, <1>5, <2>1, <3>1, <3>2
      <3>3. CASE y = Len(u)
        BY <1>3, <1>5, <1>6, <1>7, <3>1, <3>3
      <3> QED
        BY <1>5, <3>2, <3>3
    <2> QED
      BY <2>1
  <1>9. \A x \in 1 .. Len(u) :
          IF u[x].type = "deleted" THEN x = Len(u) /\ row.status \notin OrderStatuses
          ELSE u[x].revision <= row.revision /\ u[x].basket = row.basket
    <2>1. ASSUME NEW x \in 1 .. Len(e)
          PROVE  u[x].type # "deleted" /\ u[x].revision <= row.revision /\ u[x].basket = row.basket
      BY SMTT(30), <1>3, <1>5, <1>6, <1>7
    <2>2. ASSUME NEW x \in 1 .. Len(u)
          PROVE  x \in 1 .. Len(e) \/ x = Len(u)
      BY <1>5
    <2> QED
      BY <1>5, <2>1, <2>2
  <1>10. orderEvents'[o] = u
    BY <1>1, <1>4
  <1> QED
    BY <1>2, <1>8, <1>9, <1>10 DEF Told, Exists

\* A write without announcement.
LEMMA KeepsQuiet ==
  ASSUME OInv, NEW o \in Orders, NEW row \in OrderRec, Wrote(o, row),
         orderEvents'[o] = orderEvents[o], order[o].revision <= row.revision,
         row.status \in {"absent", "DRAFT"} => order[o].status \in {"absent", "DRAFT"},
         ~Exists(o) => order[o].status = "absent",
         row.basket # order[o].basket => order[o].status \in {"absent", "DRAFT"}
  PROVE  Told(o)'
  <1>1. PICK e \in Seq(OrderEventRec) : e = orderEvents[o]
    BY DEF OInv, OrdersTyped
  <1>2. order'[o] = row
    BY DEF Wrote, OInv, OrdersTyped
  <1>3. /\ order[o].status \in {"absent", "DRAFT"} => e = <<>>
        /\ \A x, y \in 1 .. Len(e) : x < y => e[x].revision < e[y].revision
        /\ \A x \in 1 .. Len(e) :
             IF e[x].type = "deleted" THEN x = Len(e) /\ ~Exists(o)
             ELSE e[x].revision <= order[o].revision /\ e[x].basket = order[o].basket
    BY <1>1 DEF OInv, Told
  <1>4. CASE e = <<>>
    <2>1. Len(e) = 0
      BY <1>4
    <2> QED
      BY <1>1, <1>2, <1>4, <2>1 DEF Told
  <1>5. CASE e # <<>>
    <2>1. Exists(o) /\ row.basket = order[o].basket /\ row.status \notin {"absent", "DRAFT"}
      BY <1>3, <1>5
    <2>2. \A x \in 1 .. Len(e) : /\ e[x].type # "deleted"
                                 /\ e[x].revision <= row.revision /\ e[x].basket = row.basket
      <3>1. \A x \in 1 .. Len(e) : e[x] \in OrderEventRec
        BY <1>1
      <3>2. order[o].revision \in Nat /\ row.revision \in Nat
        BY DEF OInv, OrdersTyped, OrderRec
      <3> QED
        BY <1>3, <2>1, <3>1, <3>2 DEF OrderEventRec
    <2> QED
      BY <1>1, <1>2, <1>3, <2>1, <2>2 DEF Told
  <1> QED
    BY <1>4, <1>5

NextRow(before, row) == [row EXCEPT !.revision = NextRevision(before, row)]

\* next_order_revision: every change of an order has a new revision.
LEMMA NextRevisionRow ==
  ASSUME NEW before \in OrderRec, NEW row \in OrderRec, row.revision = before.revision
  PROVE  LET after == NextRow(before, row)
         IN /\ after \in OrderRec
            /\ after.status = row.status /\ after.basket = row.basket /\ after.key = row.key
            /\ after.processed = row.processed /\ after.detail = row.detail
            /\ before.revision <= after.revision
            /\ row # before => after.revision = before.revision + 1
            /\ row = before => after = before
  BY DEF NextRow, NextRevision, OrderRec

\* OrderService.update: what the row and its announcement become.
LEMMA UpdatedSound ==
  ASSUME OInv, NEW o \in Orders, Exists(o), NEW row \in OrderRec, Updated(o, row),
         row.revision = order[o].revision, row.key = order[o].key,
         row.status \in OrderStatuses, MayBecome(order[o].status, row.status),
         row.basket # order[o].basket => row.status = "DRAFT"
  PROVE  \E after \in OrderRec :
           /\ Wrote(o, after) /\ order'[o] = after /\ Told(o)'
           /\ after.status = row.status /\ after.basket = row.basket /\ after.key = row.key
           /\ after.processed = row.processed
           /\ order'[o] # order[o] => after.revision = order[o].revision + 1
  <1>1. PICK before \in OrderRec : before = order[o]
    BY DEF OInv, OrdersTyped
  <1>2. PICK after : after = NextRow(before, row)
    OBVIOUS
  <1>3. /\ after \in OrderRec
        /\ after.status = row.status /\ after.basket = row.basket /\ after.key = row.key
        /\ after.processed = row.processed /\ after.detail = row.detail
        /\ before.revision <= after.revision
        /\ row # before => after.revision = before.revision + 1
        /\ row = before => after = before
    BY <1>1, <1>2, NextRevisionRow
  <1>4. /\ order' = [order EXCEPT ![o] = after]
        /\ orderEvents' =
             IF after.status # before.status /\ after.status \in DOMAIN Announced
             THEN [orderEvents EXCEPT ![o] = Append(@,
                     OrderEvent(Announced[after.status], after.revision, after.basket))]
             ELSE orderEvents
    BY <1>1, <1>2 DEF Updated, NextRow
  <1>5. /\ order \in [Orders -> OrderRec] /\ orderEvents \in [Orders -> Seq(OrderEventRec)]
        /\ order'[o] = after
    BY <1>4 DEF OInv, OrdersTyped
  <1>6. before.status \in OrderStatuses
    BY <1>1 DEF Exists
  <1>7. after.status = "DRAFT" => before.status = "DRAFT"
    BY <1>1, <1>3, <1>6, Transitions
  <1>8. after.status \notin {"absent"} /\ before.status \notin {"absent"}
    BY <1>3, <1>6, Transitions
  <1>9. CASE after.status # before.status /\ after.status \in DOMAIN Announced
    <2>1. PICK v : v = OrderEvent(Announced[after.status], after.revision, after.basket)
      OBVIOUS
    <2>2. /\ v \in OrderEventRec /\ v.type # "deleted" /\ v.revision = after.revision
          /\ v.basket = after.basket
      BY <1>3, <1>9, <2>1, Announcements DEF OrderEvent, OrderEventRec, OrderRec
    <2>3. /\ after.status # "DRAFT" /\ row # before
          /\ before.revision \in Nat /\ after.revision = before.revision + 1
          /\ after.basket = before.basket
      BY <1>1, <1>3, <1>9, Announcements DEF OrderRec
    <2>4. orderEvents' = [orderEvents EXCEPT ![o] = Append(orderEvents[o], v)]
      BY <1>4, <1>9, <2>1
    <2>5. Append(orderEvents[o], v) \in Seq(OrderEventRec)
      BY <1>5, <2>2, AppendProperties
    <2>6. Wrote(o, after) /\ orderEvents'[o] = Append(orderEvents[o], v)
      BY <1>4, <1>5, <2>4, <2>5 DEF Wrote
    <2>7. before.revision < v.revision /\ v.revision <= after.revision
      BY <2>2, <2>3
    <2>8. Told(o)'
      BY <1>1, <1>3, <1>8, <2>2, <2>3, <2>6, <2>7, Announces
    <2> QED
      BY <1>1, <1>3, <1>5, <2>6, <2>8
  <1>10. CASE ~(after.status # before.status /\ after.status \in DOMAIN Announced)
    <2>1. orderEvents' = orderEvents
      BY <1>4, <1>10
    <2>2. Wrote(o, after)
      BY <1>4, <1>5, <2>1 DEF Wrote
    <2>3. after.basket # before.basket => before.status = "DRAFT"
      BY <1>1, <1>3, <1>7
    <2>4. Told(o)'
      BY <1>1, <1>3, <1>5, <1>7, <1>8, <2>1, <2>2, <2>3, KeepsQuiet
    <2> QED
      BY <1>1, <1>3, <1>5, <2>2, <2>4
  <1> QED
    BY <1>9, <1>10

-----------------------------------------------------------------------------
(* What other writes leave alone *)

\* No step but an acceptance adds a movement to an order.
NoNewMoves ==
    \A i \in Ingredients : \A n \in DOMAIN movements'[i] :
        movements'[i][n].order \in Orders =>
            n \in DOMAIN movements[i] /\ movements[i][n].order = movements'[i][n].order

\* Orders that a step neither writes nor charges.
LEMMA ChargedStays ==
  ASSUME NEW p \in Orders, Charged(p), NoNewMoves, order'[p] = order[p]
  PROVE  Charged(p)'
  <1>1. ASSUME NEW i \in Ingredients, NEW x \in DOMAIN movements'[i],
               movements'[i][x].order = p
        PROVE  x \in DOMAIN movements[i] /\ movements[i][x].order = p
    BY <1>1 DEF NoNewMoves
  <1>2. \A i \in Ingredients : \A x, y \in DOMAIN movements'[i] :
          movements'[i][x].order = p /\ movements'[i][y].order = p => x = y
    BY <1>1 DEF Charged
  <1>3. \A i \in Ingredients : \A x \in DOMAIN movements'[i] :
          movements'[i][x].order = p => Exists(p)' /\ order'[p].processed
    BY <1>1 DEF Charged, Exists
  <1> QED
    BY <1>2, <1>3 DEF Charged

\* Stock commands and maintenance record movements of no order.
LEMMA LedgerMovesNoOrder ==
  ASSUME LInv(Os), LedgerNext
  PROVE  NoNewMoves
  <1>1. movements \in [Ingredients -> Seq(MovementRec(Os))] /\ NoOrder \notin Orders
    BY OrderAssumption DEF LInv, LedgerTyped
  <1>2. ASSUME NEW j \in Ingredients, NEW m, m.order = NoOrder,
               \/ movements' = [movements EXCEPT ![j] = Append(movements[j], m)]
               \/ movements' = [movements EXCEPT ![j] = <<m>>]
        PROVE  NoNewMoves
    <2>1. ASSUME NEW i \in Ingredients, NEW n \in DOMAIN movements'[i],
                 movements'[i][n].order \in Orders
          PROVE  n \in DOMAIN movements[i] /\ movements[i][n].order = movements'[i][n].order
      <3>1. CASE i # j
        BY <1>1, <1>2, <2>1, <3>1
      <3>2. CASE i = j /\ movements'[j] = <<m>>
        BY <1>1, <1>2, <2>1, <3>2
      <3>3. CASE i = j /\ movements'[j] = Append(movements[j], m)
        <4>1. PICK v \in Seq(MovementRec(Os)) : v = movements[j]
          BY <1>1
        <4>2. PICK u : u = Append(v, m)
          OBVIOUS
        <4>3. /\ DOMAIN u = 1 .. Len(v) + 1 /\ DOMAIN v = 1 .. Len(v) /\ Len(v) \in Nat
              /\ u[Len(v) + 1] = m /\ \A x \in 1 .. Len(v) : u[x] = v[x]
          BY <4>2
        <4>4. u = movements'[i] /\ v = movements[i]
          BY <3>3, <4>1, <4>2
        <4>5. u[n].order \in Orders
          BY <2>1, <4>4
        <4>6. n \in 1 .. Len(v)
          BY <1>1, <1>2, <2>1, <4>3, <4>4, <4>5
        <4> QED
          BY <4>3, <4>4, <4>6
      <3> QED
        BY <1>1, <1>2, <3>1, <3>2, <3>3
    <2> QED
      BY <2>1 DEF NoNewMoves
  <1>3. CASE movements' = movements
    BY <1>3 DEF NoNewMoves
  <1>4. CASE Initialize
    BY <1>3, <1>4 DEF Initialize
  <1>5. ASSUME NEW i \in Ingredients, LedgerStep(i)
        PROVE  NoNewMoves
    <2>1. ASSUME NEW q, NEW t, NEW k, CreateIngredient(i, q, t, k)
          PROVE  NoNewMoves
      <3>1. PICK m : m = Movement("opening", q, q, 1, k, NoOrder)
        OBVIOUS
      <3>2. m.order = NoOrder
        BY <3>1 DEF Movement
      <3>3. movements' = [movements EXCEPT ![i] = <<m>>]
        BY <2>1, <3>1 DEF CreateIngredient
      <3> QED
        BY <1>2, <3>2, <3>3
    <2>2. ASSUME NEW t, NEW a, UpdateIngredient(i, t, a)
          PROVE  NoNewMoves
      BY <1>3, <2>2 DEF UpdateIngredient
    <2>3. ASSUME NEW kind, NEW q, NEW k, ChangeStock(i, kind, q, k)
          PROVE  NoNewMoves
      <3>1. PICK m : m = Movement(kind, Delta(i, kind, q), ingredient[i].quantity + Delta(i, kind, q),
                                  ingredient[i].version + 1, k, NoOrder)
        OBVIOUS
      <3>2. m.order = NoOrder
        BY <3>1 DEF Movement
      <3>3. movements' = [movements EXCEPT ![i] = Append(movements[i], m)]
        BY <2>3, <3>1 DEF ChangeStock
      <3> QED
        BY <1>2, <3>2, <3>3
    <2> QED
      BY <1>5, <2>1, <2>2, <2>3 DEF LedgerStep
  <1> QED
    BY <1>4, <1>5 DEF LedgerNext

\* A write that keeps the key of its order keeps the submissions true.
LEMMA KeysStay ==
  ASSUME OInv, NEW o \in Orders, NEW row \in OrderRec, Wrote(o, row),
         submission' = submission, row.key = order[o].key, row.status \in OrderStatuses
  PROVE  KeysHeld'
  <1>1. order'[o] = row /\ \A p \in Orders : p # o => order'[p] = order[p]
    BY DEF Wrote, OInv, OrdersTyped
  <1>2. \A p \in Orders : order'[p].key = order[p].key /\ (Exists(p) => Exists(p)')
    BY <1>1 DEF Exists
  <1>3. \A k \in OrderKeys : submission[k].order \in Orders \cup {NoOrder}
    BY DEF OInv, OrdersTyped, SubmissionRec
  <1>4. KeysHeld
    BY DEF OInv
  <1> QED
    BY <1>2, <1>3, <1>4 DEF KeysHeld, OneOrderPerKey

\* Lines keep their menu items.
LEMMA LinesStay ==
  ASSUME OInv, NEW o \in Orders, NEW row \in OrderRec, Wrote(o, row), menuItem' = menuItem,
         row.status \in OrderStatuses =>
           \A m \in MenuItems : row.basket[m] > 0 => menuItem[m].state = "live"
  PROVE  \A p \in Orders : LinesRemain(p)'
  <1>1. order'[o] = row /\ \A p \in Orders : p # o => order'[p] = order[p]
    BY DEF Wrote, OInv, OrdersTyped
  <1>2. \A p \in Orders : LinesRemain(p)
    BY DEF OInv
  <1> QED
    BY <1>1, <1>2 DEF LinesRemain, Exists

\* A step that leaves the ledger alone leaves it sound.
LEMMA LedgerStays ==
  ASSUME OInv, UNCHANGED ledger
  PROVE  LInv(Os)' /\ NoNewMoves
  <1>1. LInv(Os) /\ NoOrder \in Os
    BY DEF OInv, Os
  <1>2. LInv(Os)'
    BY <1>1, LedgerNextSound
  <1>3. movements' = movements
    BY DEF ledger
  <1> QED
    BY <1>2, <1>3 DEF NoNewMoves

-----------------------------------------------------------------------------
(* The actions of orders *)

\* An update that takes no stock.
LEMMA OrderUpdateSound ==
  ASSUME OInv, NEW o \in Orders, NEW s \in OrderStatuses, NEW b \in Baskets,
         NEW d \in order[o].detail .. MaxDetail, UpdateOrder(o, s, b, d)
  PROVE  OInv' /\ (order'[o] # order[o] => /\ MayBecome(order[o].status, order'[o].status)
                                           /\ order'[o].revision = order[o].revision + 1)
  <1>1. PICK before \in OrderRec : before = order[o]
    BY DEF OInv, OrdersTyped
  <1>2. PICK row : row = [before EXCEPT !.status = s, !.basket = b, !.detail = d]
    OBVIOUS
  <1>3. /\ row.status = s /\ row.basket = b /\ row.revision = before.revision
        /\ row.processed = before.processed /\ row.key = before.key
        /\ row \in OrderRec
    <2>1. b \in AnyBasket /\ s \in AnyStatus
      BY DEF Baskets, AnyBasket, AnyStatus
    <2>2. d \in 0..MaxDetail
      BY <1>1, OrderAssumption DEF OrderRec
    <2> QED
      BY <1>1, <1>2, <2>1, <2>2 DEF OrderRec
  <1>4. /\ Exists(o) /\ MayBecome(before.status, s)
        /\ s = "ACCEPTED" => before.status = "ACCEPTED"
        /\ b # before.basket => row.status = "DRAFT" /\ Orderable(b)
        /\ Updated(o, row) /\ UNCHANGED ledger
    BY <1>1, <1>2, <1>3 DEF UpdateOrder, ItemsMutable
  <1>5. PICK after \in OrderRec :
           /\ Wrote(o, after) /\ order'[o] = after /\ Told(o)'
           /\ after.status = row.status /\ after.basket = row.basket /\ after.key = row.key
           /\ after.processed = row.processed
           /\ order'[o] # order[o] => after.revision = order[o].revision + 1
    BY <1>1, <1>3, <1>4, UpdatedSound
  <1>6. submission' = submission /\ menuItem' = menuItem
    BY <1>4 DEF Updated
  <1>7. LInv(Os)' /\ NoNewMoves
    BY <1>4, LedgerStays
  <1>8. KeysHeld'
    BY <1>1, <1>3, <1>5, <1>6, KeysStay
  <1>9. \A p \in Orders : LinesRemain(p)'
    <2>1. \A m \in MenuItems : after.basket[m] > 0 => menuItem[m].state = "live"
      BY <1>1, <1>3, <1>4, <1>5 DEF OInv, LinesRemain, Orderable
    <2> QED
      BY <1>5, <1>6, <2>1, LinesStay
  <1>10. OrdersTyped'
    <2>1. OrdersTyped
      BY DEF OInv
    <2> QED
      BY <1>5, <1>6, <2>1 DEF OrdersTyped, Wrote
  <1>11. \A p \in Orders : Told(p)'
    BY <1>5, OthersTold
  <1>12. Charged(o)'
    <2>1. Charged(o) /\ movements' = movements
      BY <1>4 DEF OInv, ledger
    <2>2. before.status \in OrderStatuses /\ after.status \in OrderStatuses
      BY <1>1, <1>3, <1>4, <1>5 DEF Exists
    <2>3. /\ after.status \in {"ACCEPTED", "PREPARING", "READY", "COMPLETED"} =>
               after.processed \/ after.key = NoKey
          /\ after.status \in {"absent", "DRAFT", "SUBMITTED"} => ~after.processed
      BY <1>1, <1>3, <1>4, <1>5, <2>1, <2>2, Transitions DEF Charged
    <2>4. Exists(o)'
      BY <1>5, <2>2 DEF Exists
    <2> QED
      BY <1>1, <1>3, <1>5, <2>1, <2>3, <2>4 DEF Charged
  <1>13. \A p \in Orders : Charged(p)'
    <2>1. \A p \in Orders : p # o => order'[p] = order[p]
      BY <1>5, OthersTold
    <2>2. \A p \in Orders : Charged(p)
      BY DEF OInv
    <2> QED
      BY <1>7, <1>12, <2>1, <2>2, ChargedStays
  <1> QED
    BY <1>1, <1>3, <1>4, <1>5, <1>7, <1>8, <1>9, <1>10, <1>11, <1>13 DEF OInv

\* What is available covers what is required: it is there, and positive.
LEMMA CoveredConsumption ==
  ASSUME OInv, NEW b \in AnyBasket, StockCovers(b)
  PROVE  /\ Components(b) \subseteq Ingredients
         /\ \A i \in Components(b) : /\ ingredient[i].active
                                     /\ Required(b)[i] \in Nat \ {0}
                                     /\ Required(b)[i] <= ingredient[i].quantity
  <1>1. Components(b) \subseteq Ingredients
    BY DEF Components
  <1>2. ASSUME NEW i \in Components(b)
        PROVE  /\ ingredient[i].active /\ Required(b)[i] \in Nat \ {0}
               /\ Required(b)[i] <= ingredient[i].quantity
    <2>1. Required(b)[i] \in Nat
      BY <1>1, RequiredNatural DEF OInv
    <2>2. PICK r : r = Required(b)[i]
      OBVIOUS
    <2>3. r > 0 /\ Available(i) >= r /\ r \in Nat
      BY <2>1, <2>2 DEF Components, StockCovers
    <2>4. ingredient[i].quantity \in Nat /\ ingredient[i].active \in BOOLEAN
      <3>1. ingredient[i] \in Row
        BY <1>1 DEF OInv, LInv, LedgerTyped
      <3> QED
        BY <3>1, Bounds DEF Row
    <2>5. ingredient[i].active /\ r <= ingredient[i].quantity
      BY <2>3, <2>4 DEF Available
    <2> QED
      BY <2>2, <2>3, <2>5
  <1> QED
    BY <1>1, <1>2

\* The movements of an acceptance are those of its order, one per ingredient.
LEMMA ConsumptionMoves ==
  ASSUME OInv, NEW S, NEW required, NEW o \in Orders, Consume(S, required, o)
  PROVE  \A i \in Ingredients :
           \E v \in Seq(MovementRec(Os)) : \E m :
             v = movements[i] /\ m.order = o /\ movements'[i] \in {v, Append(v, m)}
  <1>1. movements \in [Ingredients -> Seq(MovementRec(Os))]
    BY DEF OInv, LInv, LedgerTyped
  <1>2. ASSUME NEW i \in Ingredients
        PROVE  \E v \in Seq(MovementRec(Os)) : \E m :
                 v = movements[i] /\ m.order = o /\ movements'[i] \in {v, Append(v, m)}
    <2>1. PICK v \in Seq(MovementRec(Os)) : v = movements[i]
      BY <1>1
    <2>2. PICK m : m = Movement("consumption", -required[i],
                         ingredient[i].quantity - required[i],
                         ingredient[i].version + 1, NoKey, o)
      OBVIOUS
    <2>3. m.order = o
      BY <2>2 DEF Movement
    <2>4. movements'[i] = IF i \in S THEN Append(movements[i], m) ELSE movements[i]
      BY <2>2 DEF Consume
    <2>5. movements'[i] \in {v, Append(v, m)}
      BY <2>1, <2>4
    <2> QED
      BY <2>1, <2>3, <2>5
  <1> QED
    BY <1>2

OneMoreAtMost(o) ==
    \A i \in Ingredients :
        \E v \in Seq(MovementRec(Os)) : \E m :
            v = movements[i] /\ m.order = o /\ movements'[i] \in {v, Append(v, m)}

\* Every other order keeps what it took, and this one has at most one movement of
\* an ingredient if it had none.
LEMMA ChargedOnce ==
  ASSUME NEW o \in Orders, OneMoreAtMost(o)
  PROVE  /\ \A p \in Orders : p # o /\ Charged(p) /\ order'[p] = order[p] => Charged(p)'
         /\ Charged(o) /\ ~order[o].processed =>
              \A i \in Ingredients : \A x, y \in DOMAIN movements'[i] :
                movements'[i][x].order = o /\ movements'[i][y].order = o => x = y
  <1>1. ASSUME NEW i \in Ingredients
        PROVE  /\ \A x \in DOMAIN movements'[i] : x \notin DOMAIN movements[i] =>
                    x = Len(movements[i]) + 1 /\ movements'[i][x].order = o
               /\ \A x \in DOMAIN movements'[i] :
                    x \in DOMAIN movements[i] => movements'[i][x] = movements[i][x]
    <2>1. PICK v \in Seq(MovementRec(Os)) : \E m :
            v = movements[i] /\ m.order = o /\ movements'[i] \in {v, Append(v, m)}
      BY DEF OneMoreAtMost
    <2>2. PICK m : v = movements[i] /\ m.order = o /\ movements'[i] \in {v, Append(v, m)}
      BY <2>1
    <2>3. PICK u : u = movements'[i]
      OBVIOUS
    <2>4. CASE u = v
      BY <2>2, <2>3, <2>4
    <2>5. CASE u = Append(v, m)
      <3>1. /\ DOMAIN u = 1 .. Len(v) + 1 /\ DOMAIN v = 1 .. Len(v) /\ Len(v) \in Nat
            /\ u[Len(v) + 1] = m /\ \A x \in 1 .. Len(v) : u[x] = v[x]
        BY <2>5
      <3>2. /\ \A x \in DOMAIN u : x \notin DOMAIN v => x = Len(v) + 1 /\ u[x].order = o
            /\ \A x \in DOMAIN u : x \in DOMAIN v => u[x] = v[x]
        BY <2>2, <3>1
      <3> QED
        BY <2>2, <2>3, <3>2
    <2> QED
      BY <2>2, <2>3, <2>4, <2>5
  <1>2. ASSUME NEW p \in Orders, p # o, Charged(p), order'[p] = order[p]
        PROVE  Charged(p)'
    <2>1. ASSUME NEW i \in Ingredients, NEW x \in DOMAIN movements'[i],
                 movements'[i][x].order = p
          PROVE  x \in DOMAIN movements[i] /\ movements[i][x].order = p
      BY <1>1, <1>2, <2>1
    <2>2. \A i \in Ingredients : \A x, y \in DOMAIN movements'[i] :
            movements'[i][x].order = p /\ movements'[i][y].order = p => x = y
      BY <1>2, <2>1 DEF Charged
    <2>3. \A i \in Ingredients : \A x \in DOMAIN movements'[i] :
            movements'[i][x].order = p => Exists(p)' /\ order'[p].processed
      BY <1>2, <2>1 DEF Charged, Exists
    <2> QED
      BY <1>2, <2>2, <2>3 DEF Charged
  <1>3. ASSUME Charged(o), ~order[o].processed, NEW i \in Ingredients,
               NEW x \in DOMAIN movements'[i], NEW y \in DOMAIN movements'[i],
               movements'[i][x].order = o, movements'[i][y].order = o
        PROVE  x = y
    <2>1. x \notin DOMAIN movements[i] /\ y \notin DOMAIN movements[i]
      BY <1>1, <1>3 DEF Charged
    <2> QED
      BY <1>1, <2>1
  <1> QED
    BY <1>2, <1>3

\* The acceptance of an order.
LEMMA OrderAcceptSound ==
  ASSUME OInv, NEW o \in Orders, NEW d \in order[o].detail .. MaxDetail, AcceptOrder(o, d)
  PROVE  OInv' /\ (order'[o] # order[o] => /\ MayBecome(order[o].status, order'[o].status)
                                           /\ order'[o].revision = order[o].revision + 1)
  <1>1. PICK before \in OrderRec : before = order[o]
    BY DEF OInv, OrdersTyped
  <1>2. PICK row : row = [before EXCEPT !.status = "ACCEPTED", !.processed = TRUE,
                                        !.detail = d]
    OBVIOUS
  <1>3. /\ row.status = "ACCEPTED" /\ row.basket = before.basket
        /\ row.revision = before.revision /\ row.processed /\ row.key = before.key
        /\ row \in OrderRec
    <2>1. d \in 0..MaxDetail /\ "ACCEPTED" \in AnyStatus
      BY <1>1, OrderAssumption, Transitions DEF OrderRec, AnyStatus
    <2> QED
      BY <1>1, <1>2, <2>1 DEF OrderRec
  <1>4. /\ Exists(o) /\ MayBecome(before.status, "ACCEPTED") /\ before.status # "ACCEPTED"
        /\ StockCovers(before.basket)
        /\ Consume(Components(before.basket), Required(before.basket), o)
        /\ Updated(o, row)
    BY <1>1, <1>2 DEF AcceptOrder
  <1>5. "ACCEPTED" \in OrderStatuses /\ before.basket \in AnyBasket
    BY Transitions DEF OrderRec
  <1>6. PICK after \in OrderRec :
           /\ Wrote(o, after) /\ order'[o] = after /\ Told(o)'
           /\ after.status = row.status /\ after.basket = row.basket /\ after.key = row.key
           /\ after.processed = row.processed
           /\ order'[o] # order[o] => after.revision = order[o].revision + 1
    BY ZenonT(40), <1>1, <1>3, <1>4, <1>5, UpdatedSound
  <1>7. submission' = submission /\ menuItem' = menuItem
    BY <1>4 DEF Updated
  <1>8. LInv(Os)'
    <2>1. NoOrder \in Os /\ o \in Os /\ o # NoOrder
      BY OrderAssumption DEF Os
    <2>2. PICK S \in SUBSET Ingredients : S = Components(before.basket)
      BY <1>4, <1>5, CoveredConsumption
    <2>3. PICK required : required = Required(before.basket)
      OBVIOUS
    <2>4. \A i \in S : /\ ingredient[i].active /\ required[i] \in Nat \ {0}
                       /\ required[i] <= ingredient[i].quantity
      BY <1>4, <1>5, <2>2, <2>3, CoveredConsumption
    <2>5. LInv(Os) /\ Consume(S, required, o)
      BY <1>4, <2>2, <2>3 DEF OInv
    <2> QED
      BY <2>1, <2>4, <2>5, ConsumeSound
  <1>9. KeysHeld'
    BY <1>1, <1>3, <1>5, <1>6, <1>7, KeysStay
  <1>10. \A p \in Orders : LinesRemain(p)'
    <2>1. \A m \in MenuItems : after.basket[m] > 0 => menuItem[m].state = "live"
      BY <1>1, <1>3, <1>4, <1>6 DEF OInv, LinesRemain
    <2> QED
      BY <1>6, <1>7, <2>1, LinesStay
  <1>11. OrdersTyped'
    <2>1. OrdersTyped
      BY DEF OInv
    <2> QED
      BY <1>6, <1>7, <2>1 DEF OrdersTyped, Wrote
  <1>12. \A p \in Orders : Told(p)'
    BY <1>6, OthersTold
  <1>13. OneMoreAtMost(o)
    BY <1>4, ConsumptionMoves DEF OneMoreAtMost
  <1>14. \A p \in Orders : p # o => Charged(p)'
    <2>1. \A p \in Orders : p # o => order'[p] = order[p]
      BY <1>6, OthersTold
    <2>2. \A p \in Orders : Charged(p)
      BY DEF OInv
    <2> QED
      BY <1>13, <2>1, <2>2, ChargedOnce
  <1>15. Charged(o)'
    <2>1. before.status = "SUBMITTED"
      BY <1>1, <1>4, <1>5, Transitions DEF Exists
    <2>2. Charged(o) /\ ~order[o].processed
      BY <1>1, <2>1 DEF OInv, Charged
    <2>3. \A i \in Ingredients : \A x, y \in DOMAIN movements'[i] :
            movements'[i][x].order = o /\ movements'[i][y].order = o => x = y
      BY <1>13, <2>2, ChargedOnce
    <2>4. Exists(o)'
      BY <1>3, <1>5, <1>6 DEF Exists
    <2> QED
      BY <1>3, <1>6, <2>3, <2>4 DEF Charged
  <1> QED
    BY <1>1, <1>3, <1>4, <1>6, <1>8, <1>9, <1>10, <1>11, <1>12, <1>14, <1>15 DEF OInv

\* A submission creates its order.
LEMMA OrderCreateSound ==
  ASSUME OInv, NEW o \in Orders, NEW b \in Baskets, NEW k \in OrderKeys, CreateOrder(o, b, k)
  PROVE  OInv'
  <1>1. PICK row : row = [status |-> "DRAFT", basket |-> b, revision |-> 1,
                          processed |-> FALSE, detail |-> 0, key |-> k]
    OBVIOUS
  <1>2. /\ row \in OrderRec /\ row.status = "DRAFT" /\ row.basket = b /\ row.revision = 1
        /\ ~row.processed /\ row.key = k
    <2>1. b \in AnyBasket /\ "DRAFT" \in AnyStatus /\ 0 \in 0..MaxDetail
      BY OrderAssumption, Transitions DEF Baskets, AnyBasket, AnyStatus
    <2> QED
      BY <1>1, <2>1 DEF OrderRec
  <1>3. /\ order[o].status = "absent" /\ ~submission[k].used /\ Orderable(b)
        /\ order' = [order EXCEPT ![o] = row]
        /\ submission' = [submission EXCEPT ![k] = [used |-> TRUE, order |-> o]]
        /\ UNCHANGED ledger /\ orderEvents' = orderEvents /\ menuItem' = menuItem
    BY <1>1 DEF CreateOrder
  <1>4. /\ OrdersTyped /\ LInv(Os) /\ KeysHeld
        /\ \A p \in Orders : Charged(p) /\ Told(p) /\ LinesRemain(p)
    BY DEF OInv
  <1>5. Wrote(o, row)
    BY <1>3, <1>4 DEF Wrote, OrdersTyped
  <1>6. order'[o] = row /\ \A p \in Orders : p # o => order'[p] = order[p] /\ Told(p)'
    BY <1>3, <1>4, <1>5, OthersTold DEF OrdersTyped
  <1>7. "DRAFT" \in OrderStatuses /\ "absent" \notin OrderStatuses
    BY Transitions
  <1>8. Told(o)'
    <2>1. orderEvents'[o] = <<>>
      BY <1>3, <1>4 DEF Told
    <2> QED
      BY <2>1 DEF Told
  <1>9. OrdersTyped'
    <2>1. [used |-> TRUE, order |-> o] \in SubmissionRec
      BY DEF SubmissionRec
    <2> QED
      BY <1>2, <1>3, <1>4, <2>1 DEF OrdersTyped
  <1>10. LInv(Os)' /\ NoNewMoves
    BY <1>3, LedgerStays
  <1>11. \A p \in Orders : LinesRemain(p)'
    <2>1. \A m \in MenuItems : row.basket[m] > 0 => menuItem[m].state = "live"
      BY <1>2, <1>3 DEF Orderable
    <2> QED
      BY <1>2, <1>3, <1>5, <2>1, LinesStay
  <1>12. KeysHeld'
    <2>1. /\ submission'[k].used /\ submission'[k].order = o
          /\ \A l \in OrderKeys : l # k => submission'[l] = submission[l]
      BY <1>3, <1>4 DEF OrdersTyped
    <2>2. \A l \in OrderKeys : submission[l].order \in Orders \cup {NoOrder}
      BY <1>4 DEF OrdersTyped, SubmissionRec
    <2>3. Exists(o)' /\ ~Exists(o) /\ order'[o].key = k
      BY <1>2, <1>3, <1>6, <1>7 DEF Exists
    <2>4. \A p \in Orders : p # o => /\ order'[p].key = order[p].key
                                     /\ Exists(p)' = Exists(p)
      BY <1>6 DEF Exists
    <2>5. \A p \in Orders : order[p].key = k => k = NoKey
      BY <1>3, <1>4 DEF KeysHeld
    <2>6. \A l \in OrderKeys : submission'[l].order # NoOrder =>
            submission'[l].used /\ Exists(submission[l].order)'
      <3>1. ASSUME NEW l \in OrderKeys, l # k, submission'[l].order # NoOrder
            PROVE  submission'[l].used /\ Exists(submission[l].order)'
        <4>1. PICK p \in Orders : p = submission[l].order
          BY <2>1, <2>2, <3>1
        <4>2. submission[l].used /\ Exists(p)
          BY <1>4, <2>1, <3>1, <4>1 DEF KeysHeld
        <4>3. Exists(p)'
          BY <2>3, <2>4, <4>2
        <4> QED
          BY <2>1, <3>1, <4>1, <4>2, <4>3
      <3> QED
        BY <2>1, <2>3, <3>1
    <2>7. \A p \in Orders : order'[p].key # NoKey =>
            order'[p].key \in OrderKeys /\ submission'[order'[p].key].used
      BY <1>4, <2>1, <2>3, <2>4 DEF KeysHeld
    <2>8. OneOrderPerKey'
      BY <1>4, <2>3, <2>4, <2>5 DEF KeysHeld, OneOrderPerKey
    <2> QED
      BY <2>6, <2>7, <2>8 DEF KeysHeld
  <1>13. \A p \in Orders : Charged(p)'
    <2>1. movements' = movements
      BY <1>3 DEF ledger
    <2>2. Charged(o)'
      BY <1>2, <1>3, <1>4, <1>6, <1>7, <2>1 DEF Charged, Exists
    <2> QED
      BY <1>4, <1>6, <1>10, <2>2, ChargedStays
  <1> QED
    BY <1>6, <1>8, <1>9, <1>10, <1>11, <1>12, <1>13 DEF OInv

\* The deletion of an order without history.
LEMMA OrderDeleteSound ==
  ASSUME OInv, NEW o \in Orders, DeleteOrder(o)
  PROVE  OInv' /\ order'[o].status = "deleted" /\ \A p \in Orders : p # o => order'[p] = order[p]
  <1>1. PICK before \in OrderRec : before = order[o]
    BY DEF OInv, OrdersTyped
  <1>2. PICK row : row = [before EXCEPT !.status = "deleted"]
    OBVIOUS
  <1>3. /\ row \in OrderRec /\ row.status = "deleted" /\ row.basket = before.basket
        /\ row.revision = before.revision /\ row.key = before.key
        /\ row.processed = before.processed
    BY <1>1, <1>2 DEF OrderRec, AnyStatus
  <1>4. PICK v : v = OrderEvent("deleted", before.revision + 1, before.basket)
    OBVIOUS
  <1>5. /\ v \in OrderEventRec /\ v.type = "deleted" /\ v.revision = before.revision + 1
        /\ before.revision \in Nat
    BY <1>1, <1>4 DEF OrderEvent, OrderEventRec, OrderRec
  <1>6. /\ Exists(o) /\ ~HasOrderHistory(o)
        /\ orderEvents' = [orderEvents EXCEPT ![o] = Append(orderEvents[o], v)]
        /\ submission' = SubmissionsAfterDelete(o)
        /\ UNCHANGED ledger /\ menuItem' = menuItem
    BY <1>1, <1>4 DEF DeleteOrder
  <1>7. /\ OrdersTyped /\ LInv(Os) /\ KeysHeld
        /\ \A p \in Orders : Charged(p) /\ Told(p) /\ LinesRemain(p)
    BY DEF OInv
  <1>8. order' = [order EXCEPT ![o] = row]
    BY <1>1, <1>2 DEF DeleteOrder
  <1>9. "deleted" \notin OrderStatuses /\ NoOrder \notin Orders
    BY Transitions, OrderAssumption
  <1>10. Append(orderEvents[o], v) \in Seq(OrderEventRec)
    BY <1>5, <1>7, AppendProperties DEF OrdersTyped
  <1>11. Wrote(o, row) /\ orderEvents'[o] = Append(orderEvents[o], v)
    BY <1>6, <1>7, <1>8, <1>10 DEF Wrote, OrdersTyped
  <1>12. order'[o] = row /\ \A p \in Orders : p # o => order'[p] = order[p] /\ Told(p)'
    BY <1>7, <1>8, <1>11, OthersTold DEF OrdersTyped
  <1>13. Told(o)'
    BY <1>1, <1>3, <1>5, <1>6, <1>9, <1>11, Announces
  <1>14. /\ submission' \in [OrderKeys -> SubmissionRec]
         /\ \A k \in OrderKeys : /\ submission'[k].used = submission[k].used
                                 /\ submission'[k].order =
                                      IF submission[k].order = o THEN NoOrder
                                      ELSE submission[k].order
    <2>1. submission \in [OrderKeys -> SubmissionRec]
      BY <1>7 DEF OrdersTyped
    <2>2. ASSUME NEW k \in OrderKeys
          PROVE  /\ submission'[k] \in SubmissionRec
                 /\ submission'[k].used = submission[k].used
                 /\ submission'[k].order =
                      IF submission[k].order = o THEN NoOrder ELSE submission[k].order
      <3>1. submission'[k] = IF submission[k].order = o
                             THEN [submission[k] EXCEPT !.order = NoOrder]
                             ELSE submission[k]
        BY <1>6 DEF SubmissionsAfterDelete
      <3>2. submission[k] \in SubmissionRec
        BY <2>1
      <3> QED
        BY <3>1, <3>2 DEF SubmissionRec
    <2> QED
      BY <1>6, <2>2 DEF SubmissionsAfterDelete
  <1>15. OrdersTyped'
    BY <1>3, <1>6, <1>7, <1>8, <1>11, <1>14 DEF OrdersTyped, Wrote
  <1>16. LInv(Os)' /\ NoNewMoves
    BY <1>6, LedgerStays
  <1>17. \A p \in Orders : LinesRemain(p)'
    BY <1>3, <1>6, <1>9, <1>11, LinesStay
  <1>18. KeysHeld'
    <2>1. \A k \in OrderKeys : submission[k].order \in Orders \cup {NoOrder}
      BY <1>7 DEF OrdersTyped, SubmissionRec
    <2>2. \A p \in Orders : /\ order'[p].key = order[p].key
                            /\ p # o /\ Exists(p) => Exists(p)'
      BY <1>1, <1>3, <1>12 DEF Exists
    <2>3. \A k \in OrderKeys : submission'[k].order # NoOrder =>
            submission'[k].used /\ Exists(submission[k].order)'
      <3>1. ASSUME NEW k \in OrderKeys, submission'[k].order # NoOrder
            PROVE  submission'[k].used /\ Exists(submission[k].order)'
        <4>1. PICK p \in Orders : p = submission[k].order /\ p # o /\ p = submission'[k].order
          BY <1>14, <2>1, <3>1
        <4>2. submission[k].used /\ Exists(p)
          BY <1>7, <1>9, <4>1 DEF KeysHeld
        <4>3. Exists(p)'
          BY <2>2, <4>1, <4>2
        <4> QED
          BY <1>14, <4>1, <4>2, <4>3
      <3> QED
        BY <3>1
    <2>4. \A p \in Orders : order'[p].key # NoKey =>
            order'[p].key \in OrderKeys /\ submission'[order'[p].key].used
      BY <1>7, <1>14, <2>2 DEF KeysHeld
    <2>5. OneOrderPerKey'
      BY <1>7, <2>2 DEF KeysHeld, OneOrderPerKey
    <2> QED
      BY <2>3, <2>4, <2>5 DEF KeysHeld
  <1>19. \A p \in Orders : Charged(p)'
    <2>1. movements' = movements
      BY <1>6 DEF ledger
    <2>2. \A i \in Ingredients : \A x \in DOMAIN movements'[i] : movements'[i][x].order # o
      BY <1>6, <2>1 DEF HasOrderHistory
    <2>3. Charged(o)'
      BY <1>3, <1>12, <2>2 DEF Charged
    <2> QED
      BY <1>7, <1>12, <1>16, <2>3, ChargedStays
  <1> QED
    BY <1>3, <1>12, <1>13, <1>15, <1>16, <1>17, <1>18, <1>19 DEF OInv

-----------------------------------------------------------------------------
(* Menu items, the ledger, and the start *)

\* What the catalog and recipes may do to menu items.
LEMMA MenuChange ==
  ASSUME OInv, UNCHANGED <<ledger, order, submission, orderEvents>>,
         menuItem' \in [MenuItems -> ItemRec],
         \A m \in MenuItems : Ordered(m) /\ menuItem[m].state = "live" =>
                                menuItem'[m].state = "live"
  PROVE  OInv'
  <1>1. /\ OrdersTyped /\ LInv(Os) /\ KeysHeld
        /\ \A p \in Orders : Charged(p) /\ Told(p) /\ LinesRemain(p)
    BY DEF OInv
  <1>2. /\ order' = order /\ submission' = submission /\ orderEvents' = orderEvents
        /\ UNCHANGED ledger
    OBVIOUS
  <1>3. LInv(Os)' /\ NoNewMoves
    BY <1>2, LedgerStays
  <1>4. OrdersTyped'
    BY <1>1, <1>2 DEF OrdersTyped
  <1>5. KeysHeld'
    BY <1>1, <1>2 DEF KeysHeld, OneOrderPerKey, Exists
  <1>6. \A p \in Orders : Charged(p)'
    BY <1>1, <1>2, <1>3, ChargedStays
  <1>7. \A p \in Orders : Told(p)'
    BY <1>1, <1>2 DEF Told, Exists
  <1>8. \A p \in Orders : LinesRemain(p)'
    BY <1>1, <1>2 DEF LinesRemain, Exists, Ordered
  <1> QED
    BY <1>3, <1>4, <1>5, <1>6, <1>7, <1>8 DEF OInv

\* Creation, recipes, availability and deletion of menu items.
LEMMA MenuSound ==
  ASSUME OInv, NEW m \in MenuItems, MenuStep(m)
  PROVE  OInv' /\ order' = order
  <1>1. menuItem \in [MenuItems -> ItemRec] /\ menuItem[m] \in ItemRec
    BY DEF OInv, OrdersTyped
  <1>2. NoRecipe \in Recipes
    BY OrderAssumption DEF NoRecipe, Recipes
  <1>3. ASSUME NEW item \in ItemRec, menuItem' = [menuItem EXCEPT ![m] = item],
               UNCHANGED <<ledger, order, submission, orderEvents>>,
               Ordered(m) /\ menuItem[m].state = "live" => item.state = "live"
        PROVE  OInv'
    <2>1. menuItem' \in [MenuItems -> ItemRec]
      BY <1>1, <1>3
    <2>2. \A l \in MenuItems : Ordered(l) /\ menuItem[l].state = "live" =>
            menuItem'[l].state = "live"
      BY <1>1, <1>3
    <2> QED
      BY <1>3, <2>1, <2>2, MenuChange
  <1>4. ASSUME NEW a \in BOOLEAN, CreateMenuItem(m, a)
        PROVE  OInv' /\ order' = order
    <2>1. PICK item : item = [menuItem[m] EXCEPT !.state = "live", !.available = a]
      OBVIOUS
    <2>2. item \in ItemRec /\ item.state = "live"
      BY <1>1, <2>1 DEF ItemRec
    <2>3. menuItem' = [menuItem EXCEPT ![m] = item]
      BY <1>1, <1>4, <2>1 DEF CreateMenuItem
    <2> QED
      BY <1>3, <1>4, <2>2, <2>3 DEF CreateMenuItem
  <1>5. ASSUME NEW t \in BOOLEAN, NEW r \in Recipes, ReplaceRecipe(m, t, r)
        PROVE  OInv' /\ order' = order
    <2>1. PICK item : item = [menuItem[m] EXCEPT !.tracked = t, !.recipe = r]
      OBVIOUS
    <2>2. item \in ItemRec /\ item.state = menuItem[m].state
      BY <1>1, <2>1 DEF ItemRec
    <2>3. menuItem' = [menuItem EXCEPT ![m] = item]
      BY <1>1, <1>5, <2>1 DEF ReplaceRecipe
    <2> QED
      BY <1>3, <1>5, <2>2, <2>3 DEF ReplaceRecipe
  <1>6. ASSUME NEW a \in BOOLEAN, SetAvailability(m, a)
        PROVE  OInv' /\ order' = order
    <2>1. PICK item : item = [menuItem[m] EXCEPT !.available = a]
      OBVIOUS
    <2>2. item \in ItemRec /\ item.state = menuItem[m].state
      BY <1>1, <2>1 DEF ItemRec
    <2>3. menuItem' = [menuItem EXCEPT ![m] = item]
      BY <1>1, <1>6, <2>1 DEF SetAvailability
    <2> QED
      BY <1>3, <1>6, <2>2, <2>3 DEF SetAvailability
  <1>7. ASSUME DeleteMenuItem(m)
        PROVE  OInv' /\ order' = order
    <2>1. CASE Ordered(m)
      <3>1. PICK item : item = [menuItem[m] EXCEPT !.available = FALSE]
        OBVIOUS
      <3>2. item \in ItemRec /\ item.state = menuItem[m].state
        BY <1>1, <3>1 DEF ItemRec
      <3>3. menuItem' = [menuItem EXCEPT ![m] = item]
        BY <1>1, <1>7, <2>1, <3>1 DEF DeleteMenuItem
      <3> QED
        BY <1>3, <1>7, <3>2, <3>3 DEF DeleteMenuItem
    <2>2. CASE ~Ordered(m)
      <3>1. PICK item : item = [menuItem[m] EXCEPT !.state = "deleted", !.recipe = NoRecipe]
        OBVIOUS
      <3>2. item \in ItemRec
        BY <1>1, <1>2, <3>1 DEF ItemRec
      <3>3. menuItem' = [menuItem EXCEPT ![m] = item]
        BY <1>1, <1>7, <2>2, <3>1 DEF DeleteMenuItem
      <3> QED
        BY <1>3, <1>7, <2>2, <3>2, <3>3 DEF DeleteMenuItem
    <2> QED
      BY <2>1, <2>2
  <1> QED
    BY <1>4, <1>5, <1>6, <1>7 DEF MenuStep

\* Stock commands and maintenance leave orders alone.
LEMMA LedgerSound ==
  ASSUME OInv, LedgerNext, UNCHANGED orders
  PROVE  OInv'
  <1>1. /\ OrdersTyped /\ LInv(Os) /\ KeysHeld /\ NoOrder \in Os
        /\ \A p \in Orders : Charged(p) /\ Told(p) /\ LinesRemain(p)
    BY DEF OInv, Os
  <1>2. /\ order' = order /\ submission' = submission /\ orderEvents' = orderEvents
        /\ menuItem' = menuItem
    BY DEF orders
  <1>3. LInv(Os)'
    BY <1>1, LedgerNextSound
  <1>4. NoNewMoves
    BY <1>1, LedgerMovesNoOrder
  <1>5. OrdersTyped'
    BY <1>1, <1>2 DEF OrdersTyped
  <1>6. KeysHeld'
    BY <1>1, <1>2 DEF KeysHeld, OneOrderPerKey, Exists
  <1>7. \A p \in Orders : Charged(p)'
    BY <1>1, <1>2, <1>4, ChargedStays
  <1>8. \A p \in Orders : Told(p)'
    BY <1>1, <1>2 DEF Told, Exists
  <1>9. \A p \in Orders : LinesRemain(p)'
    BY <1>1, <1>2 DEF LinesRemain, Exists
  <1> QED
    BY <1>3, <1>5, <1>6, <1>7, <1>8, <1>9 DEF OInv

\* A restaurant starts without orders, or with completed ones that are older than
\* the ledger.
LEMMA FreshSound ==
  ASSUME LedgerInit, submission = [k \in OrderKeys |-> NoSubmission],
         orderEvents = [o \in Orders |-> <<>>],
         order \in [Orders -> {NoOrderRow, LegacyOrder}],
         menuItem \in [MenuItems -> ItemRec],
         (\E o \in Orders : order[o] = LegacyOrder) =>
            \A m \in MenuItems : menuItem[m].state = "live"
  PROVE  OInv
  <1>1. /\ NoOrderRow \in OrderRec /\ NoOrderRow.status = "absent" /\ NoOrderRow.key = NoKey
        /\ ~NoOrderRow.processed
    <2>1. NoBasket \in AnyBasket /\ 0 \in 0..MaxDetail
      BY OrderAssumption DEF NoBasket, AnyBasket
    <2> QED
      BY <2>1 DEF NoOrderRow, OrderRec, AnyStatus
  <1>2. /\ LegacyOrder \in OrderRec /\ LegacyOrder.status = "COMPLETED"
        /\ LegacyOrder.key = NoKey
    <2>1. [m \in MenuItems |-> 1] \in AnyBasket
      BY OrderAssumption DEF AnyBasket
    <2>2. "COMPLETED" \in AnyStatus
      BY Transitions DEF AnyStatus
    <2> QED
      BY <1>1, <2>1, <2>2 DEF LegacyOrder, OrderRec, NoOrderRow
  <1>3. LInv(Os)
    BY InitSound DEF Os
  <1>4. NoSubmission \in SubmissionRec /\ NoSubmission.order = NoOrder
    BY DEF NoSubmission, SubmissionRec
  <1>5. OrdersTyped
    BY <1>1, <1>2, <1>4 DEF OrdersTyped
  <1>6. \A k \in OrderKeys : submission[k].order = NoOrder
    BY <1>4
  <1>7. \A o \in Orders : order[o] = NoOrderRow \/ order[o] = LegacyOrder
    OBVIOUS
  <1>8. \A o \in Orders : order[o].key = NoKey
    BY <1>1, <1>2, <1>7
  <1>9. KeysHeld
    BY <1>6, <1>8 DEF KeysHeld, OneOrderPerKey
  <1>10. ASSUME NEW i \in Ingredients, NEW n \in DOMAIN movements[i]
         PROVE  movements[i][n].order \notin Orders
    <2>1. PICK q, m : /\ q = ingredient[i].quantity
                      /\ m = Movement("opening", q, q, 1, NoKey, NoOrder)
      OBVIOUS
    <2>2. movements[i] = <<m>> \/ movements[i] = <<>>
      BY <2>1 DEF LedgerInit
    <2>3. m.order = NoOrder
      BY <2>1 DEF Movement
    <2> QED
      BY <1>10, <2>2, <2>3, OrderAssumption
  <1>11. ASSUME NEW o \in Orders
         PROVE  Charged(o) /\ Told(o) /\ LinesRemain(o)
    <2>1. orderEvents[o] = <<>> /\ Len(orderEvents[o]) = 0
      OBVIOUS
    <2>2. Told(o)
      BY <2>1 DEF Told
    <2>3. order[o].status = "absent" => ~order[o].processed
      BY <1>1, <1>2, <1>7
    <2>4. order[o].status \in {"absent", "COMPLETED"}
      BY <1>1, <1>2, <1>7
    <2>5. Charged(o)
      BY <1>8, <1>10, <2>3, <2>4 DEF Charged
    <2>6. LinesRemain(o)
      <3>1. CASE order[o] = LegacyOrder
        BY <3>1 DEF LinesRemain
      <3>2. CASE order[o] = NoOrderRow
        BY <1>1, <3>2, Transitions DEF LinesRemain, Exists
      <3> QED
        BY <1>7, <3>1, <3>2
    <2> QED
      BY <2>2, <2>5, <2>6
  <1> QED
    BY <1>3, <1>5, <1>9, <1>11 DEF OInv

-----------------------------------------------------------------------------
(* Every step *)

\* What OrderMovesForward asks of a step.
Forward ==
    \A p \in Orders : Exists(p) /\ order'[p] # order[p] /\ order'[p].status # "deleted" =>
      /\ \/ order'[p].status = order[p].status
         \/ order'[p].status \in ORDER_TRANSITIONS[order[p].status]
      /\ order'[p].revision = order[p].revision + 1

LEMMA OrderStepSound ==
  ASSUME OInv, NEW o \in Orders, OrderStep(o)
  PROVE  OInv' /\ Forward
  <1>1. order \in [Orders -> OrderRec]
    BY DEF OInv, OrdersTyped
  <1>2. ASSUME NEW row, Updated(o, row)
        PROVE  \A p \in Orders : p # o => order'[p] = order[p]
    <2>1. PICK after : order' = [order EXCEPT ![o] = after]
      BY <1>2 DEF Updated
    <2> QED
      BY <1>1, <2>1
  <1>3. ASSUME NEW b \in Baskets, NEW k \in OrderKeys, CreateOrder(o, b, k)
        PROVE  OInv' /\ Forward
    <2>1. OInv'
      BY <1>3, OrderCreateSound
    <2>2. order[o].status = "absent"
      BY <1>3 DEF CreateOrder
    <2>3. \A p \in Orders : p # o => order'[p] = order[p]
      <3>1. PICK after : order' = [order EXCEPT ![o] = after]
        BY <1>3 DEF CreateOrder
      <3> QED
        BY <1>1, <3>1
    <2>4. ~Exists(o)
      BY <2>2, Transitions DEF Exists
    <2> QED
      BY <2>1, <2>3, <2>4 DEF Forward
  <1>4. ASSUME NEW s \in OrderStatuses, NEW b \in Baskets,
               NEW d \in order[o].detail .. MaxDetail, UpdateOrder(o, s, b, d)
        PROVE  OInv' /\ Forward
    <2>1. /\ OInv'
          /\ order'[o] # order[o] => /\ MayBecome(order[o].status, order'[o].status)
                                     /\ order'[o].revision = order[o].revision + 1
      BY <1>4, OrderUpdateSound
    <2>2. \A p \in Orders : p # o => order'[p] = order[p]
      BY <1>2, <1>4 DEF UpdateOrder
    <2> QED
      BY <2>1, <2>2 DEF Forward, MayBecome
  <1>5. ASSUME NEW d \in order[o].detail .. MaxDetail, AcceptOrder(o, d)
        PROVE  OInv' /\ Forward
    <2>1. /\ OInv'
          /\ order'[o] # order[o] => /\ MayBecome(order[o].status, order'[o].status)
                                     /\ order'[o].revision = order[o].revision + 1
      BY <1>5, OrderAcceptSound
    <2>2. \A p \in Orders : p # o => order'[p] = order[p]
      BY <1>2, <1>5 DEF AcceptOrder
    <2> QED
      BY <2>1, <2>2 DEF Forward, MayBecome
  <1>6. ASSUME DeleteOrder(o)
        PROVE  OInv' /\ Forward
    BY <1>6, OrderDeleteSound DEF Forward
  <1> QED
    BY <1>3, <1>4, <1>5, <1>6 DEF OrderStep

LEMMA StandingSound ==
  ASSUME OInv, UNCHANGED stockVars
  PROVE  OInv'
  <1>1. /\ OrdersTyped /\ LInv(Os) /\ KeysHeld /\ NoOrder \in Os
        /\ \A p \in Orders : Charged(p) /\ Told(p) /\ LinesRemain(p)
    BY DEF OInv, Os
  <1>2. /\ order' = order /\ submission' = submission /\ orderEvents' = orderEvents
        /\ menuItem' = menuItem
    BY DEF orders, stockVars
  <1>3. UNCHANGED ledger
    BY DEF stockVars
  <1>4. LInv(Os)'
    BY <1>1, <1>3, LedgerNextSound
  <1>5. movements' = movements
    BY <1>3 DEF ledger
  <1>6. OrdersTyped'
    BY <1>1, <1>2 DEF OrdersTyped
  <1>7. KeysHeld'
    BY <1>1, <1>2 DEF KeysHeld, OneOrderPerKey, Exists
  <1>8. \A p \in Orders : Charged(p)'
    BY <1>1, <1>2, <1>5 DEF Charged, Exists
  <1>9. \A p \in Orders : Told(p)'
    BY <1>1, <1>2 DEF Told, Exists
  <1>10. \A p \in Orders : LinesRemain(p)'
    BY <1>1, <1>2 DEF LinesRemain, Exists
  <1> QED
    BY <1>4, <1>6, <1>7, <1>8, <1>9, <1>10 DEF OInv

LEMMA StockNextSound ==
  ASSUME OInv, [StockNext]_stockVars
  PROVE  OInv' /\ Forward
  <1>1. CASE LedgerNext /\ UNCHANGED orders
    <2>1. order' = order
      BY <1>1 DEF orders
    <2> QED
      BY <1>1, <2>1, LedgerSound DEF Forward
  <1>2. CASE \E o \in Orders : OrderStep(o)
    BY <1>2, OrderStepSound
  <1>3. CASE \E m \in MenuItems : MenuStep(m)
    <2>1. PICK m \in MenuItems : MenuStep(m)
      BY <1>3
    <2>2. OInv' /\ order' = order
      BY <2>1, MenuSound
    <2> QED
      BY <2>2 DEF Forward
  <1>4. CASE UNCHANGED stockVars
    <2>1. order' = order
      BY <1>4 DEF stockVars, orders
    <2> QED
      BY <1>4, <2>1, StandingSound DEF Forward
  <1> QED
    BY <1>1, <1>2, <1>3, <1>4 DEF StockNext

\* Consumers and rebuilds of analytics leave orders and stock alone.
LEMMA SalesNextStock ==
  ASSUME [SalesNext]_salesVars
  PROVE  [StockNext]_stockVars
  <1>1. CASE InitializeSales
    BY <1>1 DEF InitializeSales, StockNext, LedgerNext
  <1>2. CASE MaintenanceRebuild
    BY <1>2 DEF MaintenanceRebuild
  <1>3. CASE \E o \in Orders : OrderStep(o) /\ UNCHANGED sales
    BY <1>3 DEF StockNext
  <1>4. CASE \E m \in MenuItems : MenuStep(m) /\ UNCHANGED sales
    BY <1>4 DEF StockNext
  <1>5. CASE \E i \in Ingredients : LedgerStep(i) /\ UNCHANGED <<orders, sales>>
    BY <1>5 DEF StockNext, LedgerNext
  <1>6. CASE \E o \in Orders : \E n \in DOMAIN orderEvents[o] : ApplyOrderEvent(o, n)
    BY <1>6 DEF ApplyOrderEvent
  <1>7. CASE UNCHANGED salesVars
    BY <1>7 DEF salesVars
  <1> QED
    BY <1>1, <1>2, <1>3, <1>4, <1>5, <1>6, <1>7 DEF SalesNext

LEMMA ItemsStart ==
  NoItem \in ItemRec /\ LegacyItem \in ItemRec /\ LegacyItem.state = "live"
  <1>1. NoRecipe \in Recipes
    BY OrderAssumption DEF NoRecipe, Recipes
  <1> QED
    BY <1>1 DEF NoItem, LegacyItem, ItemRec

LEMMA StockStarts == StockInit => OInv
  <1> SUFFICES ASSUME StockInit PROVE OInv
    OBVIOUS
  <1>1. order \in [Orders -> {NoOrderRow, LegacyOrder}]
    BY DEF StockInit
  <1>2. menuItem \in [MenuItems -> ItemRec]
    BY ItemsStart DEF StockInit
  <1>3. \A o \in Orders : order[o] # LegacyOrder
    <2>1. NoOrderRow.status = "absent" /\ LegacyOrder.status = "COMPLETED"
      BY DEF LegacyOrder, NoOrderRow
    <2> QED
      BY <2>1 DEF StockInit
  <1> QED
    BY <1>1, <1>2, <1>3, FreshSound DEF StockInit

LEMMA SalesStarts == SalesInit => OInv
  <1> SUFFICES ASSUME SalesInit PROVE OInv
    OBVIOUS
  <1>1. PICK old \in SUBSET LegacyOrders :
          /\ order = [o \in Orders |-> IF o \in old THEN LegacyOrder ELSE NoOrderRow]
          /\ menuItem = [m \in MenuItems |-> IF old # {} THEN LegacyItem ELSE NoItem]
    BY DEF SalesInit
  <1>2. order \in [Orders -> {NoOrderRow, LegacyOrder}]
    BY <1>1
  <1>3. menuItem \in [MenuItems -> ItemRec]
    BY <1>1, ItemsStart
  <1>4. (\E o \in Orders : order[o] = LegacyOrder) => old # {}
    <2>1. NoOrderRow.status = "absent" /\ LegacyOrder.status = "COMPLETED"
      BY DEF LegacyOrder, NoOrderRow
    <2> QED
      BY <1>1, <2>1
  <1>5. old # {} => \A m \in MenuItems : menuItem[m].state = "live"
    BY <1>1, ItemsStart
  <1>6. /\ LedgerInit /\ submission = [k \in OrderKeys |-> NoSubmission]
        /\ orderEvents = [o \in Orders |-> <<>>]
    BY DEF SalesInit
  <1> QED
    BY <1>2, <1>3, <1>4, <1>5, <1>6, FreshSound

-----------------------------------------------------------------------------
(* What a step takes from the stock *)

\* What AcceptanceTakesRecipe asks of a step.
Taken ==
    \A o \in Orders : order'[o] # order[o] =>
      \A i \in Ingredients :
        ingredient[i].quantity - ingredient'[i].quantity =
          IF order[o].status # "ACCEPTED" /\ order'[o].status = "ACCEPTED"
          THEN SumOver(Need(order[o].basket, i), {m \in MenuItems : menuItem[m].tracked})
          ELSE 0

\* A command that leaves the ledger alone takes nothing.
LEMMA NothingTaken ==
  ASSUME OInv, NEW o \in Orders, UNCHANGED ledger,
         \A p \in Orders : p # o => order'[p] = order[p],
         order'[o].status = "ACCEPTED" => order[o].status = "ACCEPTED"
  PROVE  Taken
  <1>1. \A i \in Ingredients : ingredient[i].quantity \in Int /\ ingredient'[i] = ingredient[i]
    <2>1. ASSUME NEW i \in Ingredients
          PROVE  ingredient[i].quantity \in Int
      <3>1. ingredient[i] \in Row
        BY DEF OInv, LInv, LedgerTyped
      <3> QED
        BY <3>1, Bounds DEF Row
    <2> QED
      BY <2>1 DEF ledger
  <1>2. \A i \in Ingredients : ingredient[i].quantity - ingredient'[i].quantity = 0
    BY <1>1
  <1> QED
    BY <1>2 DEF Taken

\* The status a command writes, and the rows it does not.
LEMMA UpdatedStatus ==
  ASSUME OInv, NEW o \in Orders, NEW row \in OrderRec, Updated(o, row)
  PROVE  order'[o].status = row.status /\ \A p \in Orders : p # o => order'[p] = order[p]
  <1>1. order \in [Orders -> OrderRec]
    BY DEF OInv, OrdersTyped
  <1>2. PICK r : r = NextRevision(order[o], row)
    OBVIOUS
  <1>3. PICK after : after = [row EXCEPT !.revision = r]
    OBVIOUS
  <1>4. order' = [order EXCEPT ![o] = after]
    BY <1>2, <1>3 DEF Updated
  <1>5. after.status = row.status
    BY <1>3 DEF OrderRec
  <1> QED
    BY <1>1, <1>4, <1>5

\* An acceptance takes from every ingredient what the recipes ask for.
LEMMA AcceptanceTakes ==
  ASSUME OInv, NEW o \in Orders, NEW d \in order[o].detail .. MaxDetail, AcceptOrder(o, d)
  PROVE  Taken
  <1>1. order \in [Orders -> OrderRec] /\ OrdersTyped /\ LedgerTyped(Os)
    BY DEF OInv, OrdersTyped, LInv
  <1>2. PICK b \in AnyBasket : b = order[o].basket
    BY <1>1 DEF OrderRec
  <1>3. PICK before \in OrderRec : before = order[o]
    BY <1>1
  <1>4. PICK row : row = [before EXCEPT !.status = "ACCEPTED", !.processed = TRUE, !.detail = d]
    OBVIOUS
  <1>5. /\ StockCovers(b) /\ Consume(Components(b), Required(b), o) /\ Updated(o, row)
        /\ order[o].status # "ACCEPTED"
    BY <1>2, <1>3, <1>4 DEF AcceptOrder
  <1>6. row \in OrderRec /\ row.status = "ACCEPTED"
    <2>1. d \in 0 .. MaxDetail
      BY <1>3, OrderAssumption DEF OrderRec
    <2>2. "ACCEPTED" \in AnyStatus
      BY Transitions DEF AnyStatus
    <2> QED
      BY <1>3, <1>4, <2>1, <2>2 DEF OrderRec
  <1>7. order'[o].status = "ACCEPTED" /\ \A p \in Orders : p # o => order'[p] = order[p]
    BY <1>5, <1>6, UpdatedStatus
  <1>8. ASSUME NEW i \in Ingredients
        PROVE  ingredient[i].quantity - ingredient'[i].quantity = Required(b)[i]
    <2>1. PICK x \in Row : x = ingredient[i]
      BY <1>1 DEF LedgerTyped
    <2>2. PICK S, r : S = Components(b) /\ r = Required(b)[i]
      OBVIOUS
    <2>3. r \in Nat /\ x.quantity \in Nat
      BY <1>1, <2>1, <2>2, RequiredNatural, Bounds DEF Row
    <2>4. CASE i \in S
      <3>1. S \subseteq Ingredients /\ r <= x.quantity
        BY <1>5, <2>1, <2>2, <2>4, CoveredConsumption
      <3>2. PICK after : after = [j \in S |->
              [ingredient[j] EXCEPT !.quantity = @ - Required(b)[j], !.version = @ + 1]]
        OBVIOUS
      <3>3. RecordTransition(S, after, "order_acceptance", o)
        BY <1>5, <2>2, <3>2 DEF Consume
      <3>4. PICK q \in Quantities : q = x.quantity - r
        BY <2>1, <2>3, <3>1, Bounds DEF Row, Quantities
      <3>5. after[i] = Moved(x, q)
        <4>1. after[i] = [x EXCEPT !.quantity = x.quantity - r, !.version = x.version + 1]
          BY <2>1, <2>2, <2>4, <3>2 DEF Row
        <4> QED
          BY <3>4, <4>1 DEF Moved
      <3>6. after[i] \in Row /\ after[i].revision = x.revision /\ after[i].quantity = q
        BY <3>5, MovedRow
      <3>7. ingredient'[i].quantity = q
        BY <2>1, <2>4, <3>1, <3>3, <3>6, WrittenRow
      <3> QED
        BY <2>1, <2>2, <2>3, <3>4, <3>7
    <2>5. CASE i \notin S
      <3>1. r = 0
        BY <2>2, <2>3, <2>5 DEF Components
      <3>2. ingredient'[i] = ingredient[i]
        BY <1>5, <2>2, <2>5 DEF Consume, RecordTransition
      <3> QED
        BY <2>1, <2>2, <2>3, <3>1, <3>2
    <2> QED
      BY <2>4, <2>5
  <1>9. ASSUME NEW i \in Ingredients
        PROVE  ingredient[i].quantity - ingredient'[i].quantity =
                 SumOver(Need(order[o].basket, i), {m \in MenuItems : menuItem[m].tracked})
    BY <1>1, <1>2, <1>8, RequiredNatural
  <1> QED
    BY <1>5, <1>7, <1>9 DEF Taken

LEMMA StockNextTakes ==
  ASSUME OInv, [StockNext]_stockVars
  PROVE  Taken
  <1>1. ASSUME order' = order
        PROVE  Taken
    BY <1>1 DEF Taken
  <1>2. order \in [Orders -> OrderRec]
    BY DEF OInv, OrdersTyped
  <1>3. ASSUME NEW o \in Orders, OrderStep(o)
        PROVE  Taken
    <2>1. PICK before \in OrderRec : before = order[o]
      BY <1>2
    <2>2. ASSUME NEW b \in Baskets, NEW k \in OrderKeys, CreateOrder(o, b, k)
          PROVE  Taken
      <3>1. PICK r : r = [status |-> "DRAFT", basket |-> b, revision |-> 1,
                          processed |-> FALSE, detail |-> 0, key |-> k]
        OBVIOUS
      <3>2. order' = [order EXCEPT ![o] = r] /\ UNCHANGED ledger
        BY <2>2, <3>1 DEF CreateOrder
      <3>3. r.status = "DRAFT"
        BY <3>1
      <3>4. order'[o].status # "ACCEPTED" /\ \A p \in Orders : p # o => order'[p] = order[p]
        BY <1>2, <3>2, <3>3
      <3> QED
        BY <3>2, <3>4, NothingTaken
    <2>3. ASSUME NEW s \in OrderStatuses, NEW b \in Baskets,
                 NEW d \in order[o].detail .. MaxDetail, UpdateOrder(o, s, b, d)
          PROVE  Taken
      <3>1. PICK row : row = [before EXCEPT !.status = s, !.basket = b, !.detail = d]
        OBVIOUS
      <3>2. Updated(o, row) /\ UNCHANGED ledger /\ (s = "ACCEPTED" => before.status = "ACCEPTED")
        BY <2>1, <2>3, <3>1 DEF UpdateOrder
      <3>3. row \in OrderRec /\ row.status = s
        <4>1. d \in 0 .. MaxDetail
          BY <2>1, OrderAssumption DEF OrderRec
        <4>2. s \in AnyStatus /\ b \in AnyBasket
          BY DEF AnyStatus, Baskets, AnyBasket
        <4> QED
          BY <3>1, <4>1, <4>2 DEF OrderRec
      <3>4. order'[o].status = s /\ \A p \in Orders : p # o => order'[p] = order[p]
        BY <3>2, <3>3, UpdatedStatus
      <3> QED
        BY <2>1, <3>2, <3>4, NothingTaken
    <2>4. ASSUME NEW d \in order[o].detail .. MaxDetail, AcceptOrder(o, d)
          PROVE  Taken
      BY <2>4, AcceptanceTakes
    <2>5. ASSUME DeleteOrder(o)
          PROVE  Taken
      <3>1. order'[o].status = "deleted" /\ \A p \in Orders : p # o => order'[p] = order[p]
        BY <2>5, OrderDeleteSound
      <3>2. UNCHANGED ledger
        BY <2>5 DEF DeleteOrder
      <3> QED
        BY <3>1, <3>2, NothingTaken
    <2> QED
      BY <1>3, <2>2, <2>3, <2>4, <2>5 DEF OrderStep
  <1>4. CASE LedgerNext /\ UNCHANGED orders
    BY <1>1, <1>4 DEF orders
  <1>5. CASE \E m \in MenuItems : MenuStep(m)
    BY <1>1, <1>5, MenuSound
  <1>6. CASE UNCHANGED stockVars
    BY <1>1, <1>6 DEF stockVars, orders
  <1> QED
    BY <1>3, <1>4, <1>5, <1>6 DEF StockNext

-----------------------------------------------------------------------------
(* What sound orders account for *)

\* At most one movement of an order and an ingredient, as a cardinality.
LEMMA OneMovement ==
  ASSUME NEW o \in Orders, Charged(o), NEW i \in Ingredients
  PROVE  Cardinality(Movements(o, i)) <= 1
  <1>1. \A x, y \in Movements(o, i) : x = y
    BY DEF Movements, Charged
  <1>2. CASE Movements(o, i) = {}
    <2>1. Cardinality(Movements(o, i)) = 0
      BY <1>2, FS_EmptySet
    <2> QED
      BY <2>1
  <1>3. CASE Movements(o, i) # {}
    <2>1. PICK x : x \in Movements(o, i)
      BY <1>3
    <2>2. Movements(o, i) = {x}
      BY <1>1, <2>1
    <2>3. Cardinality({x}) = 1
      BY FS_Singleton
    <2> QED
      BY <2>2, <2>3
  <1> QED
    BY <1>2, <1>3

LEMMA SoundIsAccounted == OInv => OrdersAccounted
  <1> SUFFICES ASSUME OInv PROVE OrdersAccounted
    OBVIOUS
  <1>1. /\ OrdersTyped /\ LInv(Os) /\ KeysHeld
        /\ \A p \in Orders : Charged(p) /\ Told(p) /\ LinesRemain(p)
    BY DEF OInv
  <1>2. LedgerExplained /\ EpisodesTellLedger
    BY <1>1, SoundIsExplained, SoundIsTold
  <1>3. OrdersTypeOK
    <2>1. \A o \in Orders : order[o] \in OrderRec
      BY <1>1 DEF OrdersTyped
    <2>2. \A b \in AnyBasket : b \in Baskets \cup {NoBasket}
      BY DEF AnyBasket, Baskets, NoBasket
    <2>3. ASSUME NEW o \in Orders
          PROVE  /\ order[o].status \in OrderStatuses \cup {"absent", "deleted"}
                 /\ order[o].basket \in Baskets \cup {NoBasket}
                 /\ order[o].revision \in Nat /\ order[o].processed \in BOOLEAN
                 /\ order[o].key \in OrderKeys \cup {NoKey}
      BY <2>1, <2>2 DEF OrderRec, AnyStatus
    <2> QED
      BY <1>1, <2>3 DEF OrdersTypeOK, KeysHeld
  <1>4. ConsumedOncePerOrder
    <2>1. ASSUME NEW o \in Orders
          PROVE  (\E i \in Ingredients : Movements(o, i) # {}) => Exists(o) /\ order[o].processed
      BY <1>1 DEF Movements, Charged
    <2>2. ASSUME NEW o \in Orders
          PROVE  /\ order[o].status \in {"ACCEPTED", "PREPARING", "READY", "COMPLETED"} =>
                      order[o].processed \/ order[o].key = NoKey
                 /\ order[o].status \in {"absent", "DRAFT", "SUBMITTED"} => ~order[o].processed
      BY <1>1 DEF Charged
    <2> QED
      BY <1>1, <2>1, <2>2, OneMovement DEF ConsumedOncePerOrder
  <1>5. OneOrderPerKey
    BY <1>1 DEF KeysHeld
  <1>6. OrderedItemsRemain
    BY <1>1 DEF OrderedItemsRemain, LinesRemain
  <1>7. ASSUME NEW o \in Orders
        PROVE  DOMAIN orderEvents[o] = 1 .. Len(orderEvents[o])
    <2>1. orderEvents[o] \in Seq(OrderEventRec)
      BY <1>1 DEF OrdersTyped
    <2> QED
      BY <2>1
  <1>8. OrderEventsOrdered
    BY <1>1, <1>7 DEF OrderEventsOrdered, Told
  <1>9. AnnouncedLinesStand
    BY <1>1, <1>7 DEF AnnouncedLinesStand, Told
  <1> QED
    BY <1>2, <1>3, <1>4, <1>5, <1>6, <1>8, <1>9 DEF OrdersAccounted

-----------------------------------------------------------------------------
(* Theorems *)

\* Orders are sound at every moment (OrderService, RecipesService and CatalogService
\* on top of InventoryService), with analytics and maintenance running.
THEOREM OrdersInvariant == SalesSpec => []OInv
  <1>1. OInv /\ [SalesNext]_salesVars => OInv'
    BY SalesNextStock, StockNextSound
  <1> QED
    BY <1>1, SalesStarts, PTL DEF SalesSpec

\* The same from an empty restaurant (StockSpec).
THEOREM StockInvariant == StockSpec => []OInv
  <1>1. OInv /\ [StockNext]_stockVars => OInv'
    BY StockNextSound
  <1> QED
    BY <1>1, StockStarts, PTL DEF StockSpec

\* Whatever is retried, deleted or cancelled, stock is consumed once for exactly the
\* accepted orders, a key makes one order, what was ordered keeps its menu item,
\* balances stay explained, and what was announced of an order stands
\* (OrderService.create, update, delete; _consume_order_stock).
THEOREM OrdersAreAccounted == SalesSpec => []OrdersAccounted
  BY OrdersInvariant, SoundIsAccounted, PTL

\* An acceptance takes what the recipes ask for, from every ingredient or from none,
\* and no other order command touches the stock (OrderService.update).
THEOREM AcceptancesTakeRecipes == SalesSpec => AcceptanceTakesRecipe
  <1>1. ASSUME Taken
        PROVE  \A o \in Orders :
                 order'[o] # order[o] =>
                   \A i \in Ingredients :
                     ingredient[i].quantity - ingredient'[i].quantity =
                       IF order[o].status # "ACCEPTED" /\ order'[o].status = "ACCEPTED"
                       THEN SumOver(Need(order[o].basket, i),
                                    {m \in MenuItems : menuItem[m].tracked})
                       ELSE 0
    BY <1>1 DEF Taken
  <1>2. OInv /\ [SalesNext]_salesVars =>
          [\A o \in Orders :
             order'[o] # order[o] =>
               \A i \in Ingredients :
                 ingredient[i].quantity - ingredient'[i].quantity =
                   IF order[o].status # "ACCEPTED" /\ order'[o].status = "ACCEPTED"
                   THEN SumOver(Need(order[o].basket, i),
                                {m \in MenuItems : menuItem[m].tracked})
                   ELSE 0]_stockVars
    BY <1>1, SalesNextStock, StockNextTakes
  <1> QED
    BY <1>2, OrdersInvariant, PTL DEF SalesSpec, AcceptanceTakesRecipe

\* Statuses move along ORDER_TRANSITIONS, and every change a client can see has a
\* new revision (ensure_valid_order_transition, next_order_revision).
THEOREM OrdersGoForward == SalesSpec => OrderMovesForward
  <1>1. OInv /\ [SalesNext]_salesVars =>
          [\A o \in Orders : Exists(o) /\ order'[o] # order[o] /\ order'[o].status # "deleted" =>
             /\ \/ order'[o].status = order[o].status
                \/ order'[o].status \in ORDER_TRANSITIONS[order[o].status]
             /\ order'[o].revision = order[o].revision + 1]_stockVars
    BY SalesNextStock, StockNextSound DEF Forward
  <1> QED
    BY <1>1, OrdersInvariant, PTL DEF SalesSpec, OrderMovesForward

ContributionRec ==
    [revision: Nat, total: Nat, state: {"none", "completed", "inactive", "deleted"}]

SalesTyped ==
    /\ created \in [Orders -> Days]
    /\ contribution \in [Orders -> ContributionRec]
    /\ applied \in [Orders -> SUBSET Nat]

\* What is announced of an order's end.  Orders without a key were completed
\* before there were events.
Ended(o) ==
    LET e == orderEvents[o]
    IN /\ order[o].status = "deleted" <=> HasDeletionEvent(o)
       /\ HasDeletionEvent(o) => DeletionRevision(o) = order[o].revision + 1
       /\ \A x \in 1 .. Len(e) : e[x].type = "completed" =>
            order[o].status \in {"COMPLETED", "deleted"}
       /\ order[o].status = "COMPLETED" /\ order[o].key # NoKey =>
            \E x \in 1 .. Len(e) : e[x].type = "completed"
       /\ Exists(o) /\ order[o].key = NoKey => order[o].status = "COMPLETED"

\* What analytics knows of an order, against the order and the events it handled.
Followed(o) ==
    LET c == contribution[o]
        e == orderEvents[o]
    IN /\ applied[o] \subseteq 1 .. Len(e)
       /\ c.state = "none" => c = NoContribution
       /\ order[o].status = "absent" => c.state = "none"
       /\ c.state # "deleted" => c.revision <= order[o].revision
       /\ c.state = "deleted" =>
            HasDeletionEvent(o) /\ c = Contribution(DeletionRevision(o), 0, "deleted")
       /\ c.state = "completed" =>
            order[o].status \in {"COMPLETED", "deleted"} /\ c.total = Total(order[o].basket)
       /\ c.state = "inactive" =>
            \A x \in 1 .. Len(e) : e[x].type = "completed" => e[x].revision > c.revision
       /\ \A x \in applied[o] :
            /\ e[x].type = "completed" => c.state \in {"completed", "deleted"}
            /\ e[x].type = "deleted" => c.state = "deleted"
       /\ initialized /\ Exists(o) /\ order[o].key = NoKey => c.state = "completed"

SInv ==
    /\ OInv
    /\ SalesTyped
    /\ daily = DailyOf(contribution)
    /\ \A o \in Orders : Ended(o) /\ Followed(o)

-----------------------------------------------------------------------------
(* Orders announce their end *)

\* A completed order stays completed until it is deleted.
LEMMA CompletedStays ==
  /\ \A s : MayBecome("COMPLETED", s) => s = "COMPLETED"
  /\ "COMPLETED" \in OrderStatuses /\ "deleted" \notin OrderStatuses
  /\ "absent" \notin OrderStatuses /\ "COMPLETED" \in DOMAIN Announced
  /\ \A s \in DOMAIN Announced : /\ Announced[s] # "deleted"
                                 /\ Announced[s] = "completed" <=> s = "COMPLETED"
  <1>1. ORDER_TRANSITIONS["COMPLETED"] = {}
    BY DEF ORDER_TRANSITIONS
  <1>2. /\ Announced["SUBMITTED"] = "submitted" /\ Announced["ACCEPTED"] = "accepted"
        /\ Announced["COMPLETED"] = "completed" /\ Announced["CANCELLED"] = "cancelled"
    BY DEF Announced
  <1> QED
    BY <1>1, <1>2, Transitions, Announcements DEF MayBecome

\* An order's events after an update, by what it announced.
LEMMA EndsAnnounced ==
  ASSUME OInv, NEW o \in Orders, Ended(o), Exists(o), NEW row \in OrderRec,
         order'[o] = row, row.status \in OrderStatuses, MayBecome(order[o].status, row.status),
         row.key = order[o].key,
         NEW v \in OrderEventRec, orderEvents'[o] = Append(orderEvents[o], v),
         v.type # "deleted", v.type = "completed" <=> row.status = "COMPLETED"
  PROVE  Ended(o)'
  <1>1. PICK e \in Seq(OrderEventRec) : e = orderEvents[o]
    BY DEF OInv, OrdersTyped
  <1>2. PICK u : u = Append(e, v)
    OBVIOUS
  <1>3. /\ Len(u) = Len(e) + 1 /\ Len(e) \in Nat /\ u[Len(u)] = v /\ u # <<>>
        /\ \A x \in 1 .. Len(e) : u[x] = e[x]
    BY <1>2
  <1>4. orderEvents'[o] = u
    BY <1>1, <1>2
  <1>5. order[o].status # "deleted"
    BY CompletedStays DEF Exists
  <1>6. ~HasDeletionEvent(o)'
    BY <1>3, <1>4 DEF HasDeletionEvent
  <1>7. \A x \in 1 .. Len(u) : u[x].type = "completed" => row.status = "COMPLETED"
    <2>1. \A x \in 1 .. Len(e) : e[x].type = "completed" => row.status = "COMPLETED"
      BY <1>1, <1>5, CompletedStays DEF Ended
    <2>2. ASSUME NEW x \in 1 .. Len(u)
          PROVE  x \in 1 .. Len(e) \/ x = Len(u)
      BY <1>3
    <2> QED
      BY <1>3, <2>1, <2>2
  <1>8. row.status = "COMPLETED" => \E x \in 1 .. Len(u) : u[x].type = "completed"
    <2>1. Len(u) \in 1 .. Len(u)
      BY <1>3
    <2> QED
      BY <1>3, <2>1
  <1>9. row.key = NoKey => row.status = "COMPLETED"
    BY CompletedStays DEF Ended
  <1> QED
    BY <1>4, <1>6, <1>7, <1>8, <1>9, CompletedStays DEF Ended, Exists

\* The same of an update that is announced nowhere.
LEMMA EndsQuiet ==
  ASSUME OInv, NEW o \in Orders, Ended(o), Exists(o), NEW row \in OrderRec,
         order'[o] = row, row.status \in OrderStatuses, MayBecome(order[o].status, row.status),
         row.key = order[o].key, orderEvents'[o] = orderEvents[o],
         row.status = "COMPLETED" => order[o].status = "COMPLETED"
  PROVE  Ended(o)'
  <1>1. order[o].status # "deleted" /\ row.status # "deleted"
    BY CompletedStays DEF Exists
  <1>2. ~HasDeletionEvent(o) /\ HasDeletionEvent(o)' = HasDeletionEvent(o)
    BY <1>1 DEF HasDeletionEvent, Ended
  <1>3. row.status = "COMPLETED" <=> order[o].status = "COMPLETED"
    BY CompletedStays
  <1> QED
    BY <1>1, <1>2, <1>3, CompletedStays DEF Ended, Exists

\* A deletion is announced with the next revision.
LEMMA EndsDeleted ==
  ASSUME OInv, NEW o \in Orders, Ended(o), Exists(o), NEW row \in OrderRec,
         order'[o] = row, row.status = "deleted", row.revision = order[o].revision,
         NEW v \in OrderEventRec, orderEvents'[o] = Append(orderEvents[o], v),
         v.type = "deleted", v.revision = order[o].revision + 1
  PROVE  Ended(o)'
  <1>1. PICK e \in Seq(OrderEventRec) : e = orderEvents[o]
    BY DEF OInv, OrdersTyped
  <1>2. PICK u : u = Append(e, v)
    OBVIOUS
  <1>3. /\ Len(u) = Len(e) + 1 /\ Len(e) \in Nat /\ u[Len(u)] = v /\ u # <<>>
        /\ \A x \in 1 .. Len(e) : u[x] = e[x]
    BY <1>2
  <1>4. orderEvents'[o] = u
    BY <1>1, <1>2
  <1>5. HasDeletionEvent(o)' /\ DeletionRevision(o)' = row.revision + 1
    BY <1>3, <1>4 DEF HasDeletionEvent, DeletionRevision
  <1> QED
    BY <1>5, CompletedStays DEF Ended, Exists

\* A new order has announced nothing.
LEMMA EndsCreated ==
  ASSUME OInv, NEW o \in Orders, NEW row \in OrderRec, order[o].status = "absent",
         order'[o] = row, row.status = "DRAFT", row.key # NoKey,
         orderEvents'[o] = orderEvents[o]
  PROVE  Ended(o)'
  <1>1. orderEvents[o] = <<>>
    BY DEF OInv, Told
  <1>2. Len(orderEvents'[o]) = 0 /\ orderEvents'[o] = <<>>
    BY <1>1
  <1>3. ~HasDeletionEvent(o)'
    BY <1>2 DEF HasDeletionEvent
  <1> QED
    BY <1>2, <1>3 DEF Ended

-----------------------------------------------------------------------------
(* What analytics knows while the order changes *)

\* A change of an order that analytics has not heard of.
Moves(o) ==
    /\ \/ Exists(o)
       \/ order[o].status = "absent" /\ order'[o].key # NoKey
    /\ Exists(o) => /\ order'[o].key = order[o].key
                    /\ order[o].revision <= order'[o].revision
    /\ order'[o].status # "absent"
    /\ order[o].status = "COMPLETED" =>
         order'[o].status \in {"COMPLETED", "deleted"} /\ order'[o].basket = order[o].basket
    /\ \/ orderEvents'[o] = orderEvents[o]
       \/ \E v \in OrderEventRec : /\ orderEvents'[o] = Append(orderEvents[o], v)
                                   /\ order[o].revision < v.revision

LEMMA FollowedMoves ==
  ASSUME SInv, NEW o \in Orders, Moves(o), order' \in [Orders -> OrderRec],
         contribution' = contribution, applied' = applied, initialized' = initialized
  PROVE  Followed(o)'
  <1>1. PICK e \in Seq(OrderEventRec) : e = orderEvents[o]
    BY DEF SInv, OInv, OrdersTyped
  <1>2. PICK u : u = orderEvents'[o]
    OBVIOUS
  <1>3. PICK c \in ContributionRec : c = contribution[o]
    BY DEF SInv, SalesTyped
  <1>4. Ended(o) /\ Followed(o)
    BY DEF SInv
  <1>5. order[o].revision \in Nat /\ order'[o].revision \in Nat /\ c.revision \in Nat
    <2>1. order[o] \in OrderRec /\ order'[o] \in OrderRec
      BY DEF SInv, OInv, OrdersTyped
    <2> QED
      BY <1>3, <2>1 DEF OrderRec, ContributionRec
  <1>6. order[o].status # "deleted"
    BY CompletedStays DEF Moves, Exists
  <1>7. c.state # "deleted"
    BY <1>3, <1>4, <1>6 DEF Followed, Ended
  <1>8. c.revision <= order[o].revision /\ c.revision <= order'[o].revision
    <2>1. c.revision <= order[o].revision
      BY <1>3, <1>4, <1>7 DEF Followed
    <2>2. order[o].status = "absent" => c.revision = 0
      BY <1>3, <1>4 DEF Followed, NoContribution, Contribution
    <2> QED
      BY <1>5, <2>1, <2>2 DEF Moves
  <1>9. /\ Len(e) \in Nat /\ Len(u) \in Nat /\ Len(e) <= Len(u)
        /\ \A x \in 1 .. Len(e) : u[x] = e[x]
        /\ \A x \in 1 .. Len(u) : x \in 1 .. Len(e) \/ u[x].revision > c.revision
    <2>1. CASE u = e
      BY <2>1
    <2>2. CASE u # e
      <3>1. PICK v \in OrderEventRec : u = Append(e, v) /\ order[o].revision < v.revision
        BY <1>1, <1>2, <2>2 DEF Moves
      <3>2. v.revision > c.revision
        BY <1>5, <1>8, <3>1 DEF OrderEventRec
      <3>3. /\ Len(u) = Len(e) + 1 /\ Len(e) \in Nat /\ u[Len(u)] = v
            /\ \A x \in 1 .. Len(e) : u[x] = e[x]
        BY <3>1
      <3>4. ASSUME NEW x \in 1 .. Len(u), x \notin 1 .. Len(e)
            PROVE  u[x].revision > c.revision
        <4>1. x = Len(u)
          BY <3>3, <3>4
        <4> QED
          BY <3>2, <3>3, <4>1
      <3> QED
        BY <3>3, <3>4
    <2> QED
      BY <2>1, <2>2
  <1>10. applied'[o] \subseteq 1 .. Len(e) /\ applied'[o] \subseteq 1 .. Len(u)
    BY <1>1, <1>4, <1>9 DEF Followed
  <1>11. c.state = "inactive" =>
           \A x \in 1 .. Len(u) : u[x].type = "completed" => u[x].revision > c.revision
    BY <1>1, <1>3, <1>4, <1>9 DEF Followed
  <1>12. \A x \in applied'[o] :
            /\ u[x].type = "completed" => c.state \in {"completed", "deleted"}
            /\ u[x].type = "deleted" => c.state = "deleted"
    <2>1. \A x \in applied'[o] : x \in 1 .. Len(e) /\ u[x] = e[x]
      BY <1>9, <1>10
    <2> QED
      BY <1>1, <1>3, <1>4, <2>1 DEF Followed
  <1>13. c.state = "completed" =>
           order'[o].status \in {"COMPLETED", "deleted"} /\ c.total = Total(order'[o].basket)
    BY <1>3, <1>4, <1>6 DEF Followed, Moves
  <1>14. initialized' /\ Exists(o)' /\ order'[o].key = NoKey => c.state = "completed"
    BY <1>3, <1>4 DEF Followed, Moves
  <1>15. /\ c.state = "none" => c = NoContribution
         /\ order'[o].status # "absent"
    BY <1>3, <1>4 DEF Followed, Moves
  <1>16. contribution'[o] = c /\ orderEvents'[o] = u
    BY <1>2, <1>3
  <1>17. Total(order[o].basket)' = Total(order'[o].basket)
    BY DEF Total, SumOver, MapThenSumSet, MapThenFoldSet
  <1> QED
    BY <1>7, <1>8, <1>10, <1>11, <1>12, <1>13, <1>14, <1>15, <1>16, <1>17 DEF Followed

\* Nothing changes of an order, of its events and of its contribution.
LEMMA FollowedRests ==
  ASSUME SInv, NEW o \in Orders, order'[o] = order[o], orderEvents'[o] = orderEvents[o],
         contribution'[o] = contribution[o], applied'[o] = applied[o],
         initialized' = initialized
  PROVE  Ended(o)' /\ Followed(o)'
  <1>1. Ended(o) /\ Followed(o)
    BY DEF SInv
  <1>2. Exists(o)' = Exists(o) /\ HasDeletionEvent(o)' = HasDeletionEvent(o)
        /\ DeletionRevision(o)' = DeletionRevision(o)
    BY DEF Exists, HasDeletionEvent, DeletionRevision
  <1>3. Total(order[o].basket)' = Total(order[o].basket)
    BY DEF Total, SumOver, MapThenSumSet, MapThenFoldSet
  <1> QED
    BY <1>1, <1>2, <1>3 DEF Ended, Followed

\* Totals are kept by creation date, which never changes.
LEMMA DailyMoves ==
  ASSUME created' = created, NEW d, contribution' = d
  PROVE  DailyOf(contribution)' = DailyOf(d)
  BY DEF DailyOf, Counts, Earned, Count, SumOver, MapThenSumSet, MapThenFoldSet

\* A command on one order, with what it announces.
LEMMA OneOrderMoves ==
  ASSUME SInv, OInv', NEW o \in Orders, Moves(o), Ended(o)',
         \A p \in Orders : p # o => order'[p] = order[p] /\ orderEvents'[p] = orderEvents[p],
         UNCHANGED sales, initialized' = initialized
  PROVE  SInv'
  <1>1. /\ created' = created /\ contribution' = contribution /\ daily' = daily
        /\ applied' = applied
    BY DEF sales
  <1>2. SalesTyped'
    BY <1>1 DEF SInv, SalesTyped
  <1>3. daily' = DailyOf(contribution)'
    BY <1>1, DailyMoves DEF SInv
  <1>4. order' \in [Orders -> OrderRec]
    BY DEF OInv, OrdersTyped
  <1>5. Followed(o)'
    BY <1>1, <1>4, FollowedMoves
  <1>6. \A p \in Orders : p # o => Ended(p)' /\ Followed(p)'
    BY <1>1, FollowedRests
  <1> QED
    BY <1>2, <1>3, <1>5, <1>6 DEF SInv

\* OrderService.create
LEMMA CreateFollowed ==
  ASSUME SInv, OInv', NEW o \in Orders, NEW b \in Baskets, NEW k \in OrderKeys,
         CreateOrder(o, b, k), UNCHANGED sales
  PROVE  SInv'
  <1>1. order \in [Orders -> OrderRec] /\ order' \in [Orders -> OrderRec] /\ OInv
    BY DEF SInv, OInv, OrdersTyped
  <1>2. PICK row : row = [status |-> "DRAFT", basket |-> b, revision |-> 1,
                          processed |-> FALSE, detail |-> 0, key |-> k]
    OBVIOUS
  <1>3. /\ order[o].status = "absent" /\ order' = [order EXCEPT ![o] = row]
        /\ UNCHANGED <<ledger, orderEvents, menuItem>>
    BY <1>2 DEF CreateOrder
  <1>4. /\ order'[o] = row /\ row \in OrderRec
        /\ \A p \in Orders : p # o => order'[p] = order[p]
    BY <1>1, <1>3
  <1>5. row.status = "DRAFT" /\ row.key = k /\ row.revision = 1 /\ k # NoKey
    BY <1>2, OrderAssumption
  <1>6. Ended(o)'
    BY <1>1, <1>3, <1>4, <1>5, EndsCreated
  <1>7. orderEvents'[o] = orderEvents[o]
    BY <1>3
  <1>8. Moves(o)
    BY <1>3, <1>4, <1>5, <1>7, CompletedStays DEF Moves, Exists
  <1>9. initialized' = initialized
    BY <1>3 DEF ledger
  <1> QED
    BY <1>3, <1>4, <1>6, <1>8, <1>9, OneOrderMoves

\* An update that is written and announced.
LEMMA UpdatedFollowed ==
  ASSUME SInv, OInv', NEW o \in Orders, Exists(o), NEW row \in OrderRec, Updated(o, row),
         row.status \in OrderStatuses, MayBecome(order[o].status, row.status),
         row.key = order[o].key, row.revision = order[o].revision,
         order[o].status = "COMPLETED" => row.basket = order[o].basket,
         UNCHANGED sales, initialized' = initialized
  PROVE  SInv'
  <1>1. order \in [Orders -> OrderRec] /\ OInv /\ orderEvents \in [Orders -> Seq(OrderEventRec)]
    BY DEF SInv, OInv, OrdersTyped
  <1>2. PICK before \in OrderRec : before = order[o]
    BY <1>1
  <1>3. PICK after : after = NextRow(before, row)
    OBVIOUS
  <1>4. /\ after \in OrderRec /\ after.status = row.status /\ after.basket = row.basket
        /\ after.key = row.key /\ before.revision <= after.revision
        /\ row # before => after.revision = before.revision + 1
        /\ row = before => after = before
    BY <1>2, <1>3, NextRevisionRow
  <1>5. PICK v : v = OrderEvent(Announced[after.status], after.revision, after.basket)
    OBVIOUS
  <1>6. /\ order' = [order EXCEPT ![o] = after]
        /\ orderEvents' = IF after.status # before.status /\ after.status \in DOMAIN Announced
                          THEN [orderEvents EXCEPT ![o] = Append(@, v)]
                          ELSE orderEvents
    BY <1>2, <1>3, <1>5 DEF Updated, NextRow
  <1>7. order'[o] = after /\ \A p \in Orders : p # o => order'[p] = order[p]
    BY <1>1, <1>6
  <1>8. \A p \in Orders : p # o => orderEvents'[p] = orderEvents[p]
    BY <1>1, <1>6
  <1>9. before.revision \in Nat /\ after.revision \in Nat
    BY <1>2, <1>4 DEF OrderRec
  <1>10. Ended(o)
    BY DEF SInv
  <1>11. /\ before.status = "COMPLETED" => after.status = "COMPLETED"
         /\ before.status = "COMPLETED" => after.basket = before.basket
         /\ after.status # "absent"
    <2>1. before.status = "COMPLETED" => MayBecome("COMPLETED", row.status)
      BY <1>2
    <2> QED
      BY <1>2, <1>4, <2>1, CompletedStays
  <1>12. CASE after.status # before.status /\ after.status \in DOMAIN Announced
    <2>1. /\ v \in OrderEventRec /\ v.revision = before.revision + 1 /\ v.type # "deleted"
          /\ v.type = "completed" <=> after.status = "COMPLETED"
      <3>1. /\ v.type = Announced[after.status] /\ v.revision = after.revision
            /\ v.basket = after.basket
        BY <1>5 DEF OrderEvent
      <3>2. after.basket \in AnyBasket
        BY <1>4 DEF OrderRec
      <3>3. v \in OrderEventRec
        BY <1>4, <1>5, <1>9, <1>12, <3>2, Announcements DEF OrderEvent, OrderEventRec
      <3>4. row # before
        BY <1>4, <1>12
      <3> QED
        BY <1>4, <1>12, <3>1, <3>3, <3>4, CompletedStays
    <2>2. orderEvents'[o] = Append(orderEvents[o], v)
      BY <1>1, <1>6, <1>12
    <2>3. Ended(o)'
      BY <1>1, <1>2, <1>4, <1>7, <1>10, <2>1, <2>2, EndsAnnounced
    <2>4. Moves(o)
      <3>1. before.revision < v.revision
        BY <1>9, <2>1
      <3>2. \E w \in OrderEventRec : /\ orderEvents'[o] = Append(orderEvents[o], w)
                                     /\ order[o].revision < w.revision
        BY <1>2, <2>1, <2>2, <3>1
      <3> QED
        <4>1. /\ order'[o].key = order[o].key /\ order[o].revision <= order'[o].revision
              /\ order'[o].status # "absent"
          BY <1>2, <1>4, <1>7, <1>11
        <4>2. order[o].status = "COMPLETED" =>
                order'[o].status = "COMPLETED" /\ order'[o].basket = order[o].basket
          BY <1>2, <1>7, <1>11
        <4> QED
          BY <3>2, <4>1, <4>2 DEF Moves
    <2> QED
      BY <1>7, <1>8, <2>3, <2>4, OneOrderMoves
  <1>13. CASE ~(after.status # before.status /\ after.status \in DOMAIN Announced)
    <2>1. orderEvents'[o] = orderEvents[o]
      BY <1>6, <1>13
    <2>2. after.status = "COMPLETED" => before.status = "COMPLETED"
      BY <1>13, CompletedStays
    <2>3. Ended(o)'
      BY <1>1, <1>2, <1>4, <1>7, <1>10, <2>1, <2>2, EndsQuiet
    <2>4. Moves(o)
      BY <1>2, <1>4, <1>7, <1>11, <2>1 DEF Moves
    <2> QED
      BY <1>7, <1>8, <2>3, <2>4, OneOrderMoves
  <1> QED
    BY <1>12, <1>13

LEMMA OrderStepFollowed ==
  ASSUME SInv, OInv', NEW o \in Orders, OrderStep(o), UNCHANGED sales
  PROVE  SInv'
  <1>1. /\ order \in [Orders -> OrderRec] /\ OInv
        /\ orderEvents \in [Orders -> Seq(OrderEventRec)]
    BY DEF SInv, OInv, OrdersTyped
  <1>2. PICK before \in OrderRec : before = order[o]
    BY <1>1
  <1>3. ASSUME NEW b \in Baskets, NEW k \in OrderKeys, CreateOrder(o, b, k)
        PROVE  SInv'
    BY <1>3, CreateFollowed
  <1>4. ASSUME NEW s \in OrderStatuses, NEW b \in Baskets,
               NEW d \in order[o].detail .. MaxDetail, UpdateOrder(o, s, b, d)
        PROVE  SInv'
    <2>1. PICK row : row = [before EXCEPT !.status = s, !.basket = b, !.detail = d]
      OBVIOUS
    <2>2. /\ row \in OrderRec /\ row.status = s /\ row.basket = b /\ row.key = before.key
          /\ row.revision = before.revision
      <3>1. d \in 0 .. MaxDetail
        BY <1>2, OrderAssumption DEF OrderRec
      <3>2. s \in AnyStatus /\ b \in AnyBasket
        BY DEF AnyStatus, Baskets, AnyBasket
      <3> QED
        BY <2>1, <3>1, <3>2 DEF OrderRec
    <2>3. /\ Exists(o) /\ MayBecome(before.status, s) /\ Updated(o, row) /\ UNCHANGED ledger
          /\ b # before.basket => ItemsMutable(before, row)
      BY <1>2, <1>4, <2>1 DEF UpdateOrder
    <2>4. before.status = "COMPLETED" => b = before.basket
      BY <2>2, <2>3, CompletedStays DEF ItemsMutable
    <2>5. initialized' = initialized
      BY <2>3 DEF ledger
    <2> QED
      BY <1>2, <2>2, <2>3, <2>4, <2>5, UpdatedFollowed
  <1>5. ASSUME NEW d \in order[o].detail .. MaxDetail, AcceptOrder(o, d)
        PROVE  SInv'
    <2>1. PICK row : row = [before EXCEPT !.status = "ACCEPTED", !.processed = TRUE,
                                          !.detail = d]
      OBVIOUS
    <2>2. "ACCEPTED" \in OrderStatuses
      BY Transitions
    <2>3. /\ row \in OrderRec /\ row.status = "ACCEPTED" /\ row.basket = before.basket
          /\ row.key = before.key /\ row.revision = before.revision
      <3>1. d \in 0 .. MaxDetail
        BY <1>2, OrderAssumption DEF OrderRec
      <3>2. "ACCEPTED" \in AnyStatus
        BY <2>2 DEF AnyStatus
      <3> QED
        BY <1>2, <2>1, <3>1, <3>2 DEF OrderRec
    <2>4. Exists(o) /\ MayBecome(before.status, "ACCEPTED") /\ Updated(o, row)
      BY <1>2, <1>5, <2>1 DEF AcceptOrder
    <2>5. initialized' = initialized
      BY <1>5 DEF AcceptOrder, Consume
    <2> QED
      BY <1>2, <2>2, <2>3, <2>4, <2>5, UpdatedFollowed
  <1>6. ASSUME DeleteOrder(o)
        PROVE  SInv'
    <2>1. PICK row : row = [before EXCEPT !.status = "deleted"]
      OBVIOUS
    <2>2. /\ row \in OrderRec /\ row.status = "deleted" /\ row.basket = before.basket
          /\ row.key = before.key /\ row.revision = before.revision
      BY <2>1 DEF OrderRec, AnyStatus
    <2>3. PICK v : v = OrderEvent("deleted", before.revision + 1, before.basket)
      OBVIOUS
    <2>4. /\ v \in OrderEventRec /\ v.type = "deleted" /\ v.revision = before.revision + 1
          /\ before.revision < v.revision
      BY <2>3 DEF OrderEvent, OrderEventRec, OrderRec
    <2>5. /\ Exists(o) /\ order' = [order EXCEPT ![o] = row] /\ UNCHANGED ledger
          /\ orderEvents' = [orderEvents EXCEPT ![o] = Append(@, v)]
      BY <1>2, <1>6, <2>1, <2>3 DEF DeleteOrder
    <2>6. /\ order'[o] = row /\ orderEvents'[o] = Append(orderEvents[o], v)
          /\ \A p \in Orders : p # o => order'[p] = order[p] /\ orderEvents'[p] = orderEvents[p]
      BY <1>1, <2>5
    <2>7. Ended(o)'
      BY <1>1, <1>2, <2>2, <2>4, <2>5, <2>6, EndsDeleted DEF SInv
    <2>8. before.revision <= row.revision
      BY <2>2 DEF OrderRec
    <2>9. Moves(o)
      <3>1. \E w \in OrderEventRec : /\ orderEvents'[o] = Append(orderEvents[o], w)
                                     /\ order[o].revision < w.revision
        BY <1>2, <2>4, <2>6
      <3> QED
        BY <1>2, <2>2, <2>5, <2>6, <2>8, <3>1 DEF Moves
    <2>10. initialized' = initialized
      BY <2>5 DEF ledger
    <2> QED
      BY <2>6, <2>7, <2>9, <2>10, OneOrderMoves
  <1> QED
    BY <1>3, <1>4, <1>5, <1>6 DEF OrderStep

-----------------------------------------------------------------------------
(* Daily totals *)

\* Baskets have natural totals, and contributions natural weights.
LEMMA TotalNatural ==
  ASSUME NEW b \in AnyBasket
  PROVE  Total(b) \in Nat
  <1> DEFINE w == [m \in MenuItems |-> Price * b[m]]
  <1>1. IsFiniteSet(MenuItems)
    BY OrderAssumption
  <1>2. ASSUME NEW m \in MenuItems
        PROVE  w[m] \in Nat
    <2>1. b[m] \in Nat
      BY OrderAssumption DEF AnyBasket
    <2>2. \A x, y \in Nat : x * y \in Nat
      OBVIOUS
    <2> QED
      BY <2>1, <2>2, SalesAssumption
  <1>3. Weighs(w, MenuItems)
    BY <1>2 DEF Weighs
  <1> HIDE DEF w
  <1>4. SumOver(w, MenuItems) \in Nat
    BY <1>1, <1>3, SumOverNatural
  <1> QED
    BY <1>4 DEF Total, w

LEMMA WeightsNatural ==
  ASSUME NEW c \in [Orders -> ContributionRec], NEW S \in SUBSET Orders
  PROVE  IsFiniteSet(S) /\ Weighs(Counts(c), S) /\ Weighs(Earned(c), S)
  <1>1. IsFiniteSet(S)
    BY SalesAssumption, FS_Subset
  <1>2. ASSUME NEW o \in S
        PROVE  Counts(c)[o] \in Nat /\ Earned(c)[o] \in Nat
    <2>1. c[o].total \in Nat
      BY DEF ContributionRec
    <2>2. Count(c[o]) \in {0, 1}
      BY DEF Count
    <2>3. Count(c[o]) * c[o].total \in Nat
      BY <2>1, <2>2
    <2> QED
      BY <2>2, <2>3 DEF Counts, Earned
  <1> QED
    BY <1>1, <1>2 DEF Weighs

\* delta: the totals of the day of one order follow its contribution.
LEMMA DailyShifts ==
  ASSUME SalesTyped, daily = DailyOf(contribution), NEW o \in Orders, NEW x \in ContributionRec,
         NEW c, c = contribution, NEW d, d = [c EXCEPT ![o] = x]
  PROVE  DailyAfter(o, c[o], x) = DailyOf(d)
  <1>1. /\ c \in [Orders -> ContributionRec] /\ d \in [Orders -> ContributionRec]
        /\ created \in [Orders -> Days]
    BY DEF SalesTyped
  <1>2. d[o] = x /\ \A p \in Orders : p # o => d[p] = c[p]
    BY <1>1
  <1> DEFINE S(day) == {p \in Orders : created[p] = day}
  <1>3. ASSUME NEW day \in Days
        PROVE  DailyAfter(o, c[o], x)[day] = DailyOf(d)[day]
    <2>1. PICK T \in SUBSET Orders : T = S(day)
      OBVIOUS
    <2>2. /\ DailyOf(c)[day] = [count |-> SumOver(Counts(c), T), sales |-> SumOver(Earned(c), T)]
          /\ DailyOf(d)[day] = [count |-> SumOver(Counts(d), T), sales |-> SumOver(Earned(d), T)]
      BY <2>1 DEF DailyOf
    <2>3. PICK U \in SUBSET Orders : U = T \ {o}
      OBVIOUS
    <2>4. SumOver(Counts(c), U) = SumOver(Counts(d), U)
          /\ SumOver(Earned(c), U) = SumOver(Earned(d), U)
      <3>1. \A p \in U : Counts(c)[p] = Counts(d)[p] /\ Earned(c)[p] = Earned(d)[p]
        BY <1>2, <2>3 DEF Counts, Earned
      <3> QED
        BY ZenonT(40), <1>1, <3>1, WeightsNatural, SumOverSame
    <2>5. daily = DailyOf(c) /\ DOMAIN daily = Days
      BY DEF DailyOf
    <2>6. CASE created[o] # day
      <3>1. U = T
        BY <2>1, <2>3, <2>6
      <3>2. DailyAfter(o, c[o], x)[day] = daily[day]
        BY <2>5, <2>6 DEF DailyAfter
      <3> QED
        BY <2>2, <2>4, <2>5, <3>1, <3>2
    <2>7. CASE created[o] = day
      <3>1. o \in T
        BY <2>1, <2>7
      <3>2. /\ SumOver(Counts(c), T) = Counts(c)[o] + SumOver(Counts(c), U)
            /\ SumOver(Earned(c), T) = Earned(c)[o] + SumOver(Earned(c), U)
            /\ SumOver(Counts(d), T) = Counts(d)[o] + SumOver(Counts(d), U)
            /\ SumOver(Earned(d), T) = Earned(d)[o] + SumOver(Earned(d), U)
        BY <1>1, <2>3, <3>1, WeightsNatural, SumOverTake
      <3>3. PICK n, m : n = SumOver(Counts(c), U) /\ m = SumOver(Earned(c), U)
        OBVIOUS
      <3>4. n \in Nat /\ m \in Nat
        BY <1>1, <3>3, WeightsNatural, SumOverNatural
      <3>5. PICK a, b, a2, b2 : /\ a = Count(c[o]) /\ b = Count(c[o]) * c[o].total
                                /\ a2 = Count(x) /\ b2 = Count(x) * x.total
        OBVIOUS
      <3>6. a \in Nat /\ b \in Nat /\ a2 \in Nat /\ b2 \in Nat
        <4>1. c[o].total \in Nat /\ x.total \in Nat
          BY <1>1 DEF ContributionRec
        <4>2. Count(c[o]) \in {0, 1} /\ Count(x) \in {0, 1}
          BY DEF Count
        <4> QED
          BY <3>5, <4>1, <4>2
      <3>7. Counts(c)[o] = a /\ Earned(c)[o] = b /\ Counts(d)[o] = a2 /\ Earned(d)[o] = b2
        BY <1>2, <3>5 DEF Counts, Earned
      <3>8. daily[day] = [count |-> a + n, sales |-> b + m]
        BY <2>2, <2>5, <3>2, <3>3, <3>7
      <3>9. DailyAfter(o, c[o], x)[day] =
              [count |-> daily[day].count - a + a2, sales |-> daily[day].sales - b + b2]
        BY <2>5, <2>7, <3>5 DEF DailyAfter
      <3>10. DailyOf(d)[day] = [count |-> a2 + n, sales |-> b2 + m]
        BY <2>2, <2>4, <3>2, <3>3, <3>7
      <3>11. (a + n) - a + a2 = a2 + n /\ (b + m) - b + b2 = b2 + m
        BY <3>4, <3>6
      <3>12. daily[day].count = a + n /\ daily[day].sales = b + m
        BY <3>8
      <3> QED
        BY <3>9, <3>10, <3>11, <3>12
    <2> QED
      BY <2>6, <2>7
  <1>4. /\ DailyAfter(o, c[o], x) = [day \in Days |-> DailyAfter(o, c[o], x)[day]]
        /\ DailyOf(d) = [day \in Days |-> DailyOf(d)[day]]
    <2>1. daily = [day \in Days |-> daily[day]]
      BY DEF DailyOf
    <2> QED
      BY <2>1 DEF DailyAfter, DailyOf
  <1> QED
    BY <1>3, <1>4

-----------------------------------------------------------------------------
(* Handlers and rebuilds *)

\* What an order's events say of its end, by their positions.
LEMMA EndFacts ==
  ASSUME SInv, NEW o \in Orders, NEW n \in DOMAIN orderEvents[o]
  PROVE  LET e == orderEvents[o]
         IN /\ n \in 1 .. Len(e) /\ n \in Nat /\ e[n] \in OrderEventRec
            /\ e[n].type = "deleted" =>
                 /\ HasDeletionEvent(o) /\ e[n].revision = DeletionRevision(o)
                 /\ order[o].status = "deleted"
            /\ e[n].type = "completed" =>
                 /\ e[n].revision <= order[o].revision /\ e[n].basket = order[o].basket
                 /\ order[o].status \in {"COMPLETED", "deleted"}
  <1>1. PICK e \in Seq(OrderEventRec) : e = orderEvents[o]
    BY DEF SInv, OInv, OrdersTyped
  <1>2. DOMAIN e = 1 .. Len(e) /\ Len(e) \in Nat /\ n \in 1 .. Len(e) /\ e[n] \in OrderEventRec
    BY <1>1
  <1>3. Told(o) /\ Ended(o)
    BY DEF SInv, OInv
  <1>4. e[n].type = "deleted" => n = Len(e) /\ e # <<>>
    BY <1>1, <1>2, <1>3 DEF Told
  <1>5. e[n].type = "deleted" =>
          /\ HasDeletionEvent(o) /\ e[n].revision = DeletionRevision(o)
          /\ order[o].status = "deleted"
    BY <1>1, <1>3, <1>4 DEF HasDeletionEvent, DeletionRevision, Ended
  <1>6. e[n].type = "completed" =>
          /\ e[n].revision <= order[o].revision /\ e[n].basket = order[o].basket
          /\ order[o].status \in {"COMPLETED", "deleted"}
    BY <1>1, <1>2, <1>3 DEF Told, Ended
  <1> QED
    BY <1>1, <1>2, <1>5, <1>6

\* What a handler makes of an event is a contribution.
LEMMA IncomingTyped ==
  ASSUME NEW e \in OrderEventRec
  PROVE  /\ Incoming(e) \in ContributionRec /\ Incoming(e).revision = e.revision
         /\ e.type = "completed" => Incoming(e) = Contribution(e.revision, Total(e.basket), "completed")
         /\ e.type = "deleted" => Incoming(e) = Contribution(e.revision, 0, "deleted")
  <1>1. Total(e.basket) \in Nat /\ e.revision \in Nat
    BY TotalNatural DEF OrderEventRec
  <1> QED
    BY <1>1 DEF Incoming, Contribution, ContributionRec

\* What a handler leaves of the order it was told of.
LEMMA AppliedFollowed ==
  ASSUME SInv, NEW o \in Orders, NEW n \in DOMAIN orderEvents[o],
         orderEvents[o][n].type \in {"completed", "deleted"},
         order'[o] = order[o], orderEvents'[o] = orderEvents[o], initialized' = initialized,
         applied'[o] = applied[o] \cup {n},
         contribution'[o] = IF ShouldApply(contribution[o], Incoming(orderEvents[o][n]))
                            THEN Incoming(orderEvents[o][n]) ELSE contribution[o]
  PROVE  /\ Followed(o)'
         /\ contribution[o].state = "deleted" => contribution'[o] = contribution[o]
         /\ contribution'[o].revision >= contribution[o].revision
  <1>1. PICK e \in Seq(OrderEventRec) : e = orderEvents[o]
    BY DEF SInv, OInv, OrdersTyped
  <1>2. PICK c \in ContributionRec : c = contribution[o]
    BY DEF SInv, SalesTyped
  <1>3. PICK x \in ContributionRec : x = Incoming(e[n])
    BY <1>1, EndFacts, IncomingTyped
  <1>4. /\ x.revision = e[n].revision /\ e[n].type \in {"completed", "deleted"}
        /\ e[n].type = "completed" => x = Contribution(e[n].revision, Total(e[n].basket), "completed")
        /\ e[n].type = "deleted" => x = Contribution(e[n].revision, 0, "deleted")
    BY <1>1, <1>3, EndFacts, IncomingTyped
  <1>5. /\ n \in 1 .. Len(e)
        /\ e[n].type = "deleted" =>
             /\ HasDeletionEvent(o) /\ e[n].revision = DeletionRevision(o)
             /\ order[o].status = "deleted"
        /\ e[n].type = "completed" =>
             /\ e[n].revision <= order[o].revision /\ e[n].basket = order[o].basket
             /\ order[o].status \in {"COMPLETED", "deleted"}
    BY <1>1, EndFacts
  <1>6. /\ Ended(o) /\ Followed(o)
        /\ order[o].revision \in Nat /\ c.revision \in Nat /\ x.revision \in Nat
    <2>1. order[o] \in OrderRec
      BY DEF SInv, OInv, OrdersTyped
    <2> QED
      BY <2>1 DEF SInv, OrderRec, ContributionRec
  <1>7. e[n].type = "deleted" => DeletionRevision(o) = order[o].revision + 1
    BY <1>5, <1>6 DEF Ended
  <1>8. PICK y \in ContributionRec : y = contribution'[o]
    BY <1>1, <1>2, <1>3
  <1>9. /\ ShouldApply(c, x) => y = x
        /\ ~ShouldApply(c, x) => y = c
    BY <1>1, <1>2, <1>3, <1>8
  <1>10. /\ applied[o] \subseteq 1 .. Len(e)
         /\ c.state = "none" => c = NoContribution
         /\ order[o].status = "absent" => c.state = "none"
         /\ c.state # "deleted" => c.revision <= order[o].revision
         /\ c.state = "deleted" =>
              HasDeletionEvent(o) /\ c = Contribution(DeletionRevision(o), 0, "deleted")
         /\ c.state = "completed" =>
              order[o].status \in {"COMPLETED", "deleted"} /\ c.total = Total(order[o].basket)
         /\ c.state = "inactive" =>
              \A z \in 1 .. Len(e) : e[z].type = "completed" => e[z].revision > c.revision
         /\ \A z \in applied[o] :
              /\ e[z].type = "completed" => c.state \in {"completed", "deleted"}
              /\ e[z].type = "deleted" => c.state = "deleted"
         /\ initialized /\ Exists(o) /\ order[o].key = NoKey => c.state = "completed"
    BY <1>1, <1>2, <1>6 DEF Followed
  <1>11. x.state = e[n].type /\ x.state # "none" /\ x.state # "inactive"
    BY <1>4 DEF Contribution
  <1>12. ~ShouldApply(c, x) /\ e[n].type = "completed" => c.state \in {"completed", "deleted"}
    <2>1. c.state \in {"none", "completed", "inactive", "deleted"}
      BY DEF ContributionRec
    <2> QED
      BY <1>4, <1>5, <1>6, <1>10, <2>1 DEF ShouldApply
  <1>13. ~ShouldApply(c, x) /\ e[n].type = "deleted" => c.state = "deleted"
    BY <1>4, <1>5, <1>6, <1>7, <1>10 DEF ShouldApply
  <1>14. \A z \in applied'[o] :
            /\ e[z].type = "completed" => y.state \in {"completed", "deleted"}
            /\ e[z].type = "deleted" => y.state = "deleted"
    <2>1. ASSUME NEW z \in applied[o]
          PROVE  /\ e[z].type = "completed" => y.state \in {"completed", "deleted"}
                 /\ e[z].type = "deleted" => y.state = "deleted"
      <3>1. CASE ShouldApply(c, x)
        BY <1>4, <1>9, <1>10, <1>11, <3>1 DEF ShouldApply
      <3>2. CASE ~ShouldApply(c, x)
        BY <1>9, <1>10, <3>2
      <3> QED
        BY <3>1, <3>2
    <2>2. /\ e[n].type = "completed" => y.state \in {"completed", "deleted"}
          /\ e[n].type = "deleted" => y.state = "deleted"
      BY <1>9, <1>11, <1>12, <1>13
    <2> QED
      BY <2>1, <2>2
  <1>15. y.state = "completed" =>
           order[o].status \in {"COMPLETED", "deleted"} /\ y.total = Total(order[o].basket)
    BY <1>4, <1>5, <1>9, <1>10, <1>11 DEF Contribution
  <1>16. y.state # "deleted" => y.revision <= order[o].revision
    BY <1>4, <1>5, <1>9, <1>10, <1>11
  <1>17. y.state = "deleted" =>
           HasDeletionEvent(o) /\ y = Contribution(DeletionRevision(o), 0, "deleted")
    BY <1>4, <1>5, <1>9, <1>10, <1>11
  <1>18. order[o].status = "absent" => y.state = "none"
    BY <1>4, <1>5, <1>9, <1>10
  <1>19. y.state = "none" => y = NoContribution
    BY <1>9, <1>10, <1>11
  <1>20. y.state = "inactive" =>
           \A z \in 1 .. Len(e) : e[z].type = "completed" => e[z].revision > y.revision
    BY <1>9, <1>10, <1>11
  <1>21. initialized /\ Exists(o) /\ order[o].key = NoKey => y.state = "completed"
    BY <1>4, <1>5, <1>9, <1>10, <1>11, CompletedStays DEF Exists
  <1>22. /\ Exists(o)' = Exists(o) /\ HasDeletionEvent(o)' = HasDeletionEvent(o)
         /\ DeletionRevision(o)' = DeletionRevision(o)
    BY DEF Exists, HasDeletionEvent, DeletionRevision
  <1>23. Total(order[o].basket)' = Total(order[o].basket)
    BY DEF Total, SumOver, MapThenSumSet, MapThenFoldSet
  <1>24. Followed(o)'
    <2>1. applied'[o] \subseteq 1 .. Len(e)
      BY <1>5, <1>10
    <2> QED
      BY <1>1, <1>8, <2>1, <1>14, <1>15, <1>16, <1>17, <1>18, <1>19, <1>20, <1>21, <1>22, <1>23
      DEF Followed
  <1>25. c.state = "deleted" => y = c
    BY <1>9 DEF ShouldApply
  <1>26. y.revision >= c.revision
    BY <1>6, <1>9, <1>10 DEF ShouldApply, NoContribution, Contribution
  <1> QED
    BY <1>2, <1>8, <1>24, <1>25, <1>26

\* What DeletionIsFinal asks of a step.
Final ==
    \A o \in Orders :
        /\ contribution[o].state = "deleted" => contribution'[o] = contribution[o]
        /\ contribution'[o].revision >= contribution[o].revision

\* No contribution changes.
LEMMA NothingFollows ==
  ASSUME SInv, contribution' = contribution
  PROVE  Final
  <1>1. ASSUME NEW o \in Orders
        PROVE  contribution[o].revision \in Nat
    BY DEF SInv, SalesTyped, ContributionRec
  <1> QED
    BY <1>1 DEF Final

\* apply_order_event
LEMMA ApplyFollowed ==
  ASSUME SInv, OInv', NEW o \in Orders, NEW n \in DOMAIN orderEvents[o], ApplyOrderEvent(o, n)
  PROVE  SInv' /\ Final
  <1>1. PICK c \in [Orders -> ContributionRec] : c = contribution
    BY DEF SInv, SalesTyped
  <1>2. PICK x \in ContributionRec : x = Incoming(orderEvents[o][n])
    BY EndFacts, IncomingTyped
  <1>3. /\ orderEvents[o][n].type \in {"completed", "deleted"}
        /\ applied' = [applied EXCEPT ![o] = @ \cup {n}]
        /\ ShouldApply(c[o], x) =>
             contribution' = [c EXCEPT ![o] = x] /\ daily' = DailyAfter(o, c[o], x)
        /\ ~ShouldApply(c[o], x) => contribution' = c /\ daily' = daily
        /\ UNCHANGED <<stockVars, created>>
    BY <1>1, <1>2 DEF ApplyOrderEvent
  <1>4. /\ order' = order /\ orderEvents' = orderEvents /\ initialized' = initialized
        /\ created' = created
    BY <1>3 DEF stockVars, orders, ledger
  <1>5. SalesTyped /\ daily = DailyOf(contribution) /\ n \in Nat
    BY EndFacts DEF SInv
  <1>6. PICK d \in [Orders -> ContributionRec] : d = contribution'
    BY <1>1, <1>2, <1>3
  <1>7. SalesTyped'
    <2>1. applied' \in [Orders -> SUBSET Nat]
      BY <1>3, <1>5 DEF SalesTyped
    <2> QED
      BY <1>4, <1>5, <1>6, <2>1 DEF SalesTyped
  <1>8. daily' = DailyOf(contribution)'
    <2>1. daily' = DailyOf(d)
      <3>1. CASE ShouldApply(c[o], x)
        <4>1. d = [c EXCEPT ![o] = x]
          BY <1>3, <1>6, <3>1
        <4> QED
          BY <1>1, <1>3, <1>5, <3>1, <4>1, DailyShifts
      <3>2. CASE ~ShouldApply(c[o], x)
        BY <1>1, <1>3, <1>5, <1>6, <3>2
      <3> QED
        BY <3>1, <3>2
    <2> QED
      BY <1>4, <1>6, <2>1, DailyMoves
  <1>9. /\ applied'[o] = applied[o] \cup {n}
        /\ \A p \in Orders : p # o => applied'[p] = applied[p] /\ contribution'[p] = contribution[p]
    BY <1>1, <1>3, <1>5 DEF SalesTyped
  <1>10. contribution'[o] = IF ShouldApply(contribution[o], Incoming(orderEvents[o][n]))
                            THEN Incoming(orderEvents[o][n]) ELSE contribution[o]
    BY <1>1, <1>2, <1>3
  <1>11. /\ Followed(o)'
         /\ contribution[o].state = "deleted" => contribution'[o] = contribution[o]
         /\ contribution'[o].revision >= contribution[o].revision
    BY <1>3, <1>4, <1>9, <1>10, AppliedFollowed
  <1>12. Ended(o)'
    BY <1>4 DEF SInv, Ended, Exists, HasDeletionEvent, DeletionRevision
  <1>13. \A p \in Orders : p # o => Ended(p)' /\ Followed(p)'
    BY <1>4, <1>9, FollowedRests
  <1>14. Final
    <2>1. ASSUME NEW p \in Orders, p # o
          PROVE  contribution'[p] = contribution[p] /\ contribution[p].revision \in Nat
      BY <1>1, <1>9, <2>1 DEF ContributionRec
    <2> QED
      BY <1>11, <2>1 DEF Final
  <1> QED
    BY <1>7, <1>8, <1>11, <1>12, <1>13, <1>14 DEF SInv

\* repo.baseline, case by case.
LEMMA Baselines ==
  ASSUME NEW o \in Orders
  PROVE  /\ order[o].status = "COMPLETED" =>
              SalesBaseline(o) = Contribution(order[o].revision, Total(order[o].basket), "completed")
         /\ Exists(o) /\ order[o].status # "COMPLETED" =>
              SalesBaseline(o) = Contribution(order[o].revision, 0, "inactive")
         /\ ~Exists(o) /\ HasDeletionEvent(o) =>
              SalesBaseline(o) = Contribution(DeletionRevision(o), 0, "deleted")
         /\ ~Exists(o) /\ ~HasDeletionEvent(o) => SalesBaseline(o) = NoContribution
  <1>1. order[o].status = "COMPLETED" => Exists(o)
    BY CompletedStays DEF Exists
  <1> HIDE DEF Exists
  <1>2. CASE order[o].status = "COMPLETED"
    BY <1>1, <1>2 DEF SalesBaseline
  <1>3. CASE order[o].status # "COMPLETED" /\ Exists(o)
    BY <1>3 DEF SalesBaseline
  <1>4. CASE ~Exists(o) /\ HasDeletionEvent(o)
    BY <1>1, <1>4 DEF SalesBaseline
  <1>5. CASE ~Exists(o) /\ ~HasDeletionEvent(o)
    BY <1>1, <1>5 DEF SalesBaseline
  <1> QED
    BY <1>1, <1>2, <1>3, <1>4, <1>5

\* A rebuild always knows what became of an order it has a contribution of.
LEMMA AlwaysRebuildable == SInv => RebuildPossible
  <1> SUFFICES ASSUME SInv, NEW o \in Orders, SalesBaseline(o) = NoContribution
               PROVE  contribution[o].state \in {"none", "deleted"}
    BY DEF RebuildPossible, BaselineComplete
  <1>1. \A r, t : /\ Contribution(r, t, "completed") # NoContribution
                  /\ Contribution(r, t, "inactive") # NoContribution
                  /\ Contribution(r, t, "deleted") # NoContribution
    <2>1. NoContribution.state = "none"
      BY DEF NoContribution, Contribution
    <2>2. \A r, t : /\ Contribution(r, t, "completed").state = "completed"
                    /\ Contribution(r, t, "inactive").state = "inactive"
                    /\ Contribution(r, t, "deleted").state = "deleted"
      BY DEF Contribution
    <2> QED
      BY <2>1, <2>2
  <1>2. ~Exists(o) /\ ~HasDeletionEvent(o)
    BY <1>1, Baselines
  <1>3. order[o].status \in AnyStatus
    BY DEF SInv, OInv, OrdersTyped, OrderRec
  <1>4. order[o].status = "absent"
    BY <1>2, <1>3 DEF SInv, Ended, Exists, AnyStatus
  <1> QED
    BY <1>4 DEF SInv, Followed

\* What a rebuild makes of one order.
LEMMA RebuiltFollowed ==
  ASSUME SInv, NEW o \in Orders, order'[o] = order[o], orderEvents'[o] = orderEvents[o],
         applied'[o] = applied[o],
         contribution'[o] = IF SalesBaseline(o) = NoContribution
                            THEN contribution[o] ELSE SalesBaseline(o)
  PROVE  /\ contribution'[o] \in ContributionRec /\ Ended(o)' /\ Followed(o)'
         /\ contribution[o].state = "deleted" => contribution'[o] = contribution[o]
         /\ contribution'[o].revision >= contribution[o].revision
  <1>1. PICK e \in Seq(OrderEventRec) : e = orderEvents[o]
    BY DEF SInv, OInv, OrdersTyped
  <1>2. PICK c \in ContributionRec : c = contribution[o]
    BY DEF SInv, SalesTyped
  <1>3. PICK x : x = SalesBaseline(o)
    OBVIOUS
  <1>4. PICK y : y = contribution'[o]
    OBVIOUS
  <1>5. /\ order[o].status = "COMPLETED" =>
             x = Contribution(order[o].revision, Total(order[o].basket), "completed")
        /\ Exists(o) /\ order[o].status # "COMPLETED" =>
             x = Contribution(order[o].revision, 0, "inactive")
        /\ ~Exists(o) /\ HasDeletionEvent(o) =>
             x = Contribution(DeletionRevision(o), 0, "deleted")
        /\ ~Exists(o) /\ ~HasDeletionEvent(o) => x = NoContribution
    BY <1>3, Baselines
  <1>6. /\ order[o].revision \in Nat /\ Total(order[o].basket) \in Nat /\ c.revision \in Nat
        /\ order[o].status \in AnyStatus
    <2>1. order[o] \in OrderRec
      BY DEF SInv, OInv, OrdersTyped
    <2> QED
      BY <2>1, TotalNatural DEF OrderRec, ContributionRec
  <1>7. Ended(o) /\ Followed(o)
    BY DEF SInv
  <1>8. /\ applied[o] \subseteq 1 .. Len(e)
        /\ c.state = "none" => c = NoContribution
        /\ order[o].status = "absent" => c.state = "none"
        /\ c.state # "deleted" => c.revision <= order[o].revision
        /\ c.state = "deleted" =>
             HasDeletionEvent(o) /\ c = Contribution(DeletionRevision(o), 0, "deleted")
        /\ \A z \in applied[o] : e[z].type = "deleted" => c.state = "deleted"
    BY <1>1, <1>2, <1>7 DEF Followed
  <1>9. /\ order[o].status = "deleted" <=> HasDeletionEvent(o)
        /\ HasDeletionEvent(o) => DeletionRevision(o) = order[o].revision + 1
        /\ \A z \in 1 .. Len(e) : e[z].type = "completed" =>
             order[o].status \in {"COMPLETED", "deleted"}
        /\ Exists(o) /\ order[o].key = NoKey => order[o].status = "COMPLETED"
    BY <1>1, <1>7 DEF Ended
  <1>10. Exists(o) => ~HasDeletionEvent(o)
    BY <1>9, CompletedStays DEF Exists
  <1>11. \/ Exists(o) /\ order[o].status = "COMPLETED"
         \/ Exists(o) /\ order[o].status \notin {"COMPLETED", "deleted", "absent"}
         \/ ~Exists(o) /\ HasDeletionEvent(o) /\ order[o].status = "deleted"
         \/ ~Exists(o) /\ ~HasDeletionEvent(o) /\ order[o].status = "absent"
    BY <1>6, <1>9, CompletedStays DEF AnyStatus, Exists
  <1>12. /\ Exists(o)' = Exists(o) /\ HasDeletionEvent(o)' = HasDeletionEvent(o)
         /\ DeletionRevision(o)' = DeletionRevision(o)
    BY DEF Exists, HasDeletionEvent, DeletionRevision
  <1>13. Total(order[o].basket)' = Total(order[o].basket)
    BY DEF Total, SumOver, MapThenSumSet, MapThenFoldSet
  <1>14. Ended(o)'
    BY <1>7, <1>12 DEF Ended
  <1>15. /\ y = IF x = NoContribution THEN c ELSE x
         /\ orderEvents'[o] = e /\ NoContribution.state = "none" /\ NoContribution.revision = 0
    BY <1>1, <1>2, <1>3, <1>4 DEF NoContribution, Contribution
  <1> USE <1>4, <1>12, <1>13
  <1>16. CASE Exists(o) /\ order[o].status = "COMPLETED"
    <2>1. /\ x \in ContributionRec /\ x.state = "completed" /\ x.revision = order[o].revision
          /\ x.total = Total(order[o].basket)
      BY <1>5, <1>6, <1>16 DEF Contribution, ContributionRec
    <2>2. y = x /\ c.state # "deleted"
      BY <1>8, <1>10, <1>15, <1>16, <2>1
    <2>3. Followed(o)'
      BY <1>6, <1>8, <1>15, <1>16, <2>1, <2>2 DEF Followed
    <2> QED
      BY <1>2, <1>6, <1>8, <1>14, <2>1, <2>2, <2>3
  <1>17. CASE Exists(o) /\ order[o].status \notin {"COMPLETED", "deleted", "absent"}
    <2>1. x \in ContributionRec /\ x.state = "inactive" /\ x.revision = order[o].revision
      BY <1>5, <1>6, <1>17 DEF Contribution, ContributionRec
    <2>2. y = x /\ c.state # "deleted"
      BY <1>8, <1>10, <1>15, <1>17, <2>1
    <2>3. Followed(o)'
      BY <1>6, <1>8, <1>9, <1>15, <1>17, <2>1, <2>2 DEF Followed
    <2> QED
      BY <1>2, <1>6, <1>8, <1>14, <2>1, <2>2, <2>3
  <1>18. CASE ~Exists(o) /\ HasDeletionEvent(o) /\ order[o].status = "deleted"
    <2>1. /\ x \in ContributionRec /\ x.state = "deleted" /\ x.revision = order[o].revision + 1
          /\ x = Contribution(DeletionRevision(o), 0, "deleted")
      BY <1>5, <1>6, <1>9, <1>18 DEF Contribution, ContributionRec
    <2>2. y = x
      BY <1>15, <2>1
    <2>3. c.state = "deleted" => y = c
      BY <1>8, <2>1, <2>2
    <2>4. Followed(o)'
      BY <1>6, <1>8, <1>15, <1>18, <2>1, <2>2 DEF Followed
    <2>5. y.revision >= c.revision
      BY <1>6, <1>8, <2>1, <2>2, <2>3
    <2> QED
      BY <1>2, <1>14, <2>1, <2>2, <2>3, <2>4, <2>5
  <1>19. CASE ~Exists(o) /\ ~HasDeletionEvent(o) /\ order[o].status = "absent"
    <2>1. y = c /\ c.state = "none" /\ c = NoContribution
      BY <1>5, <1>8, <1>15, <1>19
    <2>2. Followed(o)'
      BY <1>2, <1>7, <1>15, <1>19, <2>1 DEF Followed
    <2> QED
      BY <1>2, <1>6, <1>14, <2>1, <2>2
  <1> QED
    BY <1>11, <1>16, <1>17, <1>18, <1>19

\* rebuild_analytics_projection, alone or with the initialization.
LEMMA RebuildFollowed ==
  ASSUME SInv, OInv', RebuildAnalytics, UNCHANGED orders
  PROVE  SInv' /\ Final
  <1>1. PICK d : d = [o \in Orders |-> IF SalesBaseline(o) = NoContribution
                                        THEN contribution[o] ELSE SalesBaseline(o)]
    OBVIOUS
  <1>2. /\ contribution' = d /\ daily' = DailyOf(d) /\ created' = created /\ applied' = applied
        /\ order' = order /\ orderEvents' = orderEvents
    BY <1>1 DEF RebuildAnalytics, orders
  <1>3. \A o \in Orders : contribution'[o] = IF SalesBaseline(o) = NoContribution
                                              THEN contribution[o] ELSE SalesBaseline(o)
    BY <1>1, <1>2
  <1>4. ASSUME NEW o \in Orders
        PROVE  /\ contribution'[o] \in ContributionRec /\ Ended(o)' /\ Followed(o)'
               /\ contribution[o].state = "deleted" => contribution'[o] = contribution[o]
               /\ contribution'[o].revision >= contribution[o].revision
    BY <1>2, <1>3, RebuiltFollowed
  <1>5. daily' = DailyOf(contribution)'
    BY <1>2, DailyMoves
  <1>6. SalesTyped'
    <2>1. contribution' \in [Orders -> ContributionRec]
      BY <1>1, <1>2, <1>4
    <2> QED
      BY <1>2, <2>1 DEF SInv, SalesTyped
  <1>7. Final
    BY <1>4 DEF Final
  <1> QED
    BY <1>4, <1>5, <1>6, <1>7 DEF SInv

-----------------------------------------------------------------------------
(* Every step, and the start *)

\* A step that analytics, maintenance and orders have no part in.
LEMMA NothingMoves ==
  ASSUME SInv, OInv', UNCHANGED sales, order' = order, orderEvents' = orderEvents,
         initialized' = initialized
  PROVE  SInv' /\ Final
  <1>1. /\ created' = created /\ contribution' = contribution /\ daily' = daily
        /\ applied' = applied
    BY DEF sales
  <1>2. SalesTyped'
    BY <1>1 DEF SInv, SalesTyped
  <1>3. daily' = DailyOf(contribution)'
    BY <1>1, DailyMoves DEF SInv
  <1>4. \A p \in Orders : Ended(p)' /\ Followed(p)'
    BY <1>1, FollowedRests
  <1> QED
    BY <1>1, <1>2, <1>3, <1>4, NothingFollows DEF SInv

LEMMA SalesNextSound ==
  ASSUME SInv, [SalesNext]_salesVars
  PROVE  SInv' /\ Final
  <1>1. OInv'
    BY SalesNextStock, StockNextSound DEF SInv
  <1>2. CASE InitializeSales
    BY <1>1, <1>2, RebuildFollowed DEF InitializeSales
  <1>3. CASE MaintenanceRebuild
    BY <1>1, <1>3, RebuildFollowed DEF MaintenanceRebuild, stockVars
  <1>4. CASE \E o \in Orders : OrderStep(o) /\ UNCHANGED sales
    <2>1. contribution' = contribution
      BY <1>4 DEF sales
    <2> QED
      BY <1>1, <1>4, <2>1, OrderStepFollowed, NothingFollows
  <1>5. CASE \E m \in MenuItems : MenuStep(m) /\ UNCHANGED sales
    <2>1. /\ order' = order /\ orderEvents' = orderEvents /\ initialized' = initialized
          /\ UNCHANGED sales
      BY <1>5 DEF MenuStep, CreateMenuItem, ReplaceRecipe, SetAvailability, DeleteMenuItem, ledger
    <2> QED
      BY <1>1, <2>1, NothingMoves
  <1>6. CASE \E i \in Ingredients : LedgerStep(i) /\ UNCHANGED <<orders, sales>>
    <2>1. order' = order /\ orderEvents' = orderEvents /\ UNCHANGED sales
      BY <1>6 DEF orders
    <2>2. initialized' = initialized
      <3>1. PICK i \in Ingredients : LedgerStep(i)
        BY <1>6
      <3>2. ASSUME NEW q, NEW t, NEW k, CreateIngredient(i, q, t, k)
            PROVE  initialized' = initialized
        BY <3>2 DEF CreateIngredient
      <3>3. ASSUME NEW t, NEW a, UpdateIngredient(i, t, a)
            PROVE  initialized' = initialized
        BY <3>3 DEF UpdateIngredient
      <3>4. ASSUME NEW kind, NEW q, NEW k, ChangeStock(i, kind, q, k)
            PROVE  initialized' = initialized
        BY <3>4 DEF ChangeStock
      <3> QED
        BY <3>1, <3>2, <3>3, <3>4 DEF LedgerStep
    <2> QED
      BY <1>1, <2>1, <2>2, NothingMoves
  <1>7. CASE \E o \in Orders : \E n \in DOMAIN orderEvents[o] : ApplyOrderEvent(o, n)
    BY <1>1, <1>7, ApplyFollowed
  <1>8. CASE UNCHANGED salesVars
    <2>1. /\ order' = order /\ orderEvents' = orderEvents /\ initialized' = initialized
          /\ UNCHANGED sales
      BY <1>8 DEF salesVars, stockVars, orders, ledger
    <2> QED
      BY <1>1, <2>1, NothingMoves
  <1> QED
    BY <1>2, <1>3, <1>4, <1>5, <1>6, <1>7, <1>8 DEF SalesNext

\* Without completed contributions there are no sales.
LEMMA NoSalesYet ==
  ASSUME NEW c \in [Orders -> ContributionRec], \A o \in Orders : Count(c[o]) = 0,
         NEW T \in SUBSET Orders
  PROVE  SumOver(Counts(c), T) = 0 /\ SumOver(Earned(c), T) = 0
  <1>1. \A o \in Orders : Counts(c)[o] = 0 /\ Earned(c)[o] = 0
    <2>1. \A o \in Orders : c[o].total \in Nat
      BY DEF ContributionRec
    <2> QED
      BY <2>1 DEF Counts, Earned
  <1>2. IsFiniteSet(T) /\ Weighs(Counts(c), T) /\ Weighs(Earned(c), T)
    BY WeightsNatural
  <1>3. ASSUME NEW w, Weighs(w, T), \A o \in T : w[o] = 0
        PROVE  SumOver(w, T) = 0
    <2>1. PICK g : Sums(g, w, T) /\ SumOver(w, T) = g[T]
      BY <1>2, SumOverSums
    <2>2. g[T] = g[{}]
      <3>1. {} \in SUBSET T /\ T \in SUBSET T /\ {} \subseteq T
        OBVIOUS
      <3> QED
        BY <1>2, <1>3, <2>1, <3>1, SumsSkip
    <2> QED
      BY <2>1, <2>2, SumsStep
  <1> QED
    BY <1>1, <1>2, <1>3

LEMMA SalesStartSound == SalesInit => SInv
  <1> SUFFICES ASSUME SalesInit PROVE SInv
    OBVIOUS
  <1>1. OInv
    BY SalesStarts
  <1>2. /\ orderEvents = [o \in Orders |-> <<>>] /\ created \in [Orders -> Days]
        /\ contribution = [o \in Orders |-> NoContribution] /\ ~initialized
        /\ daily = [day \in Days |-> NoSales] /\ applied = [o \in Orders |-> {}]
    BY DEF SalesInit, LedgerInit
  <1>3. /\ NoContribution \in ContributionRec /\ NoContribution.state = "none"
        /\ NoContribution.revision = 0 /\ Count(NoContribution) = 0
    BY DEF NoContribution, Contribution, ContributionRec, Count
  <1>4. SalesTyped
    BY <1>2, <1>3 DEF SalesTyped
  <1>5. daily = DailyOf(contribution)
    <2>1. PICK c \in [Orders -> ContributionRec] : c = contribution
      BY <1>4 DEF SalesTyped
    <2>2. \A o \in Orders : Count(c[o]) = 0
      BY <1>2, <1>3, <2>1
    <2>3. ASSUME NEW day \in Days
          PROVE  DailyOf(c)[day] = NoSales
      <3>1. PICK T \in SUBSET Orders : T = {p \in Orders : created[p] = day}
        OBVIOUS
      <3>2. DailyOf(c)[day] = [count |-> SumOver(Counts(c), T), sales |-> SumOver(Earned(c), T)]
        BY <3>1 DEF DailyOf
      <3> QED
        BY <2>2, <3>2, NoSalesYet DEF NoSales
    <2>4. DailyOf(c) = [day \in Days |-> DailyOf(c)[day]]
      BY DEF DailyOf
    <2> QED
      BY <1>2, <2>1, <2>3, <2>4
  <1>6. \A o \in Orders : /\ order[o].status \in {"absent", "COMPLETED"}
                          /\ order[o].status = "COMPLETED" => order[o].key = NoKey
    <2>1. PICK old : order = [o \in Orders |-> IF o \in old THEN LegacyOrder ELSE NoOrderRow]
      BY DEF SalesInit
    <2>2. /\ NoOrderRow.status = "absent"
          /\ LegacyOrder.status = "COMPLETED" /\ LegacyOrder.key = NoKey
      BY DEF LegacyOrder, NoOrderRow
    <2> QED
      BY <2>1, <2>2
  <1>7. ASSUME NEW o \in Orders
        PROVE  Ended(o) /\ Followed(o)
    <2>1. orderEvents[o] = <<>> /\ Len(orderEvents[o]) = 0 /\ ~HasDeletionEvent(o)
      BY <1>2 DEF HasDeletionEvent
    <2>2. contribution[o] = NoContribution /\ applied[o] = {}
      BY <1>2
    <2>3. order[o] \in OrderRec
      BY <1>1 DEF OInv, OrdersTyped
    <2>4. order[o].revision \in Nat /\ NoContribution.revision <= order[o].revision
      BY <1>3, <2>3 DEF OrderRec
    <2>5. Ended(o)
      BY <1>6, <2>1, CompletedStays DEF Ended, Exists
    <2>6. Followed(o)
      BY <1>2, <1>3, <2>1, <2>2, <2>4 DEF Followed
    <2> QED
      BY <2>5, <2>6
  <1> QED
    BY <1>1, <1>4, <1>5, <1>7 DEF SInv

-----------------------------------------------------------------------------
(* What analytics can be trusted with *)

LEMMA TotalsAddUp == SInv => DailyAddsUp
  <1> SUFFICES ASSUME SInv PROVE DailyAddsUp
    OBVIOUS
  <1>1. PICK c \in [Orders -> ContributionRec] : c = contribution
    BY DEF SInv, SalesTyped
  <1>2. daily = DailyOf(c)
    BY <1>1 DEF SInv
  <1>3. ASSUME NEW day \in Days
        PROVE  daily[day].count >= 0 /\ daily[day].sales >= 0
    <2>1. PICK T \in SUBSET Orders : T = {p \in Orders : created[p] = day}
      OBVIOUS
    <2>2. PICK n, m : n = SumOver(Counts(c), T) /\ m = SumOver(Earned(c), T)
      OBVIOUS
    <2>3. n \in Nat /\ m \in Nat
      BY <2>2, WeightsNatural, SumOverNatural
    <2>4. daily[day] = [count |-> n, sales |-> m]
      BY <1>2, <2>1, <2>2 DEF DailyOf
    <2> QED
      BY <2>3, <2>4
  <1> QED
    BY <1>1, <1>2, <1>3 DEF DailyAddsUp

\* Once its completion and its deletion were handled, an order contributes what its
\* row says.
LEMMA SettledOrder ==
  ASSUME SInv, NEW o \in Orders,
         \A n \in DOMAIN orderEvents[o] :
            orderEvents[o][n].type \in {"completed", "deleted"} => n \in applied[o],
         \/ initialized
         \/ Exists(o) => order[o].key # NoKey
  PROVE  /\ contribution[o].state = "completed" <=> order[o].status = "COMPLETED"
         /\ contribution[o].state = "completed" =>
              contribution[o].total = Total(order[o].basket)
  <1>1. PICK e \in Seq(OrderEventRec) : e = orderEvents[o]
    BY DEF SInv, OInv, OrdersTyped
  <1>2. PICK c \in ContributionRec : c = contribution[o]
    BY DEF SInv, SalesTyped
  <1>3. Ended(o) /\ Followed(o) /\ DOMAIN e = 1 .. Len(e) /\ Len(e) \in Nat
    BY <1>1 DEF SInv
  <1>4. c.state = "completed" =>
          order[o].status \in {"COMPLETED", "deleted"} /\ c.total = Total(order[o].basket)
    BY <1>2, <1>3 DEF Followed
  <1>5. order[o].status = "deleted" => c.state = "deleted"
    <2> SUFFICES ASSUME order[o].status = "deleted"
                 PROVE  c.state = "deleted"
      OBVIOUS
    <2>1. e # <<>> /\ e[Len(e)].type = "deleted"
      BY <1>1, <1>3 DEF Ended, HasDeletionEvent
    <2>2. Len(e) \in DOMAIN e
      BY <1>3, <2>1
    <2>3. Len(e) \in applied[o]
      BY <1>1, <2>1, <2>2
    <2> QED
      BY <1>1, <1>2, <1>3, <2>1, <2>3 DEF Followed
  <1>6. order[o].status = "COMPLETED" => c.state = "completed"
    <2> SUFFICES ASSUME order[o].status = "COMPLETED"
                 PROVE  c.state = "completed"
      OBVIOUS
    <2>1. Exists(o) /\ ~HasDeletionEvent(o)
      BY <1>3, CompletedStays DEF Exists, Ended
    <2>2. c.state # "deleted"
      BY <1>2, <1>3, <2>1 DEF Followed
    <2>3. CASE order[o].key = NoKey
      BY <1>2, <1>3, <2>1, <2>3 DEF Followed
    <2>4. CASE order[o].key # NoKey
      <3>1. PICK x \in 1 .. Len(e) : e[x].type = "completed"
        BY <1>1, <1>3, <2>4 DEF Ended
      <3>2. x \in applied[o]
        BY <1>1, <1>3, <3>1
      <3> QED
        BY <1>1, <1>2, <1>3, <2>2, <3>1, <3>2 DEF Followed
    <2> QED
      BY <2>3, <2>4
  <1> QED
    BY <1>2, <1>4, <1>5, <1>6

LEMMA SalesSettle == SInv => SalesReconcile
  <1> SUFFICES ASSUME SInv,
                      \A o \in Orders : \A n \in DOMAIN orderEvents[o] :
                         orderEvents[o][n].type \in {"completed", "deleted"} => n \in applied[o],
                      initialized \/ \A o \in Orders : Exists(o) => order[o].key # NoKey
               PROVE  daily = Authoritative
    BY DEF SalesReconcile
  <1>1. PICK c \in [Orders -> ContributionRec] : c = contribution
    BY DEF SInv, SalesTyped
  <1>2. PICK a : a = [o \in Orders |->
                        IF order[o].status = "COMPLETED"
                        THEN Contribution(order[o].revision, Total(order[o].basket), "completed")
                        ELSE NoContribution]
    OBVIOUS
  <1>3. ASSUME NEW o \in Orders
        PROVE  /\ Counts(c)[o] = Counts(a)[o] /\ Earned(c)[o] = Earned(a)[o]
               /\ a[o] \in ContributionRec
    <2>1. /\ c[o].state = "completed" <=> order[o].status = "COMPLETED"
          /\ c[o].state = "completed" => c[o].total = Total(order[o].basket)
      BY <1>1, SettledOrder
    <2>2. order[o].revision \in Nat /\ Total(order[o].basket) \in Nat
      <3>1. order[o] \in OrderRec
        BY DEF SInv, OInv, OrdersTyped
      <3> QED
        BY <3>1, TotalNatural DEF OrderRec
    <2>3. CASE order[o].status = "COMPLETED"
      <3>1. a[o] = Contribution(order[o].revision, Total(order[o].basket), "completed")
        BY <1>2, <2>3
      <3>2. /\ a[o] \in ContributionRec /\ a[o].state = "completed"
            /\ a[o].total = Total(order[o].basket)
        BY <2>2, <3>1 DEF Contribution, ContributionRec
      <3>3. Count(a[o]) = 1 /\ Count(c[o]) = 1
        BY <2>1, <2>3, <3>2 DEF Count
      <3> QED
        BY <2>1, <2>3, <3>2, <3>3 DEF Counts, Earned
    <2>4. CASE order[o].status # "COMPLETED"
      <3>1. a[o] = NoContribution
        BY <1>2, <2>4
      <3>2. a[o] \in ContributionRec /\ a[o].state = "none"
        BY <3>1 DEF NoContribution, Contribution, ContributionRec
      <3>3. Count(a[o]) = 0 /\ Count(c[o]) = 0
        BY <2>1, <2>4, <3>2 DEF Count
      <3>4. Count(a[o]) * a[o].total = 0 /\ Count(c[o]) * c[o].total = 0
        <4>1. a[o].total \in Nat /\ c[o].total \in Nat
          BY <3>2 DEF ContributionRec
        <4> QED
          BY <3>3, <4>1
      <3> QED
        BY <3>2, <3>3, <3>4 DEF Counts, Earned
    <2> QED
      BY <2>3, <2>4
  <1>4. ASSUME NEW day \in Days
        PROVE  DailyOf(c)[day] = DailyOf(a)[day]
    <2>1. PICK T \in SUBSET Orders : T = {p \in Orders : created[p] = day}
      OBVIOUS
    <2>2. SumOver(Counts(c), T) = SumOver(Counts(a), T)
          /\ SumOver(Earned(c), T) = SumOver(Earned(a), T)
      BY <1>3, WeightsNatural, SumOverSame
    <2> QED
      BY <2>1, <2>2 DEF DailyOf
  <1>5. DailyOf(c) = DailyOf(a)
    <2>1. /\ DailyOf(c) = [day \in Days |-> DailyOf(c)[day]]
          /\ DailyOf(a) = [day \in Days |-> DailyOf(a)[day]]
      BY DEF DailyOf
    <2> QED
      BY <1>4, <2>1
  <1>6. Authoritative = DailyOf(a)
    BY <1>2 DEF Authoritative
  <1> QED
    BY <1>1, <1>5, <1>6 DEF SInv

-----------------------------------------------------------------------------
(* Theorems *)

\* Orders and their contributions are sound at every moment, in whatever order, after
\* whatever delay and with whatever rebuilds the events are handled.
THEOREM SalesInvariant == SalesSpec => []SInv
  <1>1. SInv /\ [SalesNext]_salesVars => SInv'
    BY SalesNextSound
  <1> QED
    BY <1>1, SalesStartSound, PTL DEF SalesSpec

\* Totals add up and never fall below zero, they are the orders' own once everything
\* that was announced was handled, and a rebuild is possible (apply_order_event,
\* rebuild_analytics_projection).
THEOREM SalesAreTrue == SalesSpec => []SalesMatchOrders
  <1>1. SInv => SalesMatchOrders
    BY TotalsAddUp, SalesSettle, AlwaysRebuildable DEF SalesMatchOrders
  <1> QED
    BY <1>1, SalesInvariant, PTL

\* A deletion is terminal, for late completions as for rebuilds, and no contribution
\* goes back to an older revision (should_apply, repo.baseline).
THEOREM DeletionsStand == SalesSpec => DeletionIsFinal
  <1>1. SInv /\ [SalesNext]_salesVars =>
          [\A o \in Orders :
             /\ contribution[o].state = "deleted" => contribution'[o] = contribution[o]
             /\ contribution'[o].revision >= contribution[o].revision]_salesVars
    BY SalesNextSound DEF Final
  <1> QED
    BY <1>1, SalesInvariant, PTL DEF SalesSpec, DeletionIsFinal

\* No order goes back: neither its status and revision, nor what analytics makes of
\* it (ensure_valid_order_transition, next_order_revision, should_apply).
THEOREM OrdersNeverGoBack == SalesSpec => OrdersMoveForward
  BY OrdersGoForward, DeletionsStand DEF OrdersMoveForward

==============================================================================
