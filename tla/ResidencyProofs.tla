--------------------------- MODULE ResidencyProofs ---------------------------
(***************************************************************************)
(* Proofs about the slot pools of module Residency: what each call of the  *)
(* participant keeps of one helper's pool, for every budget, every set of  *)
(* experts and every owner map.  The calls' order is the epoch driver's;   *)
(* module PlacementProofs composes these lemmas with it.                   *)
(***************************************************************************)
EXTENDS Residency, FiniteSetTheorems, TLAPS

\* The experts generation g of h's physical table names a slot for.
Dom(h, g) == {e \in Experts : phys[h][g][e] # Nothing}
\* The pending expert copy, a slot's record, a participant's record.
Copies == {"idle", "busy", "done", "failed"}
Entries == [expert : Experts \cup {Nothing}, epoch : Nat, state : SlotStates]
Parts == [txn : Nat, epoch : Nat, cand : Generations \cup {Nothing},
          old : Generations \cup {Nothing}, gained : SUBSET Experts,
          lost : SUBSET Experts, built : BOOLEAN, committed : BOOLEAN,
          fault : BOOLEAN]

\* One helper's share of the state has its type.
PoolTyped(h) ==
  /\ slot[h] \in [Ids(h) -> Entries]
  /\ weights[h] \in [Ids(h) -> Experts \cup {Nothing}]
  /\ phys[h] \in [Generations -> [Experts -> Ids(h) \cup {Nothing}]]
  /\ bank[h] \in [Generations -> [Experts -> Ids(h) \cup {Nothing}]]
  /\ part[h] \in Parts
  /\ copy[h] \in Copies

\* A slot either generation's table names is charged to the expert it is
\* named for.
NamesCharged(h) ==
  \A g \in Generations, e \in Experts : phys[h][g][e] # Nothing =>
    /\ slot[h][phys[h][g][e]].expert = e
    /\ slot[h][phys[h][g][e]].state # "FREE"

\* A slot in use is named by a table: none leaks.
ChargesNamed(h) ==
  \A i \in Ids(h) : slot[h][i].state # "FREE" =>
    /\ slot[h][i].expert \in Experts
    /\ \E g \in Generations : phys[h][g][slot[h][i].expert] = i

\* An expert both generations own sits in one slot.
OnePlace(h) ==
  \A e \in Experts : phys[h][0][e] # Nothing /\ phys[h][1][e] # Nothing
                       => phys[h][0][e] = phys[h][1][e]

\* A slot whose copy has ended holds the weights of its expert.
Loaded(h) ==
  \A i \in Ids(h) :
    \/ slot[h][i].state \in {"READY", "ACTIVE", "RETIRING"}
    \/ slot[h][i].state = "COPYING" /\ copy[h] = "done"
    => weights[h][i] = slot[h][i].expert

\* A participant between begin_reserve and finish_build.
Building(h) == part[h].txn # 0 /\ ~part[h].built

\* Outside the candidate under construction, the device table agrees with
\* the physical one.
BanksMatch(h) ==
  \A g \in Generations, e \in Experts :
    phys[h][g][e] # Nothing /\ ~(Building(h) /\ g = part[h].cand)
      => bank[h][g][e] = phys[h][g][e]

\* The order of the participant's flags; a copy belongs to a build.
Flags(h) ==
  /\ copy[h] # "idle" => Building(h) /\ ~part[h].fault
  /\ part[h].built => part[h].txn # 0 /\ ~part[h].fault
  /\ part[h].committed => part[h].built

\* With no transaction, only slots in service are held, by one generation.
AtRest(h) == part[h].txn = 0 =>
  /\ part[h] = NoPart
  /\ \A i \in Ids(h) : slot[h][i].state \in {"FREE", "ACTIVE"}
  /\ \E g \in Generations : Dom(h, g) = {}

\* In a transaction the candidate names what is kept and, unless it
\* failed, all that is gained.
Tables(h) == part[h].txn # 0 =>
  LET P == part[h]
  IN /\ P.old \in Generations /\ P.cand = 1 - P.old
     /\ P.gained \cap Dom(h, P.old) = {} /\ P.lost \subseteq Dom(h, P.old)
     /\ Dom(h, P.old) \ P.lost \subseteq Dom(h, P.cand)
     /\ Dom(h, P.cand) \subseteq (Dom(h, P.old) \ P.lost) \cup P.gained
     /\ ~P.fault => P.gained \subseteq Dom(h, P.cand)

\* How far a slot is follows from how far the participant is.
States(h) == part[h].txn # 0 =>
  \A i \in Ids(h) : slot[h][i].state # "FREE" =>
    LET P == part[h]
        e == slot[h][i].expert
        s == slot[h][i].state
    IN IF P.committed THEN s = (IF e \in P.lost THEN "RETIRING" ELSE "ACTIVE")
       ELSE IF e \notin P.gained THEN s = "ACTIVE"
       ELSE IF P.built THEN s = "READY"
       ELSE s \in {"RESERVED", "COPYING", "READY"}

\* The inductive invariant of one helper's pool.
PoolInv(h) ==
  /\ PoolTyped(h) /\ NamesCharged(h) /\ ChargesNamed(h) /\ OnePlace(h)
  /\ Loaded(h) /\ BanksMatch(h) /\ Flags(h) /\ AtRest(h) /\ Tables(h)
  /\ States(h)

\* Each variable of the pools is indexed by the helpers.
PoolShape ==
  /\ DOMAIN slot = Helpers /\ DOMAIN weights = Helpers /\ DOMAIN phys = Helpers
  /\ DOMAIN bank = Helpers /\ DOMAIN part = Helpers /\ DOMAIN copy = Helpers
  /\ part = [h \in Helpers |-> part[h]] /\ copy = [h \in Helpers |-> copy[h]]

\* The owner map m leaves the staging slot of h free.
Fits(h, m) == Cardinality(Owned(h, m)) <= Budget[h]

-----------------------------------------------------------------------------
(* Counting: slots are taken by rank.                                      *)

\* The rank of a member of a finite set of numbers is less than its size, and
\* two members differ in rank.
LEMMA RankFacts ==
  ASSUME NEW S \in SUBSET Nat, IsFiniteSet(S), NEW x \in S, NEW y \in S
  PROVE  /\ Below(S, x) \in Nat /\ Below(S, x) < Cardinality(S)
         /\ Below(S, x) = Below(S, y) => x = y
<1> DEFINE Lower(z) == {v \in S : v < z}
<1>1. ASSUME NEW z \in S
      PROVE  IsFiniteSet(Lower(z)) /\ Cardinality(Lower(z)) \in Nat
  <2>1. Lower(z) \in SUBSET S
    OBVIOUS
  <2> QED
    BY <2>1, FS_Subset, FS_CardinalityType
<1>2. Cardinality(S) \in Nat
  BY FS_CardinalityType
<1>3. ASSUME NEW z \in S PROVE Cardinality(Lower(z)) < Cardinality(S)
  <2>1. Lower(z) \in SUBSET S /\ z \notin Lower(z)
    OBVIOUS
  <2>2. Cardinality(Lower(z)) <= Cardinality(S) /\ Cardinality(S) # Cardinality(Lower(z))
    BY <2>1, FS_Subset
  <2> QED
    BY <2>2, <1>1, <1>2
<1>4. ASSUME NEW w \in S, NEW z \in S, w < z
      PROVE  Cardinality(Lower(w)) < Cardinality(Lower(z))
  <2>1. Lower(w) \in SUBSET Lower(z) /\ w \in Lower(z) /\ w \notin Lower(w)
    <3>1. w \in Nat /\ z \in Nat /\ \A v \in S : v \in Nat
      OBVIOUS
    <3>2. \A v \in S : v < w => v < z
      BY <3>1, <1>4
    <3>3. ~(w < w)
      BY <3>1
    <3> QED
      BY <3>2, <3>3, <1>4, Zenon
  <2>2. /\ Cardinality(Lower(w)) <= Cardinality(Lower(z))
        /\ Cardinality(Lower(z)) # Cardinality(Lower(w))
    BY <2>1, <1>1, FS_Subset
  <2> QED
    BY <2>2, <1>1
<1>5. Cardinality(Lower(x)) = Cardinality(Lower(y)) => x = y
  <2>1. x < y \/ y < x \/ x = y
    OBVIOUS
  <2> QED
    BY <2>1, <1>1, <1>4
<1> HIDE DEF Lower
<1>6. Below(S, x) = Cardinality(Lower(x)) /\ Below(S, y) = Cardinality(Lower(y))
  BY DEF Below, Lower
<1> QED
  BY <1>1, <1>3, <1>5, <1>6

\* Every rank below the size of the set is some member's.
LEMMA RankReached ==
  ASSUME NEW S \in SUBSET Nat, IsFiniteSet(S), NEW k \in Nat, k < Cardinality(S)
  PROVE  \E x \in S : Below(S, x) = k
<1> DEFINE N == Cardinality(S)
           f == [x \in S |-> Below(S, x)]
<1>1. N \in Nat
  BY FS_CardinalityType
<1>2. IsFiniteSet(0 .. N - 1) /\ Cardinality(0 .. N - 1) = N
  <2>1. 0 \in Int /\ N - 1 \in Int
    BY <1>1
  <2>2. /\ IsFiniteSet(0 .. N - 1)
        /\ Cardinality(0 .. N - 1) = IF 0 > N - 1 THEN 0 ELSE N - 1 - 0 + 1
    BY <2>1, FS_Interval
  <2> QED
    BY <2>2, <1>1
<1>3. f \in Injection(S, 0 .. N - 1)
  <2>1. \A x, y \in S : /\ Below(S, x) \in 0 .. N - 1
                        /\ Below(S, x) = Below(S, y) => x = y
    BY RankFacts, <1>1
  <2>2. f \in [S -> 0 .. N - 1] /\ \A x \in S : f[x] = Below(S, x)
    BY <2>1
  <2> HIDE DEF f
  <2> QED
    BY <2>1, <2>2 DEF Injection, IsInjective
<1>4. f \in Surjection(S, 0 .. N - 1)
  BY <1>2, <1>3, FS_Injection
<1>5. k \in 0 .. N - 1
  BY <1>1
<1> QED
  BY <1>4, <1>5 DEF Surjection

\* What Ledger::insert hands out: distinct free slots, one for each expert taken.
LEMMA TakenFacts ==
  ASSUME NEW E \in SUBSET Nat, IsFiniteSet(E), NEW F \in SUBSET Nat, IsFiniteSet(F),
         NEW d \in Taken(E, F), NEW e \in Taken(E, F)
  PROVE  /\ TakenBy(E, F, e) \in F
         /\ TakenBy(E, F, d) = TakenBy(E, F, e) => d = e
<1>1. ASSUME NEW x \in Taken(E, F)
      PROVE  TakenBy(E, F, x) \in F /\ Below(F, TakenBy(E, F, x)) = Below(E, x)
  <2>1. x \in E /\ Below(E, x) \in Nat /\ Below(E, x) < Cardinality(F)
    BY RankFacts DEF Taken
  <2>2. \E i \in F : Below(F, i) = Below(E, x)
    BY <2>1, RankReached
  <2> QED
    BY <2>2 DEF TakenBy
<1>2. d \in E /\ e \in E
  BY DEF Taken
<1> QED
  BY <1>1, <1>2, RankFacts

\* The slots of a pool are finitely many numbers, and never Nothing.
LEMMA IdFacts ==
  ASSUME NEW h \in Helpers
  PROVE  /\ Ids(h) \subseteq Nat /\ IsFiniteSet(Ids(h)) /\ Nothing \notin Ids(h)
         /\ Nothing \notin Experts /\ Budget[h] \in Nat
         /\ \A E \in SUBSET Experts : E \in SUBSET Nat /\ IsFiniteSet(E)
         /\ \A m : Owned(h, m) \subseteq Experts
<1>1. Budget[h] \in Nat
  BY BudgetAssumption
<1>2. IsFiniteSet(0 .. Budget[h])
  BY <1>1, FS_Interval
<1>3. \A E \in SUBSET Experts : E \in SUBSET Nat /\ IsFiniteSet(E)
  BY ExpertsAreIndices, FS_Subset
<1> QED
  BY <1>1, <1>2, <1>3, ExpertsAreIndices DEF Ids, Nothing, Owned

\* A pool whose other generation is empty has one charged slot for each
\* expert of the generation it holds.
LEMMA ChargedCount ==
  ASSUME NEW h \in Helpers, NEW g \in Generations, PoolTyped(h), NamesCharged(h),
         ChargesNamed(h), Dom(h, 1 - g) = {}
  PROVE  Cardinality(Charged(h)) = Cardinality(Dom(h, g))
<1> DEFINE D == Dom(h, g)
           C == Charged(h)
           f == [e \in D |-> phys[h][g][e]]
<1>1. \A e \in D : /\ e \in Experts /\ phys[h][g][e] \in Ids(h)
                   /\ slot[h][phys[h][g][e]].expert = e
                   /\ slot[h][phys[h][g][e]].state # "FREE"
  BY DEF Dom, PoolTyped, NamesCharged
<1>2. \A e \in D : phys[h][g][e] \in C
  BY <1>1 DEF Charged, Free
<1>3. f \in [D -> C] /\ \A e \in D : f[e] = phys[h][g][e]
  BY <1>2
<1>4. \A i \in C : \E e \in D : phys[h][g][e] = i
  <2> SUFFICES ASSUME NEW i \in C PROVE \E e \in D : phys[h][g][e] = i
    OBVIOUS
  <2>1. i \in Ids(h) /\ slot[h][i].state # "FREE"
    BY DEF Charged, Free
  <2>2. PICK k \in Generations : /\ slot[h][i].expert \in Experts
                                 /\ phys[h][k][slot[h][i].expert] = i
    BY <2>1 DEF ChargesNamed
  <2>3. k = g
    <3>1. i # Nothing
      BY <2>1, IdFacts
    <3>2. slot[h][i].expert \in Dom(h, k)
      BY <3>1, <2>2 DEF Dom
    <3>3. k = g \/ k = 1 - g
      BY DEF Generations
    <3> QED
      BY <3>2, <3>3
  <2> QED
    BY <2>1, <2>2, <2>3, IdFacts DEF Dom
<1>5. \A d, e \in D : phys[h][g][d] = phys[h][g][e] => d = e
  BY <1>1
<1>6. IsFiniteSet(D)
  BY IdFacts DEF Dom
<1> HIDE DEF f, D, C
<1>7. f \in Surjection(D, C)
  BY <1>3, <1>4 DEF Surjection
<1>8. f \in Injection(D, C)
  BY <1>3, <1>5 DEF Injection, IsInjective
<1>9. Cardinality(C) = Cardinality(D)
  BY <1>6, <1>7, <1>8, FS_Surjection
<1> QED
  BY <1>9 DEF D, C

\* The check of the committed budget with the departures subtracted makes sure
\* that the candidate map fits.
LEMMA BudgetCheck ==
  ASSUME NEW h \in Helpers, NEW from, NEW to,
         Cardinality(Charged(h)) = Cardinality(Owned(h, from)),
         ~OverBudget(h, Owned(h, to) \ Owned(h, from), Owned(h, from) \ Owned(h, to))
  PROVE  Fits(h, to)
<1> DEFINE A == Owned(h, from)
           B == Owned(h, to)
<1>1. IsFiniteSet(A) /\ IsFiniteSet(B)
  BY IdFacts
<1> HIDE DEF A, B
<1>2. /\ Cardinality(A) \in Nat /\ Cardinality(B) \in Nat
      /\ IsFiniteSet(A \cap B) /\ Cardinality(A \cap B) \in Nat
  BY <1>1, FS_CardinalityType, FS_Intersection
<1>3. Cardinality(A \ B) = Cardinality(A) - Cardinality(A \cap B)
  BY <1>1, FS_Difference
<1>4. Cardinality(B \ A) = Cardinality(B) - Cardinality(A \cap B)
  <2>1. A \cap B = B \cap A
    OBVIOUS
  <2> QED
    BY <1>1, <2>1, FS_Difference
<1>5. ~(Cardinality(A) - Cardinality(A \ B) + Cardinality(B \ A) > Budget[h])
  BY DEF OverBudget, A, B
<1>6. Budget[h] \in Nat
  BY IdFacts
<1>7. Cardinality(B) <= Budget[h]
  BY <1>2, <1>3, <1>4, <1>5, <1>6
<1> QED
  BY <1>7 DEF Fits, B

\* A step that leaves a helper's pool alone keeps what holds of it.
LEMMA PoolFrame ==
  ASSUME NEW h \in Helpers, PoolInv(h), slot'[h] = slot[h], weights'[h] = weights[h],
         phys'[h] = phys[h], bank'[h] = bank[h], part'[h] = part[h],
         copy'[h] = copy[h]
  PROVE  PoolInv(h)'
<1>1. PoolTyped(h)' /\ Flags(h)' /\ OnePlace(h)'
  BY DEF PoolInv, PoolTyped, Flags, OnePlace, Building
<1>2. NamesCharged(h)' /\ ChargesNamed(h)' /\ Loaded(h)' /\ BanksMatch(h)'
  BY DEF PoolInv, NamesCharged, ChargesNamed, Loaded, BanksMatch, Building
<1>3. AtRest(h)' /\ Tables(h)' /\ States(h)'
  BY DEF PoolInv, AtRest, Tables, States, Dom
<1> QED
  BY <1>1, <1>2, <1>3 DEF PoolInv

-----------------------------------------------------------------------------
(* The calls of the participant.                                           *)

\* What Participant::reserve leaves behind: the old generation's table as it
\* was, and the difference of the two maps in the participant.
NewMove(h, txn, old, from, to) ==
  /\ Dom(h, old)' = Owned(h, from)
  /\ part'[h].txn = txn /\ part'[h].old = old
  /\ part'[h].gained = Owned(h, to) \ Owned(h, from)
  /\ part'[h].lost = Owned(h, from) \ Owned(h, to)
  /\ part'[h].built = FALSE /\ part'[h].committed = FALSE
  /\ ~part'[h].fault => Fits(h, to)

\* A reservation that finds the pool at rest on the old map charges a free
\* slot to each expert it takes, and one that is not refused leaves a map
\* that fits the budget.
LEMMA ReserveKeeps ==
  ASSUME NEW h \in Helpers, PoolShape, PoolInv(h), NEW txn \in Nat, txn # 0,
         NEW epoch \in Nat, NEW old \in Generations, NEW cand \in Generations,
         cand = 1 - old, NEW from, NEW to,
         Dom(h, old) = Owned(h, from), Dom(h, cand) = {},
         ReserveSlots(h, txn, epoch, old, cand, from, to)
  PROVE  PoolInv(h)' /\ NewMove(h, txn, old, from, to)
<1> DEFINE gained == Owned(h, to) \ Owned(h, from)
           lost == Owned(h, from) \ Owned(h, to)
           over == OverBudget(h, gained, lost)
           got == IF over THEN {} ELSE Taken(gained, Free(h))
           at(e) == TakenBy(gained, Free(h), e)
           kept == Owned(h, from) \cap Owned(h, to)
<1>1. /\ part[h] = NoPart /\ part[h].txn = 0
      /\ \A i \in Ids(h) : slot[h][i].state \in {"FREE", "ACTIVE"}
  BY DEF ReserveSlots, PoolInv, AtRest
<1>2. /\ got \subseteq gained /\ gained \subseteq Experts /\ lost \subseteq Experts
      /\ kept \subseteq Experts
  BY DEF Taken, Owned
<1>3. \A d, e \in got : /\ at(e) \in Free(h) /\ at(e) \in Ids(h)
                        /\ at(d) = at(e) => d = e
  <2>1. gained \in SUBSET Nat /\ IsFiniteSet(gained)
    BY <1>2, IdFacts
  <2>2. Free(h) \in SUBSET Nat /\ IsFiniteSet(Free(h))
    <3>1. Free(h) \in SUBSET Ids(h)
      BY DEF Free
    <3> QED
      BY <3>1, IdFacts, FS_Subset
  <2>3. \A e \in Taken(gained, Free(h)) : \A d \in Taken(gained, Free(h)) :
           at(e) \in Free(h) /\ (at(d) = at(e) => d = e)
    BY <2>1, <2>2, TakenFacts
  <2> QED
    BY <2>3 DEF Free
<1>4. part'[h] = [NoPart EXCEPT !.txn = txn, !.epoch = epoch, !.cand = cand,
                         !.old = old, !.gained = gained, !.lost = lost,
                         !.fault = over \/ got # gained]
  BY DEF ReserveSlots, PoolShape
<1>5. /\ phys'[h][cand] = [e \in Experts |-> IF e \in kept THEN phys[h][old][e]
                             ELSE IF e \in got THEN at(e) ELSE Nothing]
      /\ phys'[h][old] = phys[h][old]
      /\ DOMAIN phys'[h] = Generations
  BY DEF ReserveSlots, PoolShape, PoolInv, PoolTyped, Generations
<1>6. slot'[h] = [i \in Ids(h) |->
          IF \E e \in got : at(e) = i
          THEN [expert |-> CHOOSE e \in got : at(e) = i,
                epoch |-> epoch, state |-> "RESERVED"]
          ELSE slot[h][i]]
  BY DEF ReserveSlots, PoolShape
<1>7. weights' = weights /\ bank' = bank /\ copy' = copy
  BY DEF ReserveSlots
<1>8. \A x \in Experts : x \in kept <=> x \in Dom(h, old) /\ x \notin lost
  OBVIOUS
<1>9. gained \cap Dom(h, old) = {} /\ lost \subseteq Dom(h, old)
  OBVIOUS
<1>10. (over \/ got # gained) \in BOOLEAN /\ (~(over \/ got # gained) => ~over /\ got = gained)
  OBVIOUS
<1> HIDE DEF kept, at, got, over, lost, gained
<1>11. \A e \in got : /\ slot'[h][at(e)] \in Entries /\ slot'[h][at(e)].expert = e
                       /\ slot'[h][at(e)].state = "RESERVED"
  <2> SUFFICES ASSUME NEW e \in got
               PROVE  /\ slot'[h][at(e)] \in Entries /\ slot'[h][at(e)].expert = e
                      /\ slot'[h][at(e)].state = "RESERVED"
    OBVIOUS
  <2>1. (CHOOSE d \in got : at(d) = at(e)) = e
    BY <1>3
  <2>2. at(e) \in Ids(h) /\ \E d \in got : at(d) = at(e)
    BY <1>3
  <2>3. slot'[h][at(e)] = [expert |-> e, epoch |-> epoch, state |-> "RESERVED"]
    BY <2>1, <2>2, <1>6
  <2> QED
    BY <2>3, <1>2 DEF Entries, SlotStates
<1>12. \A i \in Ids(h) : slot[h][i].state # "FREE" => slot'[h][i] = slot[h][i]
  <2>1. \A i \in Ids(h) : slot[h][i].state # "FREE" => \A e \in got : at(e) # i
    BY <1>3 DEF Free
  <2> QED
    BY <2>1, <1>6
<1>13. \A i \in Ids(h) : \/ slot'[h][i] = slot[h][i]
                         \/ \E e \in got : at(e) = i
  BY <1>6
<1>14. /\ \A e \in Experts : phys[h][old][e] \in Ids(h) \cup {Nothing}
       /\ \A e \in Experts : phys[h][cand][e] = Nothing
       /\ slot[h] \in [Ids(h) -> Entries]
  BY DEF PoolInv, PoolTyped, Dom
<1>15. \A g \in Generations : g = old \/ g = cand
  BY DEF Generations
<1>16. \A e \in Experts : /\ e \in kept => phys'[h][cand][e] = phys[h][old][e]
                                          /\ phys[h][old][e] # Nothing
                          /\ e \in got => phys'[h][cand][e] = at(e) /\ phys[h][old][e] = Nothing
                          /\ e \notin kept /\ e \notin got => phys'[h][cand][e] = Nothing
  BY <1>5, <1>8, <1>9, <1>2 DEF Dom
<1>17. PoolTyped(h)'
  <2>1. slot'[h] \in [Ids(h) -> Entries]
    <3>1. \A i \in Ids(h) : slot'[h][i] \in Entries
      BY <1>11, <1>13, <1>14, <1>2 DEF Entries, SlotStates
    <3>2. slot'[h] = [i \in Ids(h) |-> slot'[h][i]]
      BY <1>6
    <3> QED
      BY <3>1, <3>2
  <2>2. phys'[h] \in [Generations -> [Experts -> Ids(h) \cup {Nothing}]]
    <3>1. phys'[h][cand] \in [Experts -> Ids(h) \cup {Nothing}]
      BY <1>5, <1>3, <1>14
    <3>2. phys'[h][old] \in [Experts -> Ids(h) \cup {Nothing}]
      BY <1>5 DEF PoolInv, PoolTyped
    <3>3. phys'[h] = [g \in Generations |-> phys'[h][g]]
      BY DEF ReserveSlots, PoolShape, PoolInv, PoolTyped
    <3> QED
      BY <3>1, <3>2, <3>3, <1>15
  <2>3. part'[h] \in Parts
    BY <1>4, <1>2, <1>10 DEF Parts, NoPart
  <2> QED
    BY <2>1, <2>2, <2>3, <1>7 DEF PoolInv, PoolTyped, Ids, Copies
<1>18. NamesCharged(h)'
  <2>1. \A e \in Experts : phys[h][old][e] # Nothing =>
           /\ slot'[h][phys[h][old][e]].expert = e
           /\ slot'[h][phys[h][old][e]].state # "FREE"
    BY <1>12, <1>14 DEF PoolInv, NamesCharged
  <2>2. \A e \in got : slot'[h][at(e)].expert = e /\ slot'[h][at(e)].state # "FREE"
    BY <1>11
  <2> QED
    BY <2>1, <2>2, <1>5, <1>15, <1>16 DEF NamesCharged
<1>19. ChargesNamed(h)'
  <2> SUFFICES ASSUME NEW i \in Ids(h), slot'[h][i].state # "FREE"
               PROVE  /\ slot'[h][i].expert \in Experts
                      /\ \E g \in Generations : phys'[h][g][slot'[h][i].expert] = i
    BY DEF ChargesNamed, Ids
  <2>1. CASE slot'[h][i] = slot[h][i]
    <3>1. PICK g \in Generations : /\ slot[h][i].expert \in Experts
                                   /\ phys[h][g][slot[h][i].expert] = i
      BY <2>1 DEF PoolInv, ChargesNamed
    <3>2. g = old
      BY <3>1, <1>14, <1>15, IdFacts
    <3> QED
      BY <3>1, <3>2, <2>1, <1>5
  <2>2. ASSUME NEW e \in got, at(e) = i
        PROVE  /\ slot'[h][i].expert \in Experts
               /\ \E g \in Generations : phys'[h][g][slot'[h][i].expert] = i
    <3>1. slot'[h][i].expert = e /\ e \in Experts
      BY <1>11, <2>2, <1>2
    <3> QED
      BY <3>1, <2>2, <1>16
  <2> QED
    BY <2>1, <2>2, <1>13
<1>20. OnePlace(h)'
  <2>1. \A e \in Experts : phys'[h][old][e] # Nothing /\ phys'[h][cand][e] # Nothing
                             => phys'[h][old][e] = phys'[h][cand][e]
    BY <1>5, <1>16
  <2>2. (old = 0 /\ cand = 1) \/ (old = 1 /\ cand = 0)
    BY DEF Generations
  <2> QED
    BY <2>1, <2>2 DEF OnePlace
<1>21. Loaded(h)'
  <2> SUFFICES ASSUME NEW i \in Ids(h),
                      \/ slot'[h][i].state \in {"READY", "ACTIVE", "RETIRING"}
                      \/ slot'[h][i].state = "COPYING" /\ copy'[h] = "done"
               PROVE  weights'[h][i] = slot'[h][i].expert
    BY DEF Loaded, Ids
  <2>1. slot'[h][i] = slot[h][i]
    BY <1>11, <1>13
  <2> QED
    BY <2>1, <1>7 DEF PoolInv, Loaded
<1>22. /\ part'[h].txn = txn /\ part'[h].epoch = epoch /\ part'[h].old = old
       /\ part'[h].cand = cand /\ part'[h].built = FALSE /\ part'[h].committed = FALSE
       /\ part'[h].gained = gained /\ part'[h].lost = lost
       /\ part'[h].fault = (over \/ got # gained)
  BY <1>4 DEF NoPart
<1>23. BanksMatch(h)'
  <2>1. \A g \in Generations : ~(Building(h)' /\ g = part'[h].cand) => g = old
    BY <1>15, <1>22 DEF Building
  <2>2. \A e \in Experts : phys[h][old][e] # Nothing => bank[h][old][e] = phys[h][old][e]
    BY <1>1 DEF PoolInv, BanksMatch, Building
  <2> QED
    BY <2>1, <2>2, <1>5, <1>7 DEF BanksMatch
<1>24. Flags(h)'
  <2>1. copy'[h] = "idle"
    BY <1>1, <1>7 DEF PoolInv, Flags, Building
  <2> QED
    BY <2>1, <1>22 DEF Flags
<1>25. AtRest(h)'
  BY <1>22 DEF AtRest
<1>26. Dom(h, old)' = Dom(h, old) /\ Dom(h, cand)' = kept \cup got
  BY <1>2, <1>5, <1>16, <1>3, IdFacts DEF Dom
<1>27. Tables(h)'
  <2>1. kept = Dom(h, old) \ lost
    BY <1>8, <1>2 DEF Dom
  <2>2. ~part'[h].fault => gained \subseteq kept \cup got
    BY <1>10, <1>22
  <2> QED
    BY <2>1, <2>2, <1>22, <1>26, <1>9, <1>2 DEF Tables
<1>28. States(h)'
  <2> SUFFICES ASSUME NEW i \in Ids(h), slot'[h][i].state # "FREE"
               PROVE  LET e == slot'[h][i].expert
                          s == slot'[h][i].state
                      IN IF e \notin gained THEN s = "ACTIVE"
                         ELSE s \in {"RESERVED", "COPYING", "READY"}
    BY <1>22 DEF States, Ids
  <2>1. CASE slot'[h][i] = slot[h][i]
    <3>1. PICK g \in Generations : /\ slot[h][i].expert \in Experts
                                   /\ phys[h][g][slot[h][i].expert] = i
      BY <2>1 DEF PoolInv, ChargesNamed
    <3>2. g = old /\ i # Nothing
      BY <3>1, <1>14, <1>15, IdFacts
    <3>3. slot[h][i].expert \in Dom(h, old)
      BY <3>1, <3>2 DEF Dom
    <3> QED
      BY <3>3, <2>1, <1>1, <1>9
  <2>2. ASSUME NEW e \in got, at(e) = i
        PROVE  LET d == slot'[h][i].expert
                   s == slot'[h][i].state
               IN IF d \notin gained THEN s = "ACTIVE"
                  ELSE s \in {"RESERVED", "COPYING", "READY"}
    BY <1>11, <2>2, <1>2
  <2> QED
    BY <2>1, <2>2, <1>13
<1>29. ~part'[h].fault => Fits(h, to)
  <2>1. Cardinality(Charged(h)) = Cardinality(Owned(h, from))
    BY ChargedCount DEF PoolInv
  <2> QED
    BY <2>1, <1>10, <1>22, BudgetCheck DEF over, gained, lost
<1> QED
  BY <1>17, <1>18, <1>19, <1>20, <1>21, <1>22, <1>23, <1>24, <1>25, <1>26, <1>27,
     <1>28, <1>29 DEF PoolInv, NewMove, gained, lost

\* A nonempty set of experts has a least member: the upload that is next.
LEMMA LeastExpert ==
  ASSUME NEW E \in SUBSET Experts, E # {}
  PROVE  /\ (CHOOSE x \in E : \A y \in E : x <= y) \in E
<1>1. E \in SUBSET Nat /\ IsFiniteSet(E)
  BY ExpertsAreIndices, FS_Subset
<1>2. Cardinality(E) \in Nat /\ Cardinality(E) # 0
  BY <1>1, FS_CardinalityType, FS_EmptySet
<1>3. PICK x \in E : Below(E, x) = 0
  BY <1>1, <1>2, RankReached
<1>4. {y \in E : y < x} = {}
  <2>1. {y \in E : y < x} \in SUBSET E
    OBVIOUS
  <2>2. IsFiniteSet({y \in E : y < x})
    BY <2>1, <1>1, FS_Subset
  <2> QED
    BY <2>2, <1>3, FS_EmptySet DEF Below
<1>5. \A y \in E : ~(y < x)
  BY <1>4
<1>6. \A y \in E : y \in Nat /\ x \in Nat
  BY <1>1
<1>7. \A y \in E : x <= y
  BY <1>5, <1>6
<1> QED
  BY <1>7

\* The slot charged to an expert is the one a table names for it.
LEMMA OneSlot ==
  ASSUME NEW h \in Helpers, PoolInv(h), NEW i \in Ids(h), slot[h][i].state # "FREE",
         NEW g \in Generations, slot[h][i].expert \in Dom(h, g)
  PROVE  phys[h][g][slot[h][i].expert] = i
<1>1. PICK k \in Generations : /\ slot[h][i].expert \in Experts
                               /\ phys[h][k][slot[h][i].expert] = i
  BY DEF PoolInv, ChargesNamed
<1>2. i # Nothing
  BY IdFacts
<1>3. (k = 0 \/ k = 1) /\ (g = 0 \/ g = 1)
  BY DEF Generations
<1> QED
  BY <1>1, <1>2, <1>3 DEF PoolInv, OnePlace, Dom

\* A call that moves slots between states, and charges and frees none, keeps
\* the agreement of ledger and tables.
LEMMA SameCharges ==
  ASSUME NEW h \in Helpers, PoolInv(h), phys'[h] = phys[h],
         \A i \in Ids(h) : /\ slot'[h][i].expert = slot[h][i].expert
                           /\ slot'[h][i].state = "FREE" <=> slot[h][i].state = "FREE"
  PROVE  NamesCharged(h)' /\ ChargesNamed(h)' /\ OnePlace(h)'
<1>1. NamesCharged(h)'
  <2>1. \A g \in Generations, e \in Experts : phys[h][g][e] \in Ids(h) \cup {Nothing}
    BY DEF PoolInv, PoolTyped
  <2> QED
    BY <2>1 DEF PoolInv, NamesCharged
<1>2. ChargesNamed(h)'
  BY DEF PoolInv, ChargesNamed, Ids
<1>3. OnePlace(h)'
  BY DEF PoolInv, OnePlace
<1> QED
  BY <1>1, <1>2, <1>3

\* What the settling of a finished upload changes.
LEMMA SettledFacts ==
  ASSUME NEW h \in Helpers, PoolInv(h)
  PROVE  /\ Settled(h) \in [Ids(h) -> Entries]
         /\ \A i \in Ids(h) :
              /\ Settled(h)[i].expert = slot[h][i].expert
              /\ Settled(h)[i].state =
                   IF copy[h] = "done" /\ slot[h][i].state = "COPYING"
                   THEN "READY" ELSE slot[h][i].state
<1>1. slot[h] \in [Ids(h) -> Entries]
  BY DEF PoolInv, PoolTyped
<1>2. ASSUME NEW i \in Ids(h)
      PROVE  /\ Settled(h)[i] \in Entries
             /\ Settled(h)[i].expert = slot[h][i].expert
             /\ Settled(h)[i].state =
                   IF copy[h] = "done" /\ slot[h][i].state = "COPYING"
                   THEN "READY" ELSE slot[h][i].state
  <2>1. slot[h][i] \in Entries
    BY <1>1
  <2>2. CASE copy[h] = "done" /\ slot[h][i].state = "COPYING"
    <3>1. Settled(h)[i] = [slot[h][i] EXCEPT !.state = "READY"]
      BY <2>2 DEF Settled
    <3> QED
      BY <3>1, <2>1, <2>2 DEF Entries, SlotStates
  <2>3. CASE ~(copy[h] = "done" /\ slot[h][i].state = "COPYING")
    <3>1. Settled(h)[i] = slot[h][i]
      BY <2>3 DEF Settled
    <3> QED
      BY <3>1, <2>1, <2>3
  <2> QED
    BY <2>2, <2>3
<1>3. Settled(h) = [i \in Ids(h) |-> Settled(h)[i]]
  BY DEF Settled
<1> QED
  BY <1>2, <1>3

\* An upload that is queued or refused: its slot is COPYING, the one before
\* it READY, and no other expert's weights are touched.
LEMMA UploadKeeps ==
  ASSUME NEW h \in Helpers, PoolShape, PoolInv(h), part[h].txn # 0, ~part[h].fault,
         StartUpload(h) \/ UploadRefused(h)
  PROVE  PoolInv(h)' /\ part' = part /\ phys' = phys
<1> DEFINE P == part[h]
           e == CHOOSE x \in Waiting(h) : \A y \in Waiting(h) : x <= y
           j == phys[h][P.cand][e]
<1>1. /\ CopyMayProceed(h) /\ Waiting(h) # {}
      /\ slot' = [slot EXCEPT ![h] = [Settled(h) EXCEPT ![j].state = "COPYING"]]
      /\ phys' = phys /\ bank' = bank /\ part' = part
      /\ weights' = [weights EXCEPT ![h][j] = Nothing] \/ weights' = weights
      /\ copy' = [copy EXCEPT ![h] = "busy"] \/ copy' = [copy EXCEPT ![h] = "idle"]
  BY DEF StartUpload, UploadRefused
<1>2. e \in P.gained /\ P.gained \subseteq Experts
      /\ slot[h][phys[h][P.cand][e]].state = "RESERVED"
  <2>1. P.gained \subseteq Experts
    BY DEF PoolInv, PoolTyped, Parts
  <2>2. Waiting(h) \in SUBSET Experts
    BY <2>1 DEF Waiting
  <2>3. e \in Waiting(h)
    BY <2>2, <1>1, LeastExpert
  <2> QED
    BY <2>1, <2>3 DEF Waiting
<1> HIDE DEF e
<1>3. /\ P.old \in Generations /\ P.cand \in Generations /\ ~P.built /\ ~P.committed
      /\ e \in Dom(h, P.cand) /\ P.cand = 1 - P.old
  <2>1. /\ P.old \in Generations /\ P.cand = 1 - P.old
        /\ P.gained \subseteq Dom(h, P.cand)
    BY DEF PoolInv, Tables
  <2>2. P.cand \in Generations
    BY <2>1 DEF Generations
  <2> QED
    BY <2>1, <2>2, <1>1, <1>2 DEF CopyMayProceed
<1>4. j \in Ids(h) /\ slot[h][j].expert = e /\ slot[h][j].state = "RESERVED"
  <2>1. e \in Experts /\ j # Nothing
    BY <1>3 DEF Dom
  <2> QED
    BY <2>1, <1>2, <1>3 DEF PoolInv, PoolTyped, NamesCharged
<1> HIDE DEF j
<1>5. slot'[h] = [Settled(h) EXCEPT ![j].state = "COPYING"]
  BY <1>1 DEF PoolShape
<1>6. /\ slot'[h] \in [Ids(h) -> Entries]
      /\ \A i \in Ids(h) : /\ slot'[h][i].expert = slot[h][i].expert
                           /\ i # j => slot'[h][i].state = Settled(h)[i].state
      /\ slot'[h][j].state = "COPYING"
  <2>1. slot'[h][j] = [Settled(h)[j] EXCEPT !.state = "COPYING"]
    BY <1>4, <1>5, SettledFacts
  <2>2. Settled(h)[j] \in Entries
    BY <1>4, SettledFacts
  <2>3. /\ slot'[h][j] \in Entries /\ slot'[h][j].state = "COPYING"
        /\ slot'[h][j].expert = Settled(h)[j].expert
    BY <2>1, <2>2 DEF Entries, SlotStates
  <2>4. \A i \in Ids(h) : i # j => slot'[h][i] = Settled(h)[i]
    BY <1>5, SettledFacts
  <2>5. slot'[h] = [i \in Ids(h) |-> slot'[h][i]]
    BY <1>5, SettledFacts
  <2>6. \A i \in Ids(h) : slot'[h][i] \in Entries
    BY <2>3, <2>4, SettledFacts
  <2> QED
    BY <2>3, <2>4, <2>5, <2>6, <1>4, SettledFacts
<1>7. \A i \in Ids(h) : /\ slot'[h][i].expert = slot[h][i].expert
                        /\ slot'[h][i].state = "FREE" <=> slot[h][i].state = "FREE"
  BY <1>4, <1>6, SettledFacts
<1>8. weights'[h] \in [Ids(h) -> Experts \cup {Nothing}]
      /\ \A i \in Ids(h) : i # j => weights'[h][i] = weights[h][i]
  BY <1>1, <1>4 DEF PoolInv, PoolTyped, PoolShape
<1>9. copy'[h] \in {"busy", "idle"}
  BY <1>1 DEF PoolShape
<1>10. PoolTyped(h)'
  BY <1>1, <1>6, <1>8, <1>9 DEF PoolInv, PoolTyped, Ids, Copies
<1>11. NamesCharged(h)' /\ ChargesNamed(h)' /\ OnePlace(h)'
  BY <1>1, <1>7, SameCharges
<1>12. Loaded(h)'
  <2> SUFFICES ASSUME NEW i \in Ids(h),
                      slot'[h][i].state \in {"READY", "ACTIVE", "RETIRING"}
               PROVE  weights'[h][i] = slot'[h][i].expert
    BY <1>9 DEF Loaded, Ids
  <2>1. i # j /\ slot'[h][i].state = Settled(h)[i].state
    BY <1>6
  <2>2. \/ slot[h][i].state \in {"READY", "ACTIVE", "RETIRING"}
        \/ slot[h][i].state = "COPYING" /\ copy[h] = "done"
    BY <2>1, SettledFacts
  <2>3. weights[h][i] = slot[h][i].expert
    BY <2>2 DEF PoolInv, Loaded
  <2> QED
    BY <2>1, <2>3, <1>6, <1>8
<1>13. BanksMatch(h)' /\ AtRest(h)' /\ Tables(h)'
  BY <1>1 DEF PoolInv, BanksMatch, Building, AtRest, Tables, Dom
<1>14. Flags(h)'
  BY <1>1, <1>3 DEF PoolInv, Flags, Building
<1>15. States(h)'
  <2> SUFFICES ASSUME NEW i \in Ids(h), slot'[h][i].state # "FREE"
               PROVE  IF slot'[h][i].expert \notin P.gained THEN slot'[h][i].state = "ACTIVE"
                      ELSE slot'[h][i].state \in {"RESERVED", "COPYING", "READY"}
    BY <1>1, <1>3 DEF States, Ids
  <2>1. IF slot[h][i].expert \notin P.gained THEN slot[h][i].state = "ACTIVE"
        ELSE slot[h][i].state \in {"RESERVED", "COPYING", "READY"}
    BY <1>3, <1>7 DEF PoolInv, States
  <2> QED
    BY <2>1, <1>2, <1>4, <1>6, SettledFacts
<1> QED
  BY <1>1, <1>10, <1>11, <1>12, <1>13, <1>14, <1>15 DEF PoolInv

\* The candidate's pointer table is built from slots that are all READY.
LEMMA BuildKeeps ==
  ASSUME NEW h \in Helpers, PoolShape, PoolInv(h), part[h].txn # 0, ~part[h].fault,
         BuildBank(h)
  PROVE  /\ PoolInv(h)' /\ phys' = phys /\ part'[h] = [part[h] EXCEPT !.built = TRUE]
<1> DEFINE P == part[h]
<1>1. /\ CopyMayProceed(h) /\ Waiting(h) = {}
      /\ slot'[h] = Settled(h)
      /\ bank'[h] = [bank[h] EXCEPT ![P.cand] = phys[h][P.cand]]
      /\ part'[h] = [P EXCEPT !.built = TRUE]
      /\ copy'[h] = "idle" /\ weights' = weights /\ phys' = phys
  BY DEF BuildBank, PoolShape
<1>2. /\ P.old \in Generations /\ P.cand = 1 - P.old /\ P.gained \subseteq Dom(h, P.cand)
      /\ ~P.built /\ ~P.committed
  BY <1>1 DEF PoolInv, Tables, CopyMayProceed
<1>3. P.cand \in Generations /\ P \in Parts
  BY <1>2 DEF Generations, PoolInv, PoolTyped
<1>4. /\ part'[h] \in Parts /\ part'[h].txn = P.txn /\ part'[h].cand = P.cand
      /\ part'[h].old = P.old /\ part'[h].gained = P.gained /\ part'[h].lost = P.lost
      /\ part'[h].built = TRUE /\ part'[h].committed = P.committed
      /\ part'[h].fault = P.fault
  BY <1>1, <1>3 DEF Parts
<1>5. \A i \in Ids(h) : /\ slot'[h][i].expert = slot[h][i].expert
                        /\ slot'[h][i].state = "FREE" <=> slot[h][i].state = "FREE"
  BY <1>1, SettledFacts
<1>6. PoolTyped(h)'
  <2>1. bank'[h] \in [Generations -> [Experts -> Ids(h) \cup {Nothing}]]
    BY <1>1, <1>3 DEF PoolInv, PoolTyped
  <2> QED
    BY <2>1, <1>1, <1>4, SettledFacts DEF PoolInv, PoolTyped, Ids, Copies
<1>7. NamesCharged(h)' /\ ChargesNamed(h)' /\ OnePlace(h)'
  BY <1>1, <1>5, SameCharges
<1>8. Loaded(h)'
  <2> SUFFICES ASSUME NEW i \in Ids(h),
                      slot'[h][i].state \in {"READY", "ACTIVE", "RETIRING"}
               PROVE  weights'[h][i] = slot'[h][i].expert
    BY <1>1 DEF Loaded, Ids
  <2>1. \/ slot[h][i].state \in {"READY", "ACTIVE", "RETIRING"}
        \/ slot[h][i].state = "COPYING" /\ copy[h] = "done"
    BY <1>1, SettledFacts
  <2>2. weights[h][i] = slot[h][i].expert
    BY <2>1 DEF PoolInv, Loaded
  <2> QED
    BY <2>2, <1>1, <1>5
<1>9. BanksMatch(h)'
  <2> SUFFICES ASSUME NEW g \in Generations, NEW e \in Experts, phys[h][g][e] # Nothing
               PROVE  bank'[h][g][e] = phys[h][g][e]
    BY <1>1 DEF BanksMatch
  <2>1. CASE g = P.cand
    BY <2>1, <1>1 DEF PoolInv, PoolTyped
  <2>2. CASE g # P.cand
    BY <2>2, <1>1 DEF PoolInv, PoolTyped, BanksMatch
  <2> QED
    BY <2>1, <2>2
<1>10. Flags(h)' /\ AtRest(h)'
  BY <1>1, <1>2, <1>4 DEF PoolInv, Flags, AtRest
<1>11. Tables(h)'
  BY <1>1, <1>4 DEF PoolInv, Tables, Dom
<1>12. States(h)'
  <2> SUFFICES ASSUME NEW i \in Ids(h), slot'[h][i].state # "FREE"
               PROVE  IF slot'[h][i].expert \notin P.gained THEN slot'[h][i].state = "ACTIVE"
                      ELSE slot'[h][i].state = "READY"
    BY <1>2, <1>4 DEF States, Ids
  <2> DEFINE e == slot[h][i].expert
  <2>1. slot[h][i].state # "FREE"
    BY <1>5
  <2>2. IF e \notin P.gained THEN slot[h][i].state = "ACTIVE"
        ELSE slot[h][i].state \in {"RESERVED", "COPYING", "READY"}
    BY <2>1, <1>2 DEF PoolInv, States
  <2>3. ASSUME e \in P.gained PROVE slot[h][i].state # "RESERVED"
    <3>1. phys[h][P.cand][e] = i
      BY <2>1, <2>3, <1>2, <1>3, OneSlot
    <3> QED
      BY <3>1, <2>3, <1>1 DEF Waiting
  <2>4. slot[h][i].state = "COPYING" => copy[h] = "done"
    BY <1>1 DEF CopyMayProceed, Loading
  <2> QED
    BY <2>2, <2>3, <2>4, <1>1, <1>5, SettledFacts
<1> QED
  BY <1>1, <1>6, <1>7, <1>8, <1>9, <1>10, <1>11, <1>12 DEF PoolInv

\* An upload ends, with the weights in place or with the stream in error.
LEMMA StreamKeeps ==
  ASSUME NEW h \in Helpers, PoolShape, PoolInv(h), UploadLands(h) \/ UploadErrs(h)
  PROVE  PoolInv(h)' /\ phys' = phys /\ part' = part
<1>1. /\ copy[h] = "busy" /\ copy'[h] \in {"done", "failed"}
      /\ slot' = slot /\ phys' = phys /\ bank' = bank /\ part' = part
  BY DEF UploadLands, UploadErrs, PoolShape
<1>2. \/ /\ copy'[h] = "failed" /\ weights' = weights
      \/ weights'[h] = [i \in Ids(h) |->
            IF i \in Loading(h) THEN slot[h][i].expert ELSE weights[h][i]]
  BY DEF UploadLands, UploadErrs, PoolShape
<1>3. PoolTyped(h)'
  <2>1. \A i \in Ids(h) : /\ slot[h][i].expert \in Experts \cup {Nothing}
                          /\ weights[h][i] \in Experts \cup {Nothing}
    BY DEF PoolInv, PoolTyped, Entries
  <2>2. weights'[h] \in [Ids(h) -> Experts \cup {Nothing}]
    BY <2>1, <1>2 DEF PoolInv, PoolTyped
  <2> QED
    BY <2>2, <1>1 DEF PoolInv, PoolTyped, Ids, Copies
<1>4. Loaded(h)'
  BY <1>1, <1>2 DEF PoolInv, Loaded, Loading, Ids
<1>5. NamesCharged(h)' /\ ChargesNamed(h)' /\ OnePlace(h)'
  BY <1>1, SameCharges
<1>6. BanksMatch(h)' /\ AtRest(h)' /\ Tables(h)'
  BY <1>1 DEF PoolInv, BanksMatch, Building, AtRest, Tables, Dom
<1>7. States(h)' /\ Flags(h)'
  BY <1>1 DEF PoolInv, States, Flags, Building, Ids
<1> QED
  BY <1>1, <1>3, <1>4, <1>5, <1>6, <1>7 DEF PoolInv

\* Commit activates the slots of the experts that came and retires those of
\* the experts that leave, and no other.
LEMMA CommitKeeps ==
  ASSUME NEW h \in Helpers, PoolShape, PoolInv(h), part[h].built, ~part[h].committed,
         CommitSlots(h)
  PROVE  /\ PoolInv(h)' /\ phys' = phys
         /\ part'[h] = [part[h] EXCEPT !.committed = TRUE]
<1> DEFINE P == part[h]
           arrived == SlotsOf(h, P.cand, P.gained)
           departed == SlotsOf(h, P.old, P.lost)
<1>1. /\ slot'[h] = [i \in Ids(h) |->
            IF i \in arrived THEN [slot[h][i] EXCEPT !.state = "ACTIVE"]
            ELSE IF i \in departed THEN [slot[h][i] EXCEPT !.state = "RETIRING"]
            ELSE slot[h][i]]
      /\ part'[h] = [P EXCEPT !.committed = TRUE]
      /\ weights' = weights /\ phys' = phys /\ bank' = bank /\ copy' = copy
  BY DEF CommitSlots, PoolShape
<1>2. P.txn # 0 /\ ~P.fault /\ P \in Parts
  BY DEF PoolInv, Flags, PoolTyped
<1>3. /\ P.old \in Generations /\ P.cand \in Generations
      /\ P.gained \subseteq Dom(h, P.cand) /\ P.lost \subseteq Dom(h, P.old)
      /\ P.gained \cap Dom(h, P.old) = {}
  BY <1>2 DEF PoolInv, Tables, Generations
<1>4. /\ part'[h] \in Parts /\ part'[h].txn = P.txn /\ part'[h].cand = P.cand
      /\ part'[h].old = P.old /\ part'[h].gained = P.gained /\ part'[h].lost = P.lost
      /\ part'[h].built = P.built /\ part'[h].committed = TRUE
      /\ part'[h].fault = P.fault
  BY <1>1, <1>2 DEF Parts
<1>5. \A i \in Ids(h) : slot[h][i].state # "FREE" =>
         /\ i \in arrived <=> slot[h][i].expert \in P.gained
         /\ i \in departed <=> slot[h][i].expert \in P.lost
  <2> SUFFICES ASSUME NEW i \in Ids(h), slot[h][i].state # "FREE"
               PROVE  /\ i \in arrived <=> slot[h][i].expert \in P.gained
                      /\ i \in departed <=> slot[h][i].expert \in P.lost
    OBVIOUS
  <2>1. i # Nothing
    BY IdFacts
  <2>2. ASSUME NEW g \in Generations, NEW E \in SUBSET Dom(h, g)
        PROVE  i \in SlotsOf(h, g, E) <=> slot[h][i].expert \in E
    <3>1. ASSUME slot[h][i].expert \in E PROVE i \in SlotsOf(h, g, E)
      BY <3>1, <2>1, OneSlot DEF SlotsOf
    <3>2. ASSUME i \in SlotsOf(h, g, E) PROVE slot[h][i].expert \in E
      <4>1. PICK e \in E : phys[h][g][e] = i
        BY <3>2 DEF SlotsOf
      <4> QED
        BY <4>1, <2>1 DEF PoolInv, NamesCharged, Dom
    <3> QED
      BY <3>1, <3>2
  <2> QED
    BY <2>2, <1>3
<1>6. \A i \in Ids(h) : i \in arrived \/ i \in departed => slot[h][i].state # "FREE"
  <2>1. ASSUME NEW i \in Ids(h), NEW g \in Generations, NEW E \in SUBSET Dom(h, g),
               i \in SlotsOf(h, g, E)
        PROVE  slot[h][i].state # "FREE"
    <3>1. PICK e \in E : phys[h][g][e] = i
      BY <2>1 DEF SlotsOf
    <3> QED
      BY <3>1 DEF PoolInv, NamesCharged, Dom
  <2> QED
    BY <2>1, <1>3
<1>7. slot[h] \in [Ids(h) -> Entries]
  BY DEF PoolInv, PoolTyped
<1> HIDE DEF arrived, departed
<1>8. ASSUME NEW i \in Ids(h)
      PROVE  /\ slot'[h][i] \in Entries /\ slot'[h][i].expert = slot[h][i].expert
             /\ slot'[h][i].state = IF i \in arrived THEN "ACTIVE"
                                    ELSE IF i \in departed THEN "RETIRING"
                                    ELSE slot[h][i].state
  <2>1. slot'[h][i] = IF i \in arrived THEN [slot[h][i] EXCEPT !.state = "ACTIVE"]
            ELSE IF i \in departed THEN [slot[h][i] EXCEPT !.state = "RETIRING"]
            ELSE slot[h][i]
    BY <1>1
  <2>2. slot[h][i] \in Entries
    BY <1>7
  <2>3. CASE i \in arrived
    BY <2>1, <2>2, <2>3 DEF Entries, SlotStates
  <2>4. CASE i \notin arrived /\ i \in departed
    BY <2>1, <2>2, <2>4 DEF Entries, SlotStates
  <2>5. CASE i \notin arrived /\ i \notin departed
    BY <2>1, <2>2, <2>5
  <2> QED
    BY <2>3, <2>4, <2>5
<1>9. \A i \in Ids(h) : /\ slot'[h][i].expert = slot[h][i].expert
                        /\ slot'[h][i].state = "FREE" <=> slot[h][i].state = "FREE"
  BY <1>6, <1>8
<1>10. \A i \in Ids(h) : slot[h][i].state # "FREE" =>
         slot[h][i].state = IF slot[h][i].expert \in P.gained THEN "READY" ELSE "ACTIVE"
  BY <1>2 DEF PoolInv, States
<1>11. PoolTyped(h)'
  <2>1. slot'[h] = [i \in Ids(h) |-> slot'[h][i]]
    BY <1>1
  <2>2. slot'[h] \in [Ids(h) -> Entries]
    BY <2>1, <1>8
  <2> QED
    BY <2>2, <1>1, <1>4 DEF PoolInv, PoolTyped, Ids
<1>12. NamesCharged(h)' /\ ChargesNamed(h)' /\ OnePlace(h)'
  BY <1>1, <1>9, SameCharges
<1>13. copy[h] = "idle"
  BY DEF PoolInv, Flags, Building
<1>14. Loaded(h)'
  <2> SUFFICES ASSUME NEW i \in Ids(h), slot'[h][i].state # "FREE"
               PROVE  weights[h][i] = slot'[h][i].expert
    BY <1>1 DEF Loaded, Ids
  <2>1. slot[h][i].state \in {"READY", "ACTIVE"}
    BY <1>9, <1>10
  <2> QED
    BY <2>1, <1>9 DEF PoolInv, Loaded
<1>15. BanksMatch(h)' /\ Flags(h)' /\ AtRest(h)'
  BY <1>1, <1>2, <1>4, <1>13 DEF PoolInv, BanksMatch, Building, Flags, AtRest
<1>16. Tables(h)'
  BY <1>1, <1>4 DEF PoolInv, Tables, Dom
<1>17. States(h)'
  <2> SUFFICES ASSUME NEW i \in Ids(h), slot'[h][i].state # "FREE"
               PROVE  slot'[h][i].state =
                        IF slot'[h][i].expert \in P.lost THEN "RETIRING" ELSE "ACTIVE"
    BY <1>4 DEF States, Ids
  <2> QED
    BY <1>3, <1>5, <1>8, <1>9, <1>10
<1> QED
  BY <1>1, <1>11, <1>12, <1>14, <1>15, <1>16, <1>17 DEF PoolInv

\* Releasing slots and forgetting a generation puts the pool at rest on the
\* other one, when what is left charged is what that one names.
LEMMA ReleaseKeeps ==
  ASSUME NEW h \in Helpers, PoolShape, PoolInv(h), NEW S, NEW g \in Generations,
         NEW k \in Generations, k = 1 - g, Release(h, S, g), bank' = bank,
         copy'[h] = "idle",
         \A e \in Dom(h, k) : phys[h][k][e] \notin S,
         \A i \in Ids(h) : i \notin S /\ slot[h][i].state # "FREE" =>
            slot[h][i].state = "ACTIVE" /\ slot[h][i].expert \in Dom(h, k),
         ~(Building(h) /\ k = part[h].cand)
  PROVE  /\ PoolInv(h)' /\ part'[h] = NoPart
         /\ Dom(h, k)' = Dom(h, k) /\ Dom(h, g)' = {}
<1>1. /\ slot'[h] = [i \in Ids(h) |-> IF i \in S THEN FreeSlot ELSE slot[h][i]]
      /\ weights'[h] = [i \in Ids(h) |-> IF i \in S THEN Nothing ELSE weights[h][i]]
      /\ phys'[h] = [phys[h] EXCEPT ![g] = NoTable]
      /\ part'[h] = NoPart
  BY DEF Release, PoolShape
<1>2. /\ slot[h] \in [Ids(h) -> Entries]
      /\ phys[h] \in [Generations -> [Experts -> Ids(h) \cup {Nothing}]]
      /\ weights[h] \in [Ids(h) -> Experts \cup {Nothing}]
      /\ bank[h] \in [Generations -> [Experts -> Ids(h) \cup {Nothing}]]
  BY DEF PoolInv, PoolTyped
<1>3. FreeSlot \in Entries /\ FreeSlot.state = "FREE" /\ NoPart \in Parts
  BY DEF FreeSlot, Entries, SlotStates, NoPart, Parts
<1>4. NoTable \in [Experts -> Ids(h) \cup {Nothing}]
      /\ \A e \in Experts : NoTable[e] = Nothing
  BY DEF NoTable
<1>5. phys'[h][k] = phys[h][k] /\ phys'[h][g] = NoTable /\ \A x \in Generations : x = g \/ x = k
  BY <1>1, <1>2 DEF Generations
<1>6. Dom(h, k)' = Dom(h, k) /\ Dom(h, g)' = {}
  BY <1>4, <1>5 DEF Dom
<1>7. \A i \in Ids(h) : /\ i \in S => slot'[h][i] = FreeSlot
                        /\ i \notin S => slot'[h][i] = slot[h][i] /\ weights'[h][i] = weights[h][i]
  BY <1>1
<1> HIDE DEF FreeSlot, NoTable
<1>8. PoolTyped(h)'
  <2>1. slot'[h] \in [Ids(h) -> Entries]
    BY <1>1, <1>2, <1>3
  <2>2. weights'[h] \in [Ids(h) -> Experts \cup {Nothing}]
    BY <1>1, <1>2
  <2>3. phys'[h] \in [Generations -> [Experts -> Ids(h) \cup {Nothing}]]
    BY <1>1, <1>2, <1>4
  <2> QED
    BY <2>1, <2>2, <2>3, <1>1, <1>2, <1>3 DEF PoolTyped, Ids, Copies
<1>9. \A e \in Dom(h, k) : /\ e \in Experts /\ phys[h][k][e] \in Ids(h)
                           /\ slot'[h][phys[h][k][e]] = slot[h][phys[h][k][e]]
  BY <1>2, <1>7 DEF Dom
<1>10. NamesCharged(h)'
  <2> SUFFICES ASSUME NEW x \in Generations, NEW e \in Experts, phys'[h][x][e] # Nothing
               PROVE  /\ slot'[h][phys'[h][x][e]].expert = e
                      /\ slot'[h][phys'[h][x][e]].state # "FREE"
    BY DEF NamesCharged
  <2>1. x = k /\ e \in Dom(h, k)
    BY <1>4, <1>5 DEF Dom
  <2> QED
    BY <2>1, <1>5, <1>9 DEF PoolInv, NamesCharged
<1>11. \A i \in Ids(h) : slot'[h][i].state # "FREE" =>
          /\ i \notin S /\ slot'[h][i] = slot[h][i] /\ slot[h][i].state = "ACTIVE"
          /\ slot[h][i].expert \in Dom(h, k) /\ phys[h][k][slot[h][i].expert] = i
  BY <1>3, <1>7, OneSlot
<1>12. ChargesNamed(h)'
  BY <1>5, <1>11 DEF ChargesNamed, Ids, Dom
<1>13. OnePlace(h)'
  <2>1. \A e \in Experts : phys'[h][g][e] = Nothing
    BY <1>4, <1>5
  <2>2. g = 0 \/ g = 1
    BY DEF Generations
  <2> QED
    BY <2>1, <2>2 DEF OnePlace
<1>14. Loaded(h)'
  <2> SUFFICES ASSUME NEW i \in Ids(h), slot'[h][i].state # "FREE"
               PROVE  weights'[h][i] = slot'[h][i].expert
    BY DEF Loaded, Ids
  <2> QED
    BY <1>7, <1>11 DEF PoolInv, Loaded
<1>15. BanksMatch(h)'
  <2> SUFFICES ASSUME NEW x \in Generations, NEW e \in Experts, phys'[h][x][e] # Nothing
               PROVE  bank[h][x][e] = phys'[h][x][e]
    BY DEF BanksMatch
  <2>1. x = k
    BY <1>4, <1>5
  <2> QED
    BY <2>1, <1>5 DEF PoolInv, BanksMatch
<1>16. /\ part'[h].txn = 0 /\ part'[h].built = FALSE /\ part'[h].committed = FALSE
  BY <1>1 DEF NoPart
<1>17. Flags(h)' /\ Tables(h)' /\ States(h)'
  BY <1>16 DEF Flags, Tables, States
<1>18. AtRest(h)'
  <2>1. \A i \in Ids(h) : slot'[h][i].state \in {"FREE", "ACTIVE"}
    BY <1>11
  <2> QED
    BY <2>1, <1>1, <1>6 DEF AtRest, Ids
<1> QED
  BY <1>1, <1>6, <1>8, <1>10, <1>12, <1>13, <1>14, <1>15, <1>17, <1>18 DEF PoolInv

\* The reclaim after a committed move leaves the pool at rest on the
\* candidate's table.
LEMMA ReclaimKeeps ==
  ASSUME NEW h \in Helpers, PoolShape, PoolInv(h), ReclaimSlots(h),
         NEW old, NEW cand, part[h].old = old, part[h].cand = cand
  PROVE  /\ PoolInv(h)' /\ part'[h] = NoPart /\ Dom(h, old)' = {}
         /\ Dom(h, cand)' = (Dom(h, old) \ part[h].lost) \cup part[h].gained
<1> DEFINE P == part[h]
<1> PICK S : S = SlotsOf(h, part[h].old, part[h].lost)
  OBVIOUS
<1>1. P.committed /\ Release(h, S, old) /\ bank' = bank /\ copy' = copy
  BY DEF ReclaimSlots
<1>2. P.built /\ P.txn # 0 /\ ~P.fault /\ copy[h] = "idle" /\ ~Building(h)
  BY <1>1 DEF PoolInv, Flags, Building
<1>3. /\ old \in Generations /\ cand = 1 - old
      /\ P.gained \cap Dom(h, old) = {} /\ P.lost \subseteq Dom(h, old)
      /\ Dom(h, cand) = (Dom(h, old) \ P.lost) \cup P.gained
  BY <1>2 DEF PoolInv, Tables
<1>4. cand \in Generations
  BY <1>3 DEF Generations
<1>5. \A e \in Dom(h, cand) : phys[h][cand][e] \notin S
  <2> SUFFICES ASSUME NEW e \in Dom(h, cand), phys[h][cand][e] \in S PROVE FALSE
    OBVIOUS
  <2>1. PICK d \in P.lost : phys[h][old][d] = phys[h][cand][e]
    BY DEF SlotsOf
  <2>2. e \in Experts /\ d \in Experts /\ phys[h][cand][e] # Nothing
    BY <1>3 DEF Dom
  <2>3. d = e
    BY <2>1, <2>2, <1>3, <1>4 DEF PoolInv, NamesCharged
  <2> QED
    BY <2>3, <1>3
<1>6. \A i \in Ids(h) : i \notin S /\ slot[h][i].state # "FREE" =>
         slot[h][i].state = "ACTIVE" /\ slot[h][i].expert \in Dom(h, cand)
  <2> SUFFICES ASSUME NEW i \in Ids(h), i \notin S, slot[h][i].state # "FREE"
               PROVE  slot[h][i].state = "ACTIVE" /\ slot[h][i].expert \in Dom(h, cand)
    OBVIOUS
  <2>1. i # Nothing
    BY IdFacts
  <2>2. slot[h][i].expert \notin P.lost
    BY <2>1, <1>3, OneSlot DEF SlotsOf
  <2>3. PICK g \in Generations : /\ slot[h][i].expert \in Experts
                                 /\ phys[h][g][slot[h][i].expert] = i
    BY DEF PoolInv, ChargesNamed
  <2>4. slot[h][i].expert \in Dom(h, g) /\ (g = old \/ g = cand)
    BY <2>1, <2>3, <1>3 DEF Dom, Generations
  <2>5. slot[h][i].state = "ACTIVE"
    BY <1>1, <1>2, <2>2 DEF PoolInv, States
  <2> QED
    BY <2>2, <2>4, <2>5, <1>3
<1>7. old = 1 - cand /\ copy'[h] = "idle"
  BY <1>1, <1>2, <1>3 DEF Generations
<1>8. /\ PoolInv(h)' /\ part'[h] = NoPart
      /\ Dom(h, cand)' = Dom(h, cand) /\ Dom(h, old)' = {}
  BY <1>1, <1>2, <1>3, <1>4, <1>5, <1>6, <1>7, ReleaseKeeps
<1> QED
  BY <1>3, <1>8

\* The abort of an uncommitted move leaves the pool at rest on the old table.
LEMMA AbortKeeps ==
  ASSUME NEW h \in Helpers, PoolShape, PoolInv(h), AbortMove(h),
         NEW old, NEW cand, part[h].old = old, part[h].cand = cand
  PROVE  /\ PoolInv(h)' /\ part'[h] = NoPart /\ Dom(h, cand)' = {}
         /\ Dom(h, old)' = Dom(h, old)
<1> DEFINE P == part[h]
<1> PICK S : S = SlotsOf(h, part[h].cand, part[h].gained)
  OBVIOUS
<1>1. P.txn # 0 /\ ~P.committed /\ Release(h, S, cand) /\ bank' = bank /\ copy'[h] = "idle"
  BY DEF AbortMove, PoolShape
<1>2. /\ old \in Generations /\ cand = 1 - old
      /\ P.gained \cap Dom(h, old) = {}
      /\ Dom(h, cand) \subseteq (Dom(h, old) \ P.lost) \cup P.gained
      /\ P.gained \subseteq Experts
  BY <1>1 DEF PoolInv, Tables, PoolTyped, Parts
<1>3. cand \in Generations /\ old = 1 - cand /\ old # cand
  BY <1>2 DEF Generations
<1>4. \A e \in Dom(h, old) : phys[h][old][e] \notin S
  <2> SUFFICES ASSUME NEW e \in Dom(h, old), phys[h][old][e] \in S PROVE FALSE
    OBVIOUS
  <2>1. PICK d \in P.gained : phys[h][cand][d] = phys[h][old][e]
    BY DEF SlotsOf
  <2>2. e \in Experts /\ d \in Experts /\ phys[h][old][e] # Nothing
    BY <1>2 DEF Dom
  <2>3. d = e
    BY <2>1, <2>2, <1>2, <1>3 DEF PoolInv, NamesCharged
  <2> QED
    BY <2>3, <1>2
<1>5. \A i \in Ids(h) : i \notin S /\ slot[h][i].state # "FREE" =>
         slot[h][i].state = "ACTIVE" /\ slot[h][i].expert \in Dom(h, old)
  <2> SUFFICES ASSUME NEW i \in Ids(h), i \notin S, slot[h][i].state # "FREE"
               PROVE  slot[h][i].state = "ACTIVE" /\ slot[h][i].expert \in Dom(h, old)
    OBVIOUS
  <2>1. i # Nothing
    BY IdFacts
  <2>2. PICK g \in Generations : /\ slot[h][i].expert \in Experts
                                 /\ phys[h][g][slot[h][i].expert] = i
    BY DEF PoolInv, ChargesNamed
  <2>3. slot[h][i].expert \in Dom(h, g) /\ (g = old \/ g = cand)
    BY <2>1, <2>2, <1>2 DEF Dom, Generations
  <2>4. slot[h][i].expert \notin P.gained
    BY <2>1, <2>2, <2>3, <1>2 DEF SlotsOf
  <2>5. slot[h][i].state = "ACTIVE"
    BY <1>1, <2>4 DEF PoolInv, States
  <2> QED
    BY <2>3, <2>4, <2>5, <1>2
<1>6. /\ PoolInv(h)' /\ part'[h] = NoPart
      /\ Dom(h, old)' = Dom(h, old) /\ Dom(h, cand)' = {}
  BY <1>1, <1>2, <1>3, <1>4, <1>5, ReleaseKeeps
<1> QED
  BY <1>6

\* Only the pool of h changes.
OthersKept(h) ==
  /\ PoolShape'
  /\ \A k \in Helpers : k # h =>
       /\ slot'[k] = slot[k] /\ weights'[k] = weights[k] /\ phys'[k] = phys[k]
       /\ bank'[k] = bank[k] /\ part'[k] = part[k] /\ copy'[k] = copy[k]

\* A call of one participant leaves the other pools alone.
LEMMA CallIsLocal ==
  ASSUME NEW h \in Helpers, PoolShape,
         \/ UNCHANGED poolVars
         \/ \E txn, epoch, old, cand, from, to :
               ReserveSlots(h, txn, epoch, old, cand, from, to)
         \/ StartUpload(h) \/ UploadRefused(h) \/ BuildBank(h)
         \/ UploadLands(h) \/ UploadErrs(h)
         \/ CommitSlots(h) \/ ReclaimSlots(h) \/ AbortMove(h)
  PROVE  OthersKept(h)
<1>1. CASE UNCHANGED poolVars
  BY <1>1 DEF poolVars, OthersKept, PoolShape
<1>2. CASE \E txn, epoch, old, cand, from, to :
              ReserveSlots(h, txn, epoch, old, cand, from, to)
  <2>1. PICK txn, epoch, old, cand, from, to :
           ReserveSlots(h, txn, epoch, old, cand, from, to)
    BY <1>2
  <2>2. PoolShape'
    BY <2>1 DEF ReserveSlots, PoolShape
  <2> QED
    BY <2>1, <2>2 DEF ReserveSlots, OthersKept, PoolShape
<1>3. CASE StartUpload(h)
  BY <1>3 DEF StartUpload, OthersKept, PoolShape
<1>4. CASE UploadRefused(h)
  BY <1>4 DEF UploadRefused, OthersKept, PoolShape
<1>5. CASE BuildBank(h)
  BY <1>5 DEF BuildBank, OthersKept, PoolShape
<1>6. CASE UploadLands(h)
  BY <1>6 DEF UploadLands, OthersKept, PoolShape
<1>7. CASE UploadErrs(h)
  BY <1>7 DEF UploadErrs, OthersKept, PoolShape
<1>8. CASE CommitSlots(h)
  BY <1>8 DEF CommitSlots, OthersKept, PoolShape
<1>9. CASE ReclaimSlots(h)
  BY <1>9 DEF ReclaimSlots, Release, OthersKept, PoolShape
<1>10. CASE AbortMove(h)
  BY <1>10 DEF AbortMove, Release, OthersKept, PoolShape
<1> QED
  BY <1>1, <1>2, <1>3, <1>4, <1>5, <1>6, <1>7, <1>8, <1>9, <1>10

-----------------------------------------------------------------------------
(* The bootstrap, and what the invariant says of a pool.                   *)

\* Every pool starts at rest on the bootstrap map.
LEMMA PoolStarts ==
  ASSUME PoolInit
  PROVE  /\ PoolShape
         /\ \A h \in Helpers :
              /\ PoolInv(h) /\ part[h] = NoPart /\ Fits(h, InitialOwners)
              /\ Dom(h, 0) = Owned(h, InitialOwners) /\ Dom(h, 1) = {}
<1>1. PoolShape
  BY DEF PoolInit, PoolShape
<1> SUFFICES ASSUME NEW h \in Helpers
             PROVE  /\ PoolInv(h) /\ part[h] = NoPart /\ Fits(h, InitialOwners)
                    /\ Dom(h, 0) = Owned(h, InitialOwners) /\ Dom(h, 1) = {}
  BY <1>1
<1> DEFINE F == FirstTable(h)
           O == Owned(h, InitialOwners)
<1>2. O \in SUBSET Nat /\ IsFiniteSet(O) /\ O \subseteq Experts /\ Cardinality(O) \in Nat
  BY IdFacts, FS_CardinalityType DEF Owned
<1>3. \A e \in O : F[e] = Below(O, e)
  BY DEF FirstTable, Owned
<1>4. \A e \in Experts : e \notin O => F[e] = Nothing
  BY DEF FirstTable, Owned
<1>5. \A d, e \in O : /\ Below(O, e) \in Nat /\ Below(O, e) < Cardinality(O)
                      /\ Below(O, d) = Below(O, e) => d = e
  BY <1>2, RankFacts
<1>6. Cardinality(O) <= Budget[h] /\ Budget[h] \in Nat
  BY BootstrapFits, IdFacts
<1>7. \A e \in O : F[e] \in Ids(h)
  BY <1>2, <1>3, <1>5, <1>6 DEF Ids
<1>8. F \in [Experts -> Ids(h) \cup {Nothing}]
  <2>1. F = [e \in Experts |-> F[e]]
    BY DEF FirstTable
  <2> QED
    BY <2>1, <1>4, <1>7
<1> HIDE DEF F, O
<1>9. \A e \in Experts : F[e] # Nothing <=> e \in O
  BY <1>2, <1>4, <1>7, IdFacts
<1>10. \A d, e \in Experts : F[d] = F[e] /\ F[e] # Nothing => d = e
  BY <1>3, <1>5, <1>9
<1>11. /\ phys[h] = [g \in Generations |-> IF g = 0 THEN F ELSE NoTable]
       /\ bank[h] = phys[h] /\ part[h] = NoPart /\ copy[h] = "idle"
       /\ weights[h] = [i \in Ids(h) |-> IF \E e \in Experts : F[e] = i
                                         THEN CHOOSE e \in Experts : F[e] = i ELSE Nothing]
       /\ slot[h] = [i \in Ids(h) |-> IF weights[h][i] = Nothing THEN FreeSlot
                       ELSE [expert |-> weights[h][i], epoch |-> 1, state |-> "ACTIVE"]]
  BY DEF PoolInit, F
<1>12. phys[h][0] = F /\ phys[h][1] = NoTable /\ \A e \in Experts : NoTable[e] = Nothing
  BY <1>11 DEF Generations, NoTable
<1>13. \A i \in Ids(h) : /\ weights[h][i] \in Experts \cup {Nothing}
                         /\ weights[h][i] # Nothing => F[weights[h][i]] = i
  BY <1>11
<1>14. \A e \in Experts : F[e] # Nothing => F[e] \in Ids(h) /\ weights[h][F[e]] = e
  <2> SUFFICES ASSUME NEW e \in Experts, F[e] # Nothing
               PROVE  F[e] \in Ids(h) /\ weights[h][F[e]] = e
    OBVIOUS
  <2>1. F[e] \in Ids(h)
    BY <1>8
  <2>2. (CHOOSE d \in Experts : F[d] = F[e]) = e
    BY <1>10
  <2> QED
    BY <2>1, <2>2, <1>11
<1>15. ASSUME NEW i \in Ids(h)
       PROVE  /\ slot[h][i] \in Entries
              /\ weights[h][i] = Nothing => slot[h][i].state = "FREE"
              /\ weights[h][i] # Nothing => /\ slot[h][i].state = "ACTIVE"
                                            /\ slot[h][i].expert = weights[h][i]
  <2>1. CASE weights[h][i] = Nothing
    <3>1. slot[h][i] = FreeSlot
      BY <2>1, <1>11
    <3> QED
      BY <2>1, <3>1 DEF FreeSlot, Entries, SlotStates
  <2>2. CASE weights[h][i] # Nothing
    <3>1. slot[h][i] = [expert |-> weights[h][i], epoch |-> 1, state |-> "ACTIVE"]
      BY <2>2, <1>11
    <3> QED
      BY <2>2, <3>1, <1>13 DEF Entries, SlotStates
  <2> QED
    BY <2>1, <2>2
<1>16. PoolTyped(h)
  <2>1. slot[h] \in [Ids(h) -> Entries]
    <3>1. slot[h] = [i \in Ids(h) |-> slot[h][i]]
      BY <1>11
    <3> QED
      BY <3>1, <1>15
  <2>2. weights[h] \in [Ids(h) -> Experts \cup {Nothing}]
    <3>1. weights[h] = [i \in Ids(h) |-> weights[h][i]]
      BY <1>11
    <3> QED
      BY <3>1, <1>13
  <2>3. phys[h] \in [Generations -> [Experts -> Ids(h) \cup {Nothing}]]
    <3>1. NoTable \in [Experts -> Ids(h) \cup {Nothing}]
      BY DEF NoTable
    <3> QED
      BY <3>1, <1>8, <1>11
  <2>4. NoPart \in Parts
    BY DEF NoPart, Parts
  <2> QED
    BY <2>1, <2>2, <2>3, <2>4, <1>11 DEF PoolTyped, Copies
<1>17. \A g \in Generations, e \in Experts : phys[h][g][e] # Nothing =>
          g = 0 /\ phys[h][g][e] = F[e]
  BY <1>12 DEF Generations
<1>18. \A e \in Experts : F[e] # Nothing => weights[h][F[e]] # Nothing
  BY <1>14, IdFacts
<1>19. NamesCharged(h)
  BY <1>14, <1>15, <1>17, <1>18 DEF NamesCharged
<1>20. ChargesNamed(h)
  <2>1. \A i \in Ids(h) : slot[h][i].state # "FREE" =>
           slot[h][i].expert \in Experts /\ F[slot[h][i].expert] = i
    BY <1>13, <1>15
  <2>2. 0 \in Generations
    BY DEF Generations
  <2> QED
    BY <2>1, <2>2, <1>12 DEF ChargesNamed
<1>21. OnePlace(h) /\ BanksMatch(h)
  BY <1>11, <1>12 DEF OnePlace, BanksMatch
<1>22. Loaded(h)
  <2>1. \A i \in Ids(h) : slot[h][i].state # "FREE" => weights[h][i] = slot[h][i].expert
    BY <1>15
  <2> QED
    BY <2>1 DEF Loaded
<1>23. part[h].txn = 0 /\ ~part[h].built /\ ~part[h].committed
  BY <1>11 DEF NoPart
<1>24. Flags(h) /\ Tables(h) /\ States(h)
  BY <1>11, <1>23 DEF Flags, Tables, States
<1>25. Dom(h, 0) = O /\ Dom(h, 1) = {}
  BY <1>2, <1>9, <1>12 DEF Dom
<1>26. AtRest(h)
  <2>1. \A i \in Ids(h) : slot[h][i].state \in {"FREE", "ACTIVE"}
    BY <1>15
  <2>2. 1 \in Generations
    BY DEF Generations
  <2> QED
    BY <2>1, <2>2, <1>11, <1>25 DEF AtRest
<1> QED
  BY <1>6, <1>11, <1>16, <1>19, <1>20, <1>21, <1>22, <1>24, <1>25, <1>26
     DEF PoolInv, Fits, O

\* The invariant of the pools gives their type.
LEMMA PoolsTyped ==
  ASSUME PoolShape, \A h \in Helpers : PoolInv(h)
  PROVE  PoolTypeOK
<1>1. \A h \in Helpers : PoolTyped(h)
  BY DEF PoolInv
<1> QED
  BY <1>1 DEF PoolTypeOK, PoolShape, PoolTyped, Entries, Parts, Copies

\* ... and that charges and table entries are exclusive.
LEMMA PoolsExclusive ==
  ASSUME \A h \in Helpers : PoolInv(h)
  PROVE  SlotsAreExclusive
<1> SUFFICES ASSUME NEW h \in Helpers
             PROVE  /\ \A i, j \in Charged(h) : slot[h][i].expert = slot[h][j].expert => i = j
                    /\ \A g \in Generations : \A d, e \in Experts :
                         phys[h][g][d] = phys[h][g][e] /\ d # e => phys[h][g][d] = Nothing
  BY DEF SlotsAreExclusive
<1>1. ASSUME NEW i \in Charged(h), NEW j \in Charged(h), slot[h][i].expert = slot[h][j].expert
      PROVE  i = j
  <2>1. /\ i \in Ids(h) /\ slot[h][i].state # "FREE"
        /\ j \in Ids(h) /\ slot[h][j].state # "FREE" /\ i # Nothing
    BY IdFacts DEF Charged, Free
  <2>2. PICK g \in Generations : /\ slot[h][i].expert \in Experts
                                 /\ phys[h][g][slot[h][i].expert] = i
    BY <2>1 DEF PoolInv, ChargesNamed
  <2>3. slot[h][j].expert \in Dom(h, g)
    BY <2>1, <2>2, <1>1 DEF Dom
  <2>4. phys[h][g][slot[h][j].expert] = j
    BY <2>1, <2>3, OneSlot
  <2> QED
    BY <2>2, <2>4, <1>1
<1>2. \A g \in Generations : \A d, e \in Experts :
         phys[h][g][d] = phys[h][g][e] /\ d # e => phys[h][g][d] = Nothing
  BY DEF PoolInv, NamesCharged
<1> QED
  BY <1>1, <1>2

\* An expert in a table that is in use has its weights where the table says:
\* the old generation's always, the candidate's once it is built.
LEMMA TableResident ==
  ASSUME NEW h \in Helpers, PoolInv(h), NEW g \in Generations, NEW e \in Dom(h, g),
         part[h].txn # 0 => \/ part[h].built
                            \/ g = part[h].old
  PROVE  /\ bank[h][g][e] = phys[h][g][e] /\ phys[h][g][e] \in Ids(h)
         /\ weights[h][phys[h][g][e]] = e
<1> DEFINE i == phys[h][g][e]
<1>1. e \in Experts /\ i # Nothing /\ i \in Ids(h)
  BY DEF Dom, PoolInv, PoolTyped
<1>2. slot[h][i].expert = e /\ slot[h][i].state # "FREE"
  BY <1>1 DEF PoolInv, NamesCharged
<1>3. part[h].txn # 0 => /\ part[h].old \in Generations /\ part[h].cand = 1 - part[h].old
                         /\ part[h].gained \cap Dom(h, part[h].old) = {}
  BY DEF PoolInv, Tables
<1>4. part[h].txn # 0 => part[h].cand # part[h].old
  BY <1>3 DEF Generations
<1>5. bank[h][g][e] = i
  <2>1. ~(Building(h) /\ g = part[h].cand)
    BY <1>4 DEF Building
  <2> QED
    BY <2>1, <1>1 DEF PoolInv, BanksMatch
<1>6. slot[h][i].state \in {"READY", "ACTIVE", "RETIRING"}
  <2>1. CASE part[h].txn = 0
    BY <2>1, <1>1, <1>2 DEF PoolInv, AtRest
  <2>2. CASE part[h].txn # 0 /\ part[h].built
    BY <2>2, <1>1, <1>2 DEF PoolInv, States
  <2>3. CASE part[h].txn # 0 /\ ~part[h].built
    <3>1. e \notin part[h].gained /\ ~part[h].committed
      BY <2>3, <1>3 DEF PoolInv, Flags
    <3> QED
      BY <3>1, <2>3, <1>1, <1>2 DEF PoolInv, States
  <2> QED
    BY <2>1, <2>2, <2>3
<1>7. weights[h][i] = e
  BY <1>1, <1>2, <1>6 DEF PoolInv, Loaded
<1> QED
  BY <1>1, <1>5, <1>7

\* A pool at rest on a map that fits has its staging slot back.
LEMMA StagingIsBack ==
  ASSUME NEW h \in Helpers, PoolInv(h), part[h].txn = 0, NEW g \in Generations, NEW m,
         Dom(h, g) = Owned(h, m), Dom(h, 1 - g) = {}, Fits(h, m)
  PROVE  /\ Cardinality(Charged(h)) <= Budget[h]
         /\ \A i \in Charged(h) : slot[h][i].state = "ACTIVE"
<1>1. Cardinality(Charged(h)) = Cardinality(Owned(h, m))
  BY ChargedCount DEF PoolInv
<1>2. \A i \in Charged(h) : slot[h][i].state = "ACTIVE"
  BY DEF PoolInv, AtRest, Charged, Free
<1> QED
  BY <1>1, <1>2 DEF Fits

=============================================================================
