---------------------- MODULE ProofAggregation_proofs ----------------------
(***************************************************************************)
(* Proofs about the proof aggregation service and its client, for any      *)
(* batches, limit, chunk size and faults: the types of its state, that no  *)
(* run steps over a batch, that the zkVM computes the root the service     *)
(* computes, and that what a client reads from the logs and the blobs is   *)
(* what was aggregated.                                                    *)
(***************************************************************************)
EXTENDS AggregationClient, SequenceTheorems, FiniteSetTheorems, WellFoundedInduction, TLAPS

-----------------------------------------------------------------------------
(***************************************************************************)
(* The inductive invariant.  The blocks of the batches never decrease, so  *)
(* a run that has gone through the logs up to the next one has gone        *)
(* through every batch of an earlier block.                                *)
(***************************************************************************)
InOrder == \A i, j \in 1..Len(blocks) : i <= j => blocks[i] <= blocks[j]

\* What a run has done with a batch, if its proofs get published.
Covered(i) ==
    \/ Handled(i)
    \/ i \in failed
    \/ Compatibles(i) \subseteq Range(proofs)

\* TypeOK, and what it needs: the next log is one of the posted ones or comes after.
TypeInv ==
    /\ TypeOK
    /\ InOrder
    /\ next <= Len(blocks) + 1
    /\ proofs \in Seq(Proofs)

\* The file keeps the block that the run started with until the end.
Fetching ==
    /\ pc \in {"block", "fetch"} => file = last
    /\ pc = "fetch" => \A i \in 1..(next - 1) : Covered(i)

\* After the logs: what is below the block that will be written is covered.
Collected ==
    pc \in {"prove", "send", "receipt", "save", "write"} =>
        \A i \in 1..Len(blocks) : blocks[i] < last => Covered(i)

\* The transaction has the proofs, and is published before the file is touched.
Publishing ==
    /\ pc \in {"send", "receipt"} => Range(proofs) \subseteq tx.proofs
    /\ pc = "receipt" => tx \in pool \cup events \cup reverted
    /\ pc \in {"save", "write"} => \A p \in Range(proofs) : Sent(p)

\* The inductive invariant.
StepInv == TypeInv /\ NothingSteppedOver /\ Fetching /\ Collected /\ Publishing

\* The proofs collected are proofs of the service's zkVM.
OfEngine == \A p \in Range(proofs) : p.system = engine
-----------------------------------------------------------------------------
(***************************************************************************)
(* Facts about all lengths are proved by least counterexample.             *)
(***************************************************************************)
\* A non-empty set of naturals has a least member.
LEMMA LeastNatural ==
  ASSUME NEW N \in SUBSET Nat, N # {}
  PROVE  \E n \in N : \A m \in N : n <= m
<1>1. PICK n \in N : \A m \in N : <<m, n>> \notin OpToRel(<, Nat)
  BY NatLessThanWellFounded, WFMin
<1>2. \A m \in N : m < n => <<m, n>> \in OpToRel(<, Nat)
  BY DEF OpToRel
<1>3. \A m \in N : ~(m < n)
  BY <1>1, <1>2
<1> QED
  BY <1>3

\* What a sequence holds after an element, or a sequence, is added to it.
LEMMA AppendRange ==
  ASSUME NEW S, NEW s \in Seq(S), NEW e \in S
  PROVE  Append(s, e) \in Seq(S) /\ Range(Append(s, e)) = Range(s) \cup {e}
<1>1. Append(s, e) \in Seq(S)
  OBVIOUS
<1>2. /\ DOMAIN s = 1..Len(s) /\ DOMAIN Append(s, e) = 1..(Len(s) + 1)
      /\ \A i \in 1..Len(s) : Append(s, e)[i] = s[i]
      /\ Append(s, e)[Len(s) + 1] = e
  OBVIOUS
<1>3. ASSUME NEW x \in Range(Append(s, e)) PROVE x \in Range(s) \cup {e}
  <2>1. PICK i \in 1..(Len(s) + 1) : x = Append(s, e)[i]
    BY <1>2 DEF Range
  <2> QED
    BY <1>2, <2>1 DEF Range
<1>4. ASSUME NEW x \in Range(s) \cup {e} PROVE x \in Range(Append(s, e))
  BY <1>2 DEF Range
<1> QED
  BY <1>1, <1>3, <1>4

\* And after a sequence is added.
LEMMA ConcatRange ==
  ASSUME NEW S, NEW s \in Seq(S), NEW t \in Seq(S)
  PROVE  s \o t \in Seq(S) /\ Range(s \o t) = Range(s) \cup Range(t)
<1>1. s \o t \in Seq(S)
  OBVIOUS
<1>2. /\ DOMAIN s = 1..Len(s) /\ DOMAIN t = 1..Len(t)
      /\ DOMAIN (s \o t) = 1..(Len(s) + Len(t))
      /\ Len(s) \in Nat /\ Len(t) \in Nat
      /\ \A i \in 1..(Len(s) + Len(t)) :
            (s \o t)[i] = IF i <= Len(s) THEN s[i] ELSE t[i - Len(s)]
  OBVIOUS
<1>3. ASSUME NEW x \in Range(s \o t) PROVE x \in Range(s) \cup Range(t)
  <2>1. PICK i \in 1..(Len(s) + Len(t)) : x = (s \o t)[i]
    BY <1>2 DEF Range
  <2>2. i <= Len(s) \/ i - Len(s) \in 1..Len(t)
    BY <1>2
  <2> QED
    BY <1>2, <2>1, <2>2 DEF Range
<1>4. ASSUME NEW i \in 1..Len(s) PROVE s[i] \in Range(s \o t)
  BY <1>2 DEF Range
<1>5. ASSUME NEW i \in 1..Len(t) PROVE t[i] \in Range(s \o t)
  <2>1. Len(s) + i \in 1..(Len(s) + Len(t)) /\ (s \o t)[Len(s) + i] = t[i]
    BY <1>2
  <2> QED
    BY <1>2, <2>1 DEF Range
<1>6. Range(s) \cup Range(t) \subseteq Range(s \o t)
  BY <1>2, <1>4, <1>5 DEF Range
<1> QED
  BY <1>1, <1>3, <1>6

\* g[n] has the members of C among the first n elements of s, in their order.
IsFilter(g, s, C, k) ==
    g = [n \in 0..k |->
            IF n = 0 THEN <<>>
            ELSE IF s[n] \in C THEN Append(g[n - 1], s[n])
            ELSE g[n - 1]]

\* There is such a function.
LEMMA FilterExists ==
  ASSUME NEW s, NEW C, NEW k \in Nat
  PROVE  \E g : IsFilter(g, s, C, k)
<1> DEFINE N == {m \in Nat : ~ \E g : IsFilter(g, s, C, m)}
<1> SUFFICES ASSUME N # {} PROVE FALSE
  OBVIOUS
<1>1. PICK m \in N : \A x \in N : m <= x
  BY LeastNatural
<1>2. m # 0
  <2>1. IsFilter([n \in 0..0 |-> <<>>], s, C, 0)
    BY DEF IsFilter
  <2> QED
    BY <2>1
<1>3. PICK g : IsFilter(g, s, C, m - 1)
  BY <1>1, <1>2
<1> DEFINE h == [n \in 0..m |-> IF n < m THEN g[n]
                                ELSE IF s[m] \in C THEN Append(g[m - 1], s[m])
                                ELSE g[m - 1]]
<1>4. \A n \in 0..m : h[n] = IF n = 0 THEN <<>>
                             ELSE IF s[n] \in C THEN Append(h[n - 1], s[n])
                             ELSE h[n - 1]
  <2> TAKE n \in 0..m
  <2>1. CASE n = m
    BY <2>1, <1>2
  <2>2. CASE n < m
    <3>1. n \in 0..(m - 1)
      BY <2>2
    <3>2. g[n] = IF n = 0 THEN <<>>
                 ELSE IF s[n] \in C THEN Append(g[n - 1], s[n])
                 ELSE g[n - 1]
      BY <3>1, <1>3 DEF IsFilter
    <3> QED
      BY <2>2, <3>1, <3>2
  <2> QED
    BY <2>1, <2>2
<1>5. IsFilter(h, s, C, m)
  BY <1>4 DEF IsFilter
<1> QED
  BY <1>5

\* It has the type of s, and all the members of C that s has.
LEMMA FilterRange ==
  ASSUME NEW S, NEW s \in Seq(S), NEW C, NEW g, IsFilter(g, s, C, Len(s))
  PROVE  g[Len(s)] \in Seq(S) /\ Range(g[Len(s)]) = Range(s) \cap C
<1> DEFINE Good(n) == g[n] \in Seq(S) /\ Range(g[n]) = {s[j] : j \in 1..n} \cap C
<1>1. Good(0)
  <2>1. g[0] = <<>>
    BY DEF IsFilter
  <2>2. Range(<<>>) = {}
    BY DEF Range
  <2> QED
    BY <2>1, <2>2
<1>2. ASSUME NEW n \in 1..Len(s), Good(n - 1)
      PROVE  Good(n)
  <2> DEFINE before == {s[j] : j \in 1..(n - 1)}
             upto == {s[j] : j \in 1..n}
  <2>1. upto = before \cup {s[n]}
    OBVIOUS
  <2>2. s[n] \in S /\ n \in 0..Len(s) /\ n # 0
    OBVIOUS
  <2>3. g[n] = IF s[n] \in C THEN Append(g[n - 1], s[n]) ELSE g[n - 1]
    BY <2>2 DEF IsFilter
  <2>4. g[n - 1] \in Seq(S) /\ Range(g[n - 1]) = before \cap C
    BY <1>2
  <2> HIDE DEF before, upto
  <2>5. CASE s[n] \in C
    <3>1. g[n] = Append(g[n - 1], s[n])
      BY <2>3, <2>5
    <3>2. g[n] \in Seq(S) /\ Range(g[n]) = Range(g[n - 1]) \cup {s[n]}
      BY <3>1, <2>2, <2>4, AppendRange
    <3> QED
      BY <3>2, <2>1, <2>4, <2>5 DEF upto
  <2>6. CASE s[n] \notin C
    BY <2>1, <2>3, <2>4, <2>6 DEF upto
  <2> QED
    BY <2>5, <2>6
<1> DEFINE N == {n \in 0..Len(s) : ~Good(n)}
<1> HIDE DEF Good
<1> SUFFICES ASSUME N # {} PROVE FALSE
  <2>1. N = {} => Good(Len(s))
    OBVIOUS
  <2>2. Range(s) = {s[j] : j \in 1..Len(s)}
    BY DEF Range
  <2> QED
    BY <2>1, <2>2 DEF Good
<1>3. N \in SUBSET Nat
  OBVIOUS
<1>4. PICK n \in N : \A x \in N : n <= x
  <2> HIDE DEF N
  <2> QED
    BY <1>3, LeastNatural
<1>5. n \in 1..Len(s) /\ n - 1 \in 0..Len(s) /\ n - 1 \notin N
  BY <1>1, <1>4
<1> QED
  BY <1>2, <1>4, <1>5

\* The proofs of a batch are proofs.
LEMMA BatchTyped ==
  ASSUME NEW i \in 1..Len(Batches)
  PROVE  Batches[i] \in Seq(Proofs)
BY BatchesAssumption

\* ProofsToAdd takes the compatible proofs of a batch, and no others.
LEMMA ProofsToAddRange ==
  ASSUME NEW i \in 1..Len(Batches)
  PROVE  ProofsToAdd(i) \in Seq(Proofs) /\ Range(ProofsToAdd(i)) = Compatibles(i)
<1> DEFINE s == Batches[i]
           C == Compatibles(i)
           F(g) == g = [n \in 0..Len(s) |->
                           IF n = 0 THEN <<>>
                           ELSE IF Compatible(s[n]) THEN Append(g[n - 1], s[n])
                           ELSE g[n - 1]]
<1>1. s \in Seq(Proofs) /\ Len(s) \in Nat
  BY BatchTyped
<1>2. \A n \in 1..Len(s) : s[n] \in C <=> Compatible(s[n])
  BY <1>1 DEF Compatibles, Range
<1>3. ASSUME NEW g PROVE F(g) <=> IsFilter(g, s, C, Len(s))
  <2> DEFINE byTest(n) == IF n = 0 THEN <<>>
                          ELSE IF Compatible(s[n]) THEN Append(g[n - 1], s[n])
                          ELSE g[n - 1]
             bySet(n) == IF n = 0 THEN <<>>
                         ELSE IF s[n] \in C THEN Append(g[n - 1], s[n])
                         ELSE g[n - 1]
  <2>1. \A n \in 0..Len(s) : byTest(n) = bySet(n)
    BY <1>1, <1>2
  <2>2. [n \in 0..Len(s) |-> byTest(n)] = [n \in 0..Len(s) |-> bySet(n)]
    <3> HIDE DEF byTest, bySet
    <3> QED
      BY <2>1
  <2> QED
    BY <2>2 DEF IsFilter
<1>4. PICK h : h = (CHOOSE g : F(g))
  OBVIOUS
<1>5. F(h)
  <2>1. \E g : F(g)
    BY <1>1, <1>3, FilterExists
  <2> QED
    BY <2>1, <1>4
<1>6. ProofsToAdd(i) = h[Len(s)]
  BY <1>4 DEF ProofsToAdd
<1> HIDE DEF F, s, C
<1>7. h[Len(s)] \in Seq(Proofs) /\ Range(h[Len(s)]) = Range(s) \cap C
  BY <1>1, <1>3, <1>5, FilterRange
<1>8. Range(s) \cap C = C
  BY DEF C, s, Compatibles
<1> QED
  BY <1>6, <1>7, <1>8 DEF C

\* The first log of a query: the logs before it are of earlier blocks.
LEMMA FromBlockFirst ==
  ASSUME blocks \in Seq(Nat), InOrder, NEW b \in Nat
  PROVE  /\ FromBlock(b) \in 1..(Len(blocks) + 1)
         /\ \A j \in 1..(FromBlock(b) - 1) : blocks[j] < b
<1> DEFINE n == Len(blocks)
           First(i) == /\ \A j \in 1..(i - 1) : blocks[j] < b
                       /\ i <= n => blocks[i] >= b
           N == {i \in 1..(n + 1) : i <= n => blocks[i] >= b}
<1>1. n \in Nat /\ \A j \in 1..n : blocks[j] \in Nat
  OBVIOUS
<1>2. N \in SUBSET Nat /\ n + 1 \in N
  BY <1>1
<1>3. PICK i \in N : \A m \in N : i <= m
  <2> HIDE DEF N
  <2> QED
    BY <1>2, LeastNatural
<1>4. \A j \in 1..(i - 1) : j \in 1..n /\ j \notin N
  BY <1>1, <1>3
<1>5. i \in 1..(n + 1) /\ First(i)
  BY <1>1, <1>3, <1>4
<1>6. FromBlock(b) = CHOOSE k \in 1..(n + 1) : First(k)
  BY DEF FromBlock
<1> HIDE DEF First
<1>7. FromBlock(b) \in 1..(n + 1) /\ First(FromBlock(b))
  BY <1>5, <1>6
<1> QED
  BY <1>7 DEF First

-----------------------------------------------------------------------------
(***************************************************************************)
(* Types.                                                                  *)
(***************************************************************************)
LEMMA InitTyped == Init => TypeInv
<1> SUFFICES ASSUME Init PROVE TypeInv
  OBVIOUS
<1>1. Len(Batches) \in Nat /\ MaxBlock \in Nat /\ MaxFaults \in Nat
  BY BatchesAssumption, BoundsAssumption
<1>2. blocks = <<>> /\ <<>> \in Seq(1..head) /\ Len(<<>>) = 0 /\ <<>> \in Seq(Proofs)
  BY DEF Init
<1> QED
  BY <1>1, <1>2 DEF Init, TypeInv, TypeOK, InOrder, Truncated

\* The chain's variables, and a new block.
LEMMA NewBlockTyped ==
  ASSUME TypeInv, NEW n \in 0..Len(Batches), NewBlock(n)
  PROVE  /\ TypeInv'
         /\ Len(blocks) <= Len(blocks')
         /\ \A i \in 1..Len(blocks') :
               blocks'[i] = IF i <= Len(blocks) THEN blocks[i] ELSE head + 1
<1>1. /\ head \in Nat /\ MaxBlock \in Nat /\ Len(Batches) \in Nat /\ n \in Nat
      /\ head' = head + 1 /\ head' \in 0..MaxBlock
      /\ blocks \in Seq(1..head)
  BY BatchesAssumption, BoundsAssumption DEF TypeInv, TypeOK, NewBlock
<1> DEFINE t == [i \in 1..n |-> head + 1]
<1>2. blocks \in Seq(1..head') /\ t \in Seq(1..head') /\ Len(t) = n
  <2>1. \A i \in 1..Len(blocks) : blocks[i] \in 1..head'
    BY <1>1
  <2> QED
    BY <1>1, <2>1
<1>3. blocks' = blocks \o t
  BY DEF NewBlock
<1>4. \A i \in 1..n : t[i] = head + 1
  OBVIOUS
<1> HIDE DEF t
<1> DEFINE all == blocks \o t
<1>5. /\ all \in Seq(1..head') /\ Len(all) = Len(blocks) + n
      /\ \A i \in 1..Len(all) : all[i] = IF i <= Len(blocks) THEN blocks[i] ELSE t[i - Len(blocks)]
  <2>1. PICK S : S = 1..head'
    OBVIOUS
  <2> QED
    BY <1>2, <2>1
<1>6. Len(blocks) \in Nat /\ \A i \in 1..Len(blocks) : blocks[i] \in 1..head
  BY <1>1
<1> HIDE DEF all
<1>7. \A i \in 1..Len(all) : all[i] = IF i <= Len(blocks) THEN blocks[i] ELSE head + 1
  <2> TAKE i \in 1..Len(all)
  <2>1. i <= Len(blocks) \/ i - Len(blocks) \in 1..n
    BY <1>1, <1>5, <1>6
  <2> QED
    BY <1>4, <1>5, <2>1
<1>8. blocks' = all
  BY <1>3 DEF all
<1>9. InOrder'
  <2>1. \A i, j \in 1..Len(all) : i <= j => all[i] <= all[j]
    <3> SUFFICES ASSUME NEW i \in 1..Len(all), NEW j \in 1..Len(all), i <= j
                 PROVE  all[i] <= all[j]
      OBVIOUS
    <3>1. \A k, m \in 1..Len(blocks) : k <= m => blocks[k] <= blocks[m]
      BY DEF TypeInv, InOrder
    <3>2. i \in Int /\ j \in Int /\ head \in Int
      BY <1>1, <1>5
    <3>3. CASE j <= Len(blocks)
      <4>1. all[i] = blocks[i] /\ all[j] = blocks[j] /\ i \in 1..Len(blocks) /\ j \in 1..Len(blocks)
        BY <1>6, <1>7, <3>2, <3>3
      <4> QED
        BY <3>1, <4>1
    <3>4. CASE ~(j <= Len(blocks))
      <4>1. all[j] = head + 1
        BY <1>7, <3>4
      <4>2. all[i] \in 1..(head + 1)
        BY <1>1, <1>5
      <4> QED
        BY <3>2, <4>1, <4>2
    <3> QED
      BY <3>3, <3>4
  <2> QED
    BY <1>8, <2>1 DEF InOrder
<1>10. TypeOK'
  <2>1. Len(all) <= Len(Batches)
    BY <1>5 DEF NewBlock
  <2>2. blocks' \in Seq(1..head') /\ Len(blocks') <= Len(Batches)
    BY <1>5, <1>8, <2>1
  <2>3. /\ file' \in {Truncated} \cup 0..head' /\ last' \in 0..head' /\ current' \in 0..head'
    BY <1>1 DEF TypeInv, TypeOK, NewBlock, fetchVars
  <2>4. UNCHANGED <<engine, pc, next, failed, skipped, faults>>
    BY DEF NewBlock, fetchVars
  <2>5. /\ engine' \in {"SP1", "RISC0"}
        /\ pc' \in {"off", "block", "fetch", "prove", "send", "receipt", "save", "write"}
        /\ next' \in 1..(Len(Batches) + 1)
        /\ failed' \subseteq 1..Len(Batches) /\ skipped' \subseteq 1..Len(Batches)
        /\ faults' \in 0..MaxFaults
    BY <2>4 DEF TypeInv, TypeOK
  <2> QED
    BY <1>1, <2>2, <2>3, <2>5 DEF TypeOK
<1>11. next' <= Len(blocks') + 1 /\ proofs' \in Seq(Proofs)
  <2>1. next' = next /\ proofs' = proofs /\ next \in Nat
    BY <1>1 DEF TypeInv, TypeOK, NewBlock, fetchVars
  <2> QED
    BY <1>1, <1>5, <1>6, <1>8, <2>1 DEF TypeInv
<1>12. /\ Len(blocks) <= Len(blocks')
       /\ \A i \in 1..Len(blocks') :
             blocks'[i] = IF i <= Len(blocks) THEN blocks[i] ELSE head + 1
  BY <1>1, <1>5, <1>6, <1>7, <1>8
<1> QED
  BY <1>9, <1>10, <1>11, <1>12 DEF TypeInv

\* The part of the types that a step of the run may change.
RunTyped ==
    /\ file \in {Truncated} \cup 0..head
    /\ pc \in {"off", "block", "fetch", "prove", "send", "receipt", "save", "write"}
    /\ last \in 0..head /\ current \in 0..head /\ next \in 1..(Len(blocks) + 1)
    /\ failed \subseteq 1..Len(Batches) /\ skipped \subseteq 1..Len(Batches)
    /\ faults \in 0..MaxFaults
    /\ proofs \in Seq(Proofs)

\* The invariant, in terms of what a step of the run may change.
LEMMA TypeParts ==
  TypeInv <=> /\ head \in 0..MaxBlock
              /\ blocks \in Seq(1..head) /\ Len(blocks) <= Len(Batches)
              /\ engine \in {"SP1", "RISC0"}
              /\ InOrder
              /\ RunTyped
<1>1. Len(Batches) \in Nat
  BY BatchesAssumption
<1>2. blocks \in Seq(1..head) => Len(blocks) \in Nat
  OBVIOUS
<1> QED
  BY <1>1, <1>2 DEF TypeInv, TypeOK, RunTyped

\* A step that leaves the chain and the zkVM alone.
LEMMA TypeFrame ==
  ASSUME TypeInv, UNCHANGED <<head, blocks, engine>>, RunTyped'
  PROVE  TypeInv'
<1>1. /\ head \in 0..MaxBlock
      /\ blocks \in Seq(1..head) /\ Len(blocks) <= Len(Batches)
      /\ engine \in {"SP1", "RISC0"}
      /\ InOrder
  BY TypeParts
<1>2. /\ head' \in 0..MaxBlock
      /\ blocks' \in Seq(1..head') /\ Len(blocks') <= Len(Batches)
      /\ engine' \in {"SP1", "RISC0"}
      /\ InOrder'
  BY <1>1 DEF InOrder
<1>3. Len(Batches) \in Nat /\ Len(blocks') \in Nat
  BY <1>2, BatchesAssumption
<1> QED
  BY <1>2, <1>3, SMTT(30) DEF TypeInv, TypeOK, RunTyped

\* The numbers of the state.
LEMMA Numbers ==
  ASSUME TypeInv
  PROVE  /\ head \in Nat /\ Len(blocks) \in Nat /\ Len(Batches) \in Nat
         /\ MaxFaults \in Nat /\ faults \in 0..MaxFaults
         /\ blocks \in Seq(Nat) /\ \A i \in 1..Len(blocks) : blocks[i] \in 1..head
         /\ Len(blocks) <= Len(Batches)
         /\ next \in 1..(Len(blocks) + 1)
<1>1. blocks \in Seq(1..head) /\ head \in Nat /\ MaxFaults \in Nat
  BY BoundsAssumption DEF TypeInv, TypeOK
<1>2. \A i \in 1..Len(blocks) : blocks[i] \in Nat
  BY <1>1
<1> QED
  BY <1>1, <1>2, BatchesAssumption DEF TypeInv, TypeOK

\* The process ends.
LEMMA ExitTyped ==
  ASSUME TypeInv, Exit, UNCHANGED <<head, blocks, engine>>,
         file' \in {Truncated} \cup 0..head, skipped' \subseteq 1..Len(Batches),
         faults' \in 0..MaxFaults
  PROVE  TypeInv'
<1>1. 0 \in 0..head' /\ 1 \in 1..(Len(blocks') + 1) /\ <<>> \in Seq(Proofs)
  BY Numbers
<1>2. RunTyped'
  BY <1>1 DEF RunTyped, Exit
<1> QED
  BY <1>2, TypeFrame

\* A step of the run that does not end it, and of the transactions.
LEMMA StepTyped ==
  ASSUME TypeInv,
         \/ Start \/ (\E b \in 0..head : GetLogs(b)) \/ AddProofs \/ StopAtLimit \/ FetchDone
         \/ DownloadFails \/ Send \/ GetReceipt \/ TruncateFile
         \/ (\E t \in pool : MineVerify(t) \/ RevertVerify(t))
  PROVE  TypeInv' /\ UNCHANGED <<head, blocks, engine>>
<1>1. RunTyped
  BY TypeParts
<1>2. Fault => faults' \in 0..MaxFaults
  BY Numbers DEF Fault
<1>3. CASE Start
  <2>1. RunTyped' /\ UNCHANGED <<head, blocks, engine>>
    BY <1>1, <1>3 DEF Start, RunTyped, chainVars, fetchVars
  <2> QED
    BY <2>1, TypeFrame
<1>4. ASSUME NEW b \in 0..head, GetLogs(b)
      PROVE  TypeInv' /\ UNCHANGED <<head, blocks, engine>>
  <2>1. last \in Nat /\ UNCHANGED <<head, blocks, engine>>
    BY <1>1, <1>4, Numbers DEF GetLogs, chainVars, RunTyped
  <2>2. FromBlock(last) \in 1..(Len(blocks) + 1)
    BY <2>1, Numbers, FromBlockFirst DEF TypeInv
  <2>3. faults' \in 0..MaxFaults
    BY <1>1, <1>2, <1>4 DEF GetLogs, RunTyped
  <2>4. RunTyped'
    BY <1>1, <1>4, <2>1, <2>2, <2>3 DEF GetLogs, RunTyped, chainVars
  <2> QED
    BY <2>1, <2>4, TypeFrame
<1>5. CASE AddProofs
  <2>1. UNCHANGED <<head, blocks, engine>> /\ next \in 1..Len(blocks) /\ next \in 1..Len(Batches)
    BY <1>5, Numbers DEF AddProofs, HasLog, chainVars
  <2>2. proofs' \in Seq(Proofs)
    BY <1>1, <1>5, <2>1, ProofsToAddRange, ConcatRange DEF AddProofs, RunTyped
  <2>3. next' \in 1..(Len(blocks) + 1)
    BY <1>5, <2>1, Numbers DEF AddProofs
  <2>4. RunTyped'
    BY <1>1, <1>5, <2>1, <2>2, <2>3 DEF AddProofs, RunTyped, chainVars
  <2> QED
    BY <2>1, <2>4, TypeFrame
<1>6. CASE StopAtLimit \/ FetchDone
  <2>1. HasLog => blocks[next] \in 0..head
    BY Numbers DEF HasLog
  <2>2. RunTyped' /\ UNCHANGED <<head, blocks, engine>>
    BY <1>1, <1>6, <2>1 DEF StopAtLimit, FetchDone, Fetched, RunTyped, chainVars, fetchVars
  <2> QED
    BY <2>2, TypeFrame
<1>7. CASE DownloadFails
  <2>1. UNCHANGED <<head, blocks, engine>> /\ next \in 1..Len(blocks) /\ next \in 1..Len(Batches)
    BY <1>7, Numbers DEF DownloadFails, HasLog, chainVars
  <2>2. next' \in 1..(Len(blocks) + 1) /\ failed' \subseteq 1..Len(Batches)
    BY <1>1, <1>7, <2>1, Numbers DEF DownloadFails, RunTyped
  <2>3. RunTyped'
    BY <1>1, <1>2, <1>7, <2>1, <2>2 DEF DownloadFails, RunTyped, chainVars
  <2> QED
    BY <2>1, <2>3, TypeFrame
<1>8. CASE Send \/ GetReceipt \/ TruncateFile
  <2>1. RunTyped' /\ UNCHANGED <<head, blocks, engine>>
    BY <1>1, <1>8 DEF Send, GetReceipt, TruncateFile, RunTyped, chainVars, fetchVars
  <2> QED
    BY <2>1, TypeFrame
<1>9. ASSUME NEW t \in pool, MineVerify(t) \/ RevertVerify(t)
      PROVE  TypeInv' /\ UNCHANGED <<head, blocks, engine>>
  <2>1. RunTyped' /\ UNCHANGED <<head, blocks, engine>>
    BY <1>1, <1>2, <1>9 DEF MineVerify, RevertVerify, RunTyped, fetchVars
  <2> QED
    BY <2>1, TypeFrame
<1> QED
  BY <1>3, <1>4, <1>5, <1>6, <1>7, <1>8, <1>9

\* The ends of a run.
RunEnds ==
    \/ GetLogsFails \/ AggregateFails \/ SendFails \/ GetReceiptFails \/ Crash
    \/ FetchPanics
    \/ Aggregate /\ Exit

\* They leave the file and what was published alone.
LEMMA EndTyped ==
  ASSUME TypeInv, RunEnds
  PROVE  /\ TypeInv' /\ Exit
         /\ UNCHANGED <<head, blocks, engine, file, skipped, events, reverted>>
<1>1. RunTyped
  BY TypeParts
<1>2. Fault => faults' \in 0..MaxFaults
  BY Numbers DEF Fault
<1>3. Exit /\ UNCHANGED <<head, blocks, engine, file, skipped, events, reverted>>
  BY DEF RunEnds, GetLogsFails, AggregateFails, SendFails, GetReceiptFails, Crash, FetchPanics, Ends, Aggregate,
     chainVars
<1>4. faults' \in 0..MaxFaults
  <2>1. Fault \/ UNCHANGED faults
    BY DEF RunEnds, GetLogsFails, AggregateFails, SendFails, GetReceiptFails, Crash, FetchPanics, Aggregate
  <2> QED
    BY <1>1, <1>2, <2>1 DEF RunTyped
<1> QED
  BY <1>1, <1>3, <1>4, ExitTyped DEF RunTyped

\* The transaction of a run.
Transaction ==
    [root |-> AggregateProofs(engine, proofs),
     blob |-> ConstructBlob(Commitments(proofs)),
     proofs |-> Range(proofs)]

\* Building it.
Builds ==
    /\ pc = "prove" /\ pc' = "send"
    /\ tx' = Transaction
    /\ UNCHANGED <<chainVars, fetchVars, engine, file, last, skipped, faults>>

\* Aggregate builds it or ends the run.
LEMMA AggregateBuilds ==
  ASSUME Aggregate
  PROVE  Builds \/ (Aggregate /\ Exit)
<1> DEFINE leaves == Commitments(proofs)
           root == AggregateProofs(engine, proofs)
           blob == ConstructBlob(leaves)
<1>1. \/ /\ tx' = [root |-> root, blob |-> blob, proofs |-> Range(proofs)]
         /\ pc' = "send"
         /\ UNCHANGED <<fetchVars, last>>
      \/ Exit
  BY DEF Aggregate
<1>2. pc = "prove" /\ UNCHANGED <<chainVars, engine, file, skipped, faults>>
  BY DEF Aggregate
<1> HIDE DEF root, blob
<1>3. Transaction = [root |-> root, blob |-> blob, proofs |-> Range(proofs)]
  BY DEF Transaction, root, blob
<1> QED
  BY <1>1, <1>2, <1>3 DEF Builds

\* The types, when it is built,
LEMMA BuildsTyped ==
  ASSUME TypeInv, Builds
  PROVE  TypeInv'
<1>1. RunTyped' /\ UNCHANGED <<head, blocks, engine>>
  BY TypeParts DEF Builds, RunTyped, chainVars, fetchVars
<1> QED
  BY <1>1, TypeFrame

\* and when the block is written.
LEMMA WriteTyped ==
  ASSUME TypeInv, WriteFile
  PROVE  TypeInv' /\ UNCHANGED <<head, blocks, engine, events, reverted>>
<1>1. RunTyped
  BY TypeParts
<1>2. /\ Exit /\ file' = last /\ skipped' = skipped \cup failed
      /\ UNCHANGED <<head, blocks, engine, events, reverted, faults>>
  BY DEF WriteFile, chainVars
<1> QED
  BY <1>1, <1>2, ExitTyped DEF RunTyped

\* The steps of the service and of the chain.
LEMMA NextCases ==
  ASSUME TypeInv, Next
  PROVE  \/ \E n \in 0..Len(Batches) : NewBlock(n)
         \/ \E t \in pool : MineVerify(t) \/ RevertVerify(t)
         \/ Start \/ (\E b \in 0..head : GetLogs(b)) \/ AddProofs \/ StopAtLimit \/ FetchDone
         \/ DownloadFails \/ Builds \/ Send \/ GetReceipt \/ TruncateFile \/ WriteFile
         \/ RunEnds
<1>1. head \in 0..head /\ \A b \in 0..(head - 1) : b \in 0..head
  BY Numbers
<1>2. Next => \/ RunStep \/ FaultStep
              \/ \E n \in 0..Len(Batches) : NewBlock(n)
              \/ \E t \in pool : MineVerify(t) \/ RevertVerify(t)
  BY DEF Next, Mining
<1>3. CASE RunStep
  BY <1>1, <1>3, AggregateBuilds DEF RunStep, RunEnds
<1>4. CASE FaultStep
  BY <1>1, <1>4 DEF FaultStep, RunEnds
<1> QED
  BY <1>2, <1>3, <1>4

\* Every step keeps the types.
LEMMA NextTyped == TypeInv /\ [Next]_vars => TypeInv'
<1> SUFFICES ASSUME TypeInv, [Next]_vars PROVE TypeInv'
  OBVIOUS
<1>1. CASE UNCHANGED vars
  <2>1. RunTyped' /\ UNCHANGED <<head, blocks, engine>>
    BY <1>1, TypeParts DEF RunTyped, vars, chainVars, fetchVars
  <2> QED
    BY <2>1, TypeFrame
<1>2. CASE Next
  BY <1>2, NextCases, NewBlockTyped, StepTyped, EndTyped, BuildsTyped, WriteTyped
<1> QED
  BY <1>1, <1>2

\* The variables keep their types: no run reads or writes a block ahead of the chain,
\* and the next log is always one of those posted or the end of the list.
THEOREM AggregationTypeCorrect == Spec => []TypeOK
<1>1. TypeInv => TypeOK
  BY DEF TypeInv
<1> QED
  BY <1>1, InitTyped, NextTyped, PTL DEF Spec

-----------------------------------------------------------------------------
(***************************************************************************)
(* No run steps over a batch.                                              *)
(***************************************************************************)
\* What was published or given up stays so.
LEMMA HandledStays ==
  ASSUME NEW i, Handled(i), engine' = engine, skipped \subseteq skipped',
         events \cup reverted \subseteq events' \cup reverted'
  PROVE  Handled(i)'
<1>1. Compatibles(i)' = Compatibles(i)
  BY DEF Compatibles, Compatible
<1> QED
  BY <1>1 DEF Handled, Sent

\* And so does what this run has done with a batch.
LEMMA CoveredStays ==
  ASSUME NEW i, Covered(i), engine' = engine, skipped \subseteq skipped',
         events \cup reverted \subseteq events' \cup reverted',
         failed \subseteq failed', Range(proofs) \subseteq Range(proofs)'
  PROVE  Covered(i)'
<1>1. Compatibles(i)' = Compatibles(i)
  BY DEF Compatibles, Compatible
<1> QED
  BY <1>1, HandledStays DEF Covered

\* A step that does not write the file.
LEMMA FileFrame ==
  ASSUME TypeInv, NothingSteppedOver, engine' = engine, skipped \subseteq skipped',
         events \cup reverted \subseteq events' \cup reverted',
         file' = file \/ file' = Truncated, blocks' = blocks
  PROVE  NothingSteppedOver'
<1> SUFFICES ASSUME file' # Truncated, NEW i \in 1..Len(blocks), blocks[i] < file
             PROVE  Handled(i)'
  BY DEF NothingSteppedOver
<1>1. Handled(i)
  BY DEF NothingSteppedOver
<1> QED
  BY <1>1, HandledStays

\* A step that changes neither the logs nor the run, but may publish.
LEMMA RunFrame ==
  ASSUME Fetching, Collected, engine' = engine, skipped' = skipped,
         events \cup reverted \subseteq events' \cup reverted',
         UNCHANGED <<blocks, fetchVars, file, pc, last>>
  PROVE  Fetching' /\ Collected'
<1>1. \A i : Covered(i) => Covered(i)'
  BY CoveredStays DEF fetchVars
<1>2. Fetching'
  BY <1>1 DEF Fetching, fetchVars
<1>3. Collected'
  BY <1>1 DEF Collected
<1> QED
  BY <1>2, <1>3

\* The end of a run leaves nothing to say but of the file.
LEMMA OffInv ==
  ASSUME pc' = "off", TypeInv', NothingSteppedOver'
  PROVE  StepInv'
BY DEF StepInv, Fetching, Collected, Publishing

\* A new block is after every block read or written.
LEMMA NewBlockInv ==
  ASSUME StepInv, NEW n \in 0..Len(Batches), NewBlock(n)
  PROVE  StepInv'
<1>1. TypeInv
  BY DEF StepInv
<1>2. /\ TypeInv' /\ Len(blocks) <= Len(blocks') /\ Len(blocks) \in Nat /\ head \in Nat
      /\ \A i \in 1..Len(blocks') :
            blocks'[i] = IF i <= Len(blocks) THEN blocks[i] ELSE head + 1
  BY <1>1, NewBlockTyped, Numbers
<1>3. UNCHANGED <<pool, events, reverted, fetchVars, engine, file, pc, last, skipped, tx>>
  BY DEF NewBlock
<1>4. \A i : (Handled(i) => Handled(i)') /\ (Covered(i) => Covered(i)')
  BY <1>3, HandledStays, CoveredStays DEF fetchVars
<1>6. ASSUME NEW b \in 0..head, NEW i \in 1..Len(blocks'), blocks'[i] < b
      PROVE  i \in 1..Len(blocks) /\ blocks[i] < b
  BY <1>2, <1>6
<1>7. NothingSteppedOver'
  <2>1. file # Truncated => file \in 0..head
    BY <1>1 DEF TypeInv, TypeOK
  <2> QED
    BY <1>3, <1>4, <1>6, <2>1 DEF StepInv, NothingSteppedOver
<1>8. Fetching'
  BY <1>3, <1>4 DEF StepInv, Fetching, fetchVars
<1>9. Collected'
  <2>1. last \in 0..head
    BY <1>1 DEF TypeInv, TypeOK
  <2> QED
    BY <1>3, <1>4, <1>6, <2>1 DEF StepInv, Collected
<1>10. Publishing'
  BY <1>3 DEF StepInv, Publishing, Sent, fetchVars
<1> QED
  BY <1>2, <1>7, <1>8, <1>9, <1>10 DEF StepInv

\* A transaction is mined, or reverts.
LEMMA VerifyInv ==
  ASSUME StepInv, NEW t \in pool, MineVerify(t) \/ RevertVerify(t)
  PROVE  StepInv'
<1>1. TypeInv /\ TypeInv'
  BY StepTyped DEF StepInv
<1>2. /\ UNCHANGED <<head, blocks, fetchVars, engine, file, pc, last, skipped, tx>>
      /\ events \cup reverted \subseteq events' \cup reverted'
      /\ pool \cup events \cup reverted \subseteq pool' \cup events' \cup reverted'
  BY DEF MineVerify, RevertVerify
<1>3. NothingSteppedOver'
  BY <1>1, <1>2, FileFrame DEF StepInv
<1>4. Fetching' /\ Collected'
  BY <1>2, RunFrame DEF StepInv
<1>5. Publishing'
  BY <1>2 DEF StepInv, Publishing, Sent, fetchVars
<1> QED
  BY <1>1, <1>3, <1>4, <1>5 DEF StepInv

\* The run starts, and asks for the logs since the block of the file.
LEMMA StartInv ==
  ASSUME StepInv, Start
  PROVE  StepInv'
<1>1. TypeInv /\ TypeInv'
  BY StepTyped DEF StepInv
<1>2. NothingSteppedOver'
  BY <1>1, FileFrame DEF StepInv, Start, chainVars
<1> QED
  BY <1>1, <1>2 DEF Start, StepInv, Fetching, Collected, Publishing

\* The logs before the first one are of batches that earlier runs handled.
LEMMA GetLogsInv ==
  ASSUME StepInv, NEW b \in 0..head, GetLogs(b)
  PROVE  StepInv'
<1>1. TypeInv /\ TypeInv'
  BY StepTyped DEF StepInv
<1>2. /\ UNCHANGED <<head, blocks, events, reverted, engine, file, last, skipped>>
      /\ pc = "block" /\ pc' = "fetch" /\ next' = FromBlock(last)
  BY DEF GetLogs, chainVars
<1>3. last \in 0..head /\ file = last /\ file # Truncated
  BY <1>1, <1>2, Numbers DEF TypeInv, TypeOK, StepInv, Fetching, Truncated
<1>4. NothingSteppedOver'
  BY <1>1, <1>2, FileFrame DEF StepInv
<1>5. ASSUME NEW i \in 1..(FromBlock(last) - 1) PROVE Covered(i)'
  <2>1. FromBlock(last) \in 1..(Len(blocks) + 1) /\ blocks[i] < last
    BY <1>1, <1>3, <1>5, Numbers, FromBlockFirst DEF TypeInv
  <2>2. i \in 1..Len(blocks)
    BY <1>1, <2>1, Numbers
  <2>3. Handled(i)
    BY <1>3, <2>1, <2>2 DEF StepInv, NothingSteppedOver
  <2> QED
    BY <1>2, <2>3, HandledStays DEF Covered
<1>6. Fetching'
  BY <1>2, <1>3, <1>5 DEF Fetching
<1> QED
  BY <1>1, <1>2, <1>4, <1>6 DEF StepInv, Collected, Publishing

\* One log: its proofs are collected, or it could not be downloaded.
LEMMA NextLogInv ==
  ASSUME StepInv, AddProofs \/ DownloadFails
  PROVE  StepInv'
<1>1. TypeInv /\ TypeInv'
  BY StepTyped DEF StepInv
<1>2. /\ UNCHANGED <<head, blocks, events, reverted, engine, file, last, skipped, pc>>
      /\ pc = "fetch" /\ HasLog /\ next' = next + 1
  BY DEF AddProofs, DownloadFails, chainVars
<1>3. next \in 1..Len(blocks) /\ next \in 1..Len(Batches)
  BY <1>1, <1>2, Numbers DEF HasLog
<1>4. /\ failed \subseteq failed' /\ Range(proofs) \subseteq Range(proofs')
      /\ next \in failed' \/ Compatibles(next) \subseteq Range(proofs')
  <2>1. CASE AddProofs
    <3>1. proofs \in Seq(Proofs) /\ ProofsToAdd(next) \in Seq(Proofs)
      BY <1>1, <1>3, ProofsToAddRange DEF TypeInv
    <3>2. Range(proofs') = Range(proofs) \cup Compatibles(next)
      BY <2>1, <1>3, <3>1, ProofsToAddRange, ConcatRange DEF AddProofs
    <3> QED
      BY <2>1, <3>2 DEF AddProofs
  <2>2. CASE DownloadFails
    BY <2>2 DEF DownloadFails
  <2> QED
    BY <2>1, <2>2
<1>5. ASSUME NEW i \in 1..(next' - 1) PROVE Covered(i)'
  <2>1. CASE i = next
    <3>1. PICK k : k = next
      OBVIOUS
    <3>2. Compatibles(k)' = Compatibles(k)
      BY <1>2 DEF Compatibles, Compatible
    <3>3. Covered(k)'
      BY <1>4, <3>1, <3>2 DEF Covered
    <3> QED
      BY <2>1, <3>1, <3>3
  <2>2. CASE i # next
    <3>1. i \in 1..(next - 1)
      BY <1>2, <1>3, <2>2
    <3>2. Covered(i)
      BY <1>2, <3>1 DEF StepInv, Fetching
    <3> QED
      BY <1>2, <1>4, <3>2, CoveredStays
  <2> QED
    BY <2>1, <2>2
<1>6. NothingSteppedOver'
  BY <1>1, <1>2, FileFrame DEF StepInv
<1>7. Fetching'
  BY <1>2, <1>5 DEF StepInv, Fetching
<1> QED
  BY <1>1, <1>2, <1>6, <1>7 DEF StepInv, Collected, Publishing

\* The end of the logs, or the limit: every batch of an earlier block is covered.
LEMMA FetchedInv ==
  ASSUME StepInv, StopAtLimit \/ FetchDone
  PROVE  StepInv'
<1>1. TypeInv /\ TypeInv'
  BY StepTyped DEF StepInv
<1>2. /\ UNCHANGED <<head, blocks, events, reverted, engine, file, skipped, proofs, failed>>
      /\ pc = "fetch" /\ pc' = IF proofs = <<>> THEN "save" ELSE "prove"
      /\ \/ HasLog /\ last' = blocks[next]
         \/ ~HasLog /\ last' = current
  BY DEF StopAtLimit, FetchDone, Fetched, chainVars, fetchVars
<1>3. ASSUME NEW i \in 1..Len(blocks), blocks[i] < last' PROVE Covered(i)'
  <2>1. /\ next \in Nat /\ i \in Nat /\ Len(blocks) \in Nat /\ current \in Nat
        /\ \A j \in 1..Len(blocks) : blocks[j] \in Nat
    <3>1. current \in Nat
      BY <1>1, Numbers DEF TypeInv, TypeOK
    <3>2. /\ next \in Nat /\ Len(blocks) \in Nat
          /\ \A j \in 1..Len(blocks) : blocks[j] \in Nat
      BY <1>1, Numbers, SMTT(30)
    <3> QED
      BY <3>1, <3>2
  <2>2. i >= next => next \in 1..Len(blocks) /\ blocks[next] <= blocks[i]
    BY <1>1, <2>1, Numbers, SMTT(30) DEF TypeInv, InOrder
  <2>3. i < next
    BY <1>2, <1>3, <2>1, <2>2 DEF HasLog
  <2>4. Covered(i)
    BY <1>2, <2>1, <2>3 DEF StepInv, Fetching
  <2> QED
    BY <1>2, <2>4, CoveredStays
<1>4. Collected'
  BY <1>2, <1>3 DEF Collected
<1>5. NothingSteppedOver'
  BY <1>1, <1>2, FileFrame DEF StepInv
<1>6. Publishing'
  <2>1. Range(<<>>) = {}
    BY DEF Range
  <2> QED
    BY <1>2, <2>1 DEF Publishing
<1> QED
  BY <1>1, <1>2, <1>4, <1>5, <1>6 DEF StepInv, Fetching

\* The transaction is built, sent and seen.
LEMMA PublishInv ==
  ASSUME StepInv, Builds \/ Send \/ GetReceipt \/ TruncateFile
  PROVE  StepInv'
<1>1. TypeInv /\ TypeInv'
  BY StepTyped, BuildsTyped DEF StepInv
<1>2. /\ UNCHANGED <<head, blocks, events, reverted, engine, last, skipped, proofs, failed>>
      /\ file' = file \/ file' = Truncated
      /\ pc \in {"prove", "send", "receipt", "save"}
      /\ pc' \in {"send", "receipt", "save", "write"}
  BY DEF Builds, Send, GetReceipt, TruncateFile, chainVars, fetchVars
<1>3. Collected'
  <2>1. \A i : Covered(i) => Covered(i)'
    BY <1>2, CoveredStays
  <2> QED
    BY <1>2, <2>1 DEF StepInv, Collected
<1>4. NothingSteppedOver'
  BY <1>1, <1>2, FileFrame DEF StepInv
<1>5. Publishing'
  <2>1. CASE Builds
    <3>1. tx'.proofs = Range(proofs)
      BY <2>1 DEF Builds, Transaction
    <3> QED
      BY <2>1, <3>1, <1>2 DEF Builds, Publishing
  <2>2. CASE Send
    BY <2>2 DEF Send, StepInv, Publishing, fetchVars
  <2>3. CASE GetReceipt
    <3>1. tx \in events \cup reverted /\ Range(proofs) \subseteq tx.proofs
      BY <2>3 DEF GetReceipt, StepInv, Publishing
    <3>2. \A p \in Range(proofs) : Sent(p)
      BY <3>1 DEF Sent
    <3> QED
      BY <2>3, <1>2, <3>2 DEF GetReceipt, Publishing, Sent
  <2>4. CASE TruncateFile
    BY <2>4, <1>2 DEF TruncateFile, StepInv, Publishing, Sent
  <2> QED
    BY <2>1, <2>2, <2>3, <2>4
<1> QED
  BY <1>1, <1>2, <1>3, <1>4, <1>5 DEF StepInv, Fetching

\* The block is written, with the run's proofs published and its failures counted.
LEMMA WriteInv ==
  ASSUME StepInv, WriteFile
  PROVE  StepInv'
<1>1. TypeInv'
  BY WriteTyped DEF StepInv
<1>2. /\ pc = "write" /\ pc' = "off" /\ file' = last /\ skipped' = skipped \cup failed
      /\ UNCHANGED <<blocks, engine, events, reverted>>
  BY DEF WriteFile, Exit, chainVars
<1>3. ASSUME NEW i \in 1..Len(blocks), blocks[i] < last PROVE Handled(i)'
  <2>1. Covered(i)
    BY <1>2, <1>3 DEF StepInv, Collected
  <2>2. CASE Handled(i)
    BY <1>2, <2>2, HandledStays
  <2>3. CASE i \in failed
    BY <1>2, <2>3 DEF Handled
  <2>4. CASE Compatibles(i) \subseteq Range(proofs)
    <3>1. \A p \in Compatibles(i) : Sent(p)
      BY <1>2, <2>4 DEF StepInv, Publishing
    <3>2. Handled(i)
      BY <3>1 DEF Handled
    <3> QED
      BY <1>2, <3>2, HandledStays
  <2> QED
    BY <2>1, <2>2, <2>3, <2>4 DEF Covered
<1>4. NothingSteppedOver'
  BY <1>2, <1>3 DEF NothingSteppedOver
<1> QED
  BY <1>1, <1>2, <1>4, OffInv

\* A run that ends before it writes leaves the file as it was.
LEMMA EndInv ==
  ASSUME StepInv, RunEnds
  PROVE  StepInv'
<1>1. TypeInv /\ TypeInv' /\ pc' = "off"
      /\ UNCHANGED <<head, blocks, engine, file, skipped, events, reverted>>
  BY EndTyped DEF StepInv, Exit
<1>2. NothingSteppedOver'
  BY <1>1, FileFrame DEF StepInv
<1> QED
  BY <1>1, <1>2, OffInv

\* The invariant holds at the start,
LEMMA InitStep == Init => StepInv
<1> SUFFICES ASSUME Init PROVE StepInv
  OBVIOUS
<1>1. blocks = <<>> /\ Len(<<>>) = 0
  BY DEF Init
<1> QED
  BY <1>1, InitTyped DEF Init, StepInv, NothingSteppedOver, Fetching, Collected, Publishing

\* and every step keeps it.
LEMMA NextStep == StepInv /\ [Next]_vars => StepInv'
<1> SUFFICES ASSUME StepInv, [Next]_vars PROVE StepInv'
  OBVIOUS
<1>1. CASE UNCHANGED vars
  <2>1. TypeInv'
    BY NextTyped DEF StepInv
  <2>2. NothingSteppedOver' /\ Fetching' /\ Collected'
    BY <1>1, FileFrame, RunFrame DEF StepInv, vars, chainVars
  <2>3. Publishing'
    BY <1>1 DEF StepInv, Publishing, Sent, vars, chainVars, fetchVars
  <2> QED
    BY <2>1, <2>2, <2>3 DEF StepInv
<1>2. CASE Next
  <2>1. TypeInv
    BY DEF StepInv
  <2> QED
    BY <1>2, <2>1, NextCases, NewBlockInv, VerifyInv, StartInv, GetLogsInv, NextLogInv,
       FetchedInv, PublishInv, WriteInv, EndInv
<1> QED
  BY <1>1, <1>2

\* Whatever fails, and whenever the process crashes, every proof posted before the
\* block on disk is in a transaction that was mined or reverted, or in a batch that a
\* run could not download.
THEOREM NoBatchSteppedOver == Spec => []NothingSteppedOver
<1>1. StepInv => NothingSteppedOver
  BY DEF StepInv
<1> QED
  BY <1>1, InitStep, NextStep, PTL DEF Spec

-----------------------------------------------------------------------------
(***************************************************************************)
(* The root of the zkVM.  The chunks of the commitments, put one after the *)
(* other again, are the commitments.                                       *)
(***************************************************************************)
\* The number of chunks: the last one reaches the end, and begins before it.
LEMMA ChunkCount ==
  ASSUME NEW L \in Nat, NEW c \in Nat \ {0}
  PROVE  LET K == (L + c - 1) \div c
         IN  K \in Nat /\ K * c >= L /\ K * c <= L + c - 1
<1> DEFINE K == (L + c - 1) \div c
<1>1. K \in Int /\ L + c - 1 = c * K + ((L + c - 1) % c) /\ (L + c - 1) % c \in 0..(c - 1)
  OBVIOUS
<1>2. K >= 0
  BY <1>1
<1>3. K * c = c * K
  BY <1>1
<1> QED
  BY <1>1, <1>2, <1>3

\* f[k] is the first k of n sequences, one after the other.
Flattens(f, seqs, n) ==
    f[1] = seqs[1] /\ \A k \in 2..n : f[k] = f[k - 1] \o seqs[k]

\* FlattenSeq computes such a function.
LEMMA FlattenIs ==
  ASSUME NEW n \in Nat \ {0}, NEW seqs, Len(seqs) = n, NEW f, Flattens(f, seqs, n)
  PROVE  FlattenSeq(seqs) = f[n]
<1>0. f[1] = seqs[1] /\ \A k \in 2..n : f[k] = f[k - 1] \o seqs[k]
  BY DEF Flattens
<1> DEFINE F(g) == g = [i \in 1..n |-> IF i = 1 THEN seqs[i] ELSE g[i - 1] \o seqs[i]]
           g0 == [k \in 1..n |-> f[k]]
<1>1. F(g0)
  <2>1. \A k \in 1..n : f[k] = IF k = 1 THEN seqs[k] ELSE g0[k - 1] \o seqs[k]
    <3> TAKE k \in 1..n
    <3>1. CASE k = 1
      BY <1>0, <3>1
    <3>2. CASE k # 1
      <4>1. k \in 2..n /\ k - 1 \in 1..n
        BY <3>2
      <4> QED
        BY <1>0, <3>2, <4>1
    <3> QED
      BY <3>1, <3>2
  <2> QED
    BY <2>1
<1>2. PICK h : h = CHOOSE g : F(g)
  OBVIOUS
<1>3. F(h)
  BY <1>1, <1>2
<1>4. FlattenSeq(seqs) = h[n]
  BY <1>2 DEF FlattenSeq
<1>5. \A k \in 1..n : h[k] = IF k = 1 THEN seqs[k] ELSE h[k - 1] \o seqs[k]
  BY <1>3
<1> HIDE DEF F
<1> DEFINE N == {k \in 1..n : h[k] # f[k]}
<1>6. N = {}
  <2> SUFFICES ASSUME N # {} PROVE FALSE
    OBVIOUS
  <2>1. N \in SUBSET Nat
    OBVIOUS
  <2>2. PICK k \in N : \A m \in N : k <= m
    <3> HIDE DEF N
    <3> QED
      BY <2>1, LeastNatural
  <2>3. k # 1
    BY <1>0, <1>5, <2>2
  <2>4. k \in 2..n /\ k - 1 \in 1..n /\ k - 1 \notin N
    BY <2>2, <2>3
  <2>5. h[k - 1] = f[k - 1]
    BY <2>4
  <2>6. h[k] = f[k]
    BY <1>0, <1>5, <2>3, <2>4, <2>5, ZenonT(40)
  <2> QED
    BY <2>2, <2>6
<1> QED
  BY <1>4, <1>6

\* The commitments of a stretch of a list are a stretch of the commitments.
LEMMA CommitmentsOfSubSeq ==
  ASSUME NEW S, NEW s \in Seq(S), NEW m \in 1..(Len(s) + 1), NEW n \in 0..Len(s)
  PROVE  Commitments(SubSeq(s, m, n)) = SubSeq(Commitments(s), m, n)
<1> DEFINE T == {Commitment(s[i]) : i \in 1..Len(s)}
           com == Commitments(s)
           sub == SubSeq(s, m, n)
           len == IF m <= n THEN n - m + 1 ELSE 0
<1>1. Len(s) \in Nat /\ DOMAIN s = 1..Len(s)
  OBVIOUS
<1>2. \A i \in 1..Len(s) : com[i] \in T /\ com[i] = Commitment(s[i])
  BY <1>1 DEF Commitments
<1>3. \A i \in m..n : i \in 1..Len(s)
  BY <1>1
<1>4. /\ sub \in Seq(S) /\ Len(sub) = len
      /\ \A i \in 1..(n - m + 1) : sub[i] = s[m + i - 1]
  <2>1. \A i \in m..n : s[i] \in S
    BY <1>3
  <2> QED
    BY <2>1, SubSeqProperties
<1>5. /\ SubSeq(com, m, n) \in Seq(T) /\ Len(SubSeq(com, m, n)) = len
      /\ \A i \in 1..(n - m + 1) : SubSeq(com, m, n)[i] = com[m + i - 1]
  <2> HIDE DEF T, com
  <2>1. \A i \in m..n : com[i] \in T
    BY <1>2, <1>3
  <2> QED
    BY <2>1, SubSeqProperties
<1>6. ASSUME NEW i \in 1..len PROVE SubSeq(com, m, n)[i] = Commitment(sub[i])
  <2>1. i \in 1..(n - m + 1) /\ m + i - 1 \in 1..Len(s)
    BY <1>1, <1>6
  <2> HIDE DEF com, sub
  <2> QED
    BY <1>2, <1>4, <1>5, <2>1
<1>7. SubSeq(com, m, n) = [i \in 1..len |-> Commitment(sub[i])]
  <2>1. SubSeq(com, m, n) = [i \in 1..len |-> SubSeq(com, m, n)[i]]
    BY <1>5
  <2> HIDE DEF sub, com
  <2> QED
    BY <1>6, <2>1
<1>8. DOMAIN sub = 1..len
  BY <1>4
<1> QED
  BY <1>7, <1>8 DEF Commitments

\* The commitments of the chunks, one after the other, are those of the list.
LEMMA ChunksFlatten ==
  ASSUME NEW S, NEW s \in Seq(S)
  PROVE  FlattenSeq([k \in DOMAIN Chunks(s) |-> Commitments(Chunks(s)[k])]) = Commitments(s)
<1> DEFINE c == ProofsPerChunk
           L == Len(s)
           K == (L + c - 1) \div c
           End(k) == IF k * c <= L THEN k * c ELSE L
           com == Commitments(s)
           T == {Commitment(s[i]) : i \in 1..Len(s)}
           seqs == [k \in DOMAIN Chunks(s) |-> Commitments(Chunks(s)[k])]
           f == [k \in 1..K |-> SubSeq(com, 1, End(k))]
<1>1. L \in Nat /\ c \in Nat \ {0}
  BY ChunkAssumption
<1>2. K \in Nat /\ K * c >= L /\ K * c <= L + c - 1
  <2> HIDE DEF L, c
  <2> QED
    BY <1>1, ChunkCount
<1>3. com \in Seq(T) /\ Len(com) = L
  BY DEF Commitments
<1>4. ASSUME NEW k \in 1..K
      PROVE  /\ k * c \in Nat /\ (k - 1) * c \in Nat /\ k * c = (k - 1) * c + c
             /\ (k - 1) * c < L
  <2>1. k * c \in Nat /\ (k - 1) * c \in Nat /\ k * c = (k - 1) * c + c
    BY <1>1, <1>2
  <2>2. (K - k) * c \in Nat /\ K * c = k * c + (K - k) * c
    BY <1>1, <1>2
  <2> QED
    BY <1>1, <1>2, <2>1, <2>2
<1>5. seqs = [k \in 1..K |-> SubSeq(com, (k - 1) * c + 1, End(k))]
  <2>1. DOMAIN Chunks(s) = 1..K
    BY DEF Chunks
  <2>2. ASSUME NEW k \in 1..K
        PROVE  Commitments(Chunks(s)[k]) = SubSeq(com, (k - 1) * c + 1, End(k))
    <3>1. Chunks(s)[k] = SubSeq(s, (k - 1) * c + 1, End(k))
      BY DEF Chunks
    <3>2. (k - 1) * c + 1 \in 1..(L + 1) /\ End(k) \in 0..L
      <4>1. PICK x : x = (k - 1) * c
        OBVIOUS
      <4>2. PICK y : y = k * c
        OBVIOUS
      <4> QED
        BY <1>1, <1>4, <4>1, <4>2
    <3> HIDE DEF End, c
    <3> QED
      BY <3>1, <3>2, CommitmentsOfSubSeq
  <2> HIDE DEF K, End, com, c
  <2> QED
    BY <2>1, <2>2
<1>6. CASE L = 0
  <2>1. K = 0
    BY <1>1, <1>2, <1>6
  <2>2. seqs = <<>> /\ com = <<>>
    BY <1>3, <1>5, <1>6, <2>1
  <2> QED
    BY <2>2 DEF FlattenSeq
<1>7. CASE L # 0
  <2>1. K # 0
    BY <1>1, <1>2, <1>7
  <2>2. Len(seqs) = K
    BY <1>2, <1>5
  <2>3. f[1] = seqs[1]
    <3>1. 1 \in 1..K /\ (1 - 1) * c + 1 = 1
      BY <1>1, <1>2, <2>1
    <3> HIDE DEF End, c, K, com
    <3> QED
      BY <1>5, <3>1
  <2>4. ASSUME NEW k \in 2..K PROVE f[k] = f[k - 1] \o seqs[k]
    <3>1. k \in 1..K /\ k - 1 \in 1..K
      BY <1>2
    <3>2. PICK m : m = (k - 1) * c
      OBVIOUS
    <3>3. End(k - 1) = m /\ m \in 0..L /\ End(k) \in m..L
      BY <1>1, <1>4, <3>1, <3>2
    <3> HIDE DEF End, c, K, com, L, T
    <3>4. SubSeq(com, 1, m) \o SubSeq(com, m + 1, End(k)) = SubSeq(com, 1, End(k))
      <4>1. \A a \in 1..(Len(com) + 1) : \A x \in (a - 1)..Len(com) : \A y \in x..Len(com) :
               SubSeq(com, a, x) \o SubSeq(com, x + 1, y) = SubSeq(com, a, y)
        BY <1>3, ConcatAdjacentSubSeq
      <4>2. 1 \in 1..(Len(com) + 1) /\ m \in (1 - 1)..Len(com) /\ End(k) \in m..Len(com)
        BY <1>1, <1>3, <3>3
      <4> QED
        BY <4>1, <4>2
    <3> QED
      BY <1>5, <3>1, <3>2, <3>3, <3>4
  <2>5. FlattenSeq(seqs) = f[K]
    <3>1. K \in Nat \ {0}
      BY <1>2, <2>1
    <3> HIDE DEF seqs, f, K
    <3>2. Flattens(f, seqs, K)
      BY <2>3, <2>4 DEF Flattens
    <3> QED
      BY <2>2, <3>1, <3>2, FlattenIs
  <2>6. f[K] = SubSeq(com, 1, L)
    BY <1>1, <1>2, <2>1
  <2>7. SubSeq(com, 1, L) = com
    <3> HIDE DEF com, T, L
    <3> QED
      BY <1>3, SubSeqFull
  <2> QED
    BY <2>5, <2>6, <2>7
<1> QED
  BY <1>6, <1>7

\* For proofs of one zkVM, what its programs commit to is the root of all the proofs.
LEMMA AggregateRoot ==
  ASSUME NEW e \in {"SP1", "RISC0"}, NEW S, NEW s \in Seq(S),
         \A p \in Range(s) : p.system = e
  PROVE  AggregateProofs(e, s) = MerkleRoot(Commitments(s))
<1> DEFINE chunks == Chunks(s)
           leaves == [k \in DOMAIN chunks |-> Commitments(chunks[k])]
<1>1. FlattenSeq(leaves) = Commitments(s)
  BY ChunksFlatten
<1>2. ASSUME NEW k \in DOMAIN chunks, NEW i \in DOMAIN chunks[k]
      PROVE  chunks[k][i].system = e
  <2> DEFINE c == ProofsPerChunk
             L == Len(s)
             m == (k - 1) * c + 1
             n == IF k * c <= L THEN k * c ELSE L
  <2>1. k \in Nat \ {0} /\ c \in Nat \ {0} /\ L \in Nat /\ chunks[k] = SubSeq(s, m, n)
    <3>1. c \in Nat \ {0} /\ L \in Nat
      BY ChunkAssumption
    <3> DEFINE K == (L + c - 1) \div c
    <3>2. K \in Nat
      <4> HIDE DEF c, L
      <4> QED
        BY <3>1, ChunkCount
    <3>3. DOMAIN chunks = 1..K
      BY DEF Chunks
    <3>4. \A j \in 1..K : j \in Nat \ {0}
      BY <3>2
    <3>5. chunks[k] = SubSeq(s, m, n)
      BY <1>2, <3>3 DEF Chunks
    <3> HIDE DEF K
    <3> QED
      BY <1>2, <3>1, <3>3, <3>4, <3>5
  <2>2. m \in Int /\ n \in Int /\ m >= 1 /\ n <= L
    BY <2>1
  <2> HIDE DEF m, n
  <2>3. \A j \in m..n : j \in 1..L /\ s[j] \in S
    BY <2>1, <2>2
  <2>4. /\ SubSeq(s, m, n) \in Seq(S) /\ Len(SubSeq(s, m, n)) = IF m <= n THEN n - m + 1 ELSE 0
        /\ \A j \in 1..(n - m + 1) : SubSeq(s, m, n)[j] = s[m + j - 1]
    BY <2>2, <2>3, SubSeqProperties
  <2>5. i \in 1..(n - m + 1) /\ m + i - 1 \in m..n
    BY <2>1, <2>2, <2>4, <1>2
  <2>6. chunks[k][i] = s[m + i - 1] /\ m + i - 1 \in DOMAIN s
    BY <2>1, <2>3, <2>4, <2>5
  <2> QED
    BY <2>6 DEF Range
<1> HIDE DEF chunks
<1>3. CASE e = "SP1"
  <2>1. ASSUME NEW k \in DOMAIN chunks
        PROVE  Sp1UserProofsAggregator(chunks[k]) =
                  [program |-> "sp1 user proofs", root |-> MerkleRoot(leaves[k])]
    <3>1. \A i \in DOMAIN chunks[k] : Sp1GuestCommitment(chunks[k][i]) = Commitment(chunks[k][i])
      BY <1>2, <1>3 DEF Sp1GuestCommitment, Commitment, HashVkAndPubInputs, Sp1Id
    <3>2. [i \in DOMAIN chunks[k] |-> Sp1GuestCommitment(chunks[k][i])] = Commitments(chunks[k])
      BY <3>1 DEF Commitments
    <3> QED
      BY <3>2 DEF Sp1UserProofsAggregator, Sp1UserProofsProgram
  <2>2. ChunksMatch("sp1 user proofs",
                    [k \in DOMAIN chunks |-> Sp1UserProofsAggregator(chunks[k])], leaves)
    BY <2>1 DEF ChunksMatch
  <2>3. AggregateProofs(e, s) = MerkleRoot(FlattenSeq(leaves))
    BY <1>3, <2>2 DEF AggregateProofs, Sp1AggregateProofs, Sp1ChunkProgram, chunks
  <2> QED
    BY <1>1, <2>3 DEF chunks
<1>4. CASE e = "RISC0"
  <2>1. ASSUME NEW k \in DOMAIN chunks
        PROVE  Risc0UserProofsAggregator(chunks[k]) =
                  [program |-> "risc0 user proofs", root |-> MerkleRoot(leaves[k])]
    <3>1. \A i \in DOMAIN chunks[k] : Risc0GuestCommitment(chunks[k][i]) = Commitment(chunks[k][i])
      BY <1>2, <1>4 DEF Risc0GuestCommitment, Commitment, HashImageIdAndPublicInputs, Risc0Id
    <3>2. [i \in DOMAIN chunks[k] |-> Risc0GuestCommitment(chunks[k][i])] = Commitments(chunks[k])
      BY <3>1 DEF Commitments
    <3> QED
      BY <3>2 DEF Risc0UserProofsAggregator, Risc0UserProofsProgram
  <2>2. ChunksMatch("risc0 user proofs",
                    [k \in DOMAIN chunks |-> Risc0UserProofsAggregator(chunks[k])], leaves)
    BY <2>1 DEF ChunksMatch
  <2>3. AggregateProofs(e, s) = MerkleRoot(FlattenSeq(leaves))
    BY <1>4, <2>2 DEF AggregateProofs, Risc0AggregateProofs, Risc0ChunkProgram, chunks
  <2> QED
    BY <1>1, <2>3 DEF chunks
<1> QED
  BY <1>3, <1>4

\* The proofs collected are of the service's zkVM, and within the limit.
CollectedInv ==
    /\ TypeInv
    /\ OfEngine
    /\ Len(proofs) <= Limit

\* A compatible proof is of the zkVM of the service.
LEMMA CompatibleSystem ==
  ASSUME NEW p, Compatible(p), engine \in {"SP1", "RISC0"}
  PROVE  p.system = engine
BY DEF Compatible, Sp1Compatible, Risc0Compatible

\* Every step keeps it: proofs are only added by AddProofs.
LEMMA NextCollected == CollectedInv /\ [Next]_vars => CollectedInv'
<1> SUFFICES ASSUME CollectedInv, [Next]_vars PROVE CollectedInv'
  OBVIOUS
<1>1. TypeInv /\ TypeInv'
  BY NextTyped DEF CollectedInv
<1>2. engine' = engine
  <2>1. CASE Next
    BY <1>1, <2>1, NextCases, StepTyped, EndTyped, WriteTyped DEF NewBlock, Builds
  <2>2. CASE UNCHANGED vars
    BY <2>2 DEF vars
  <2> QED
    BY <2>1, <2>2
<1>3. CASE proofs' = proofs
  BY <1>1, <1>2, <1>3 DEF CollectedInv, OfEngine
<1>4. CASE proofs' = <<>>
  <2>1. Range(<<>>) = {} /\ Len(<<>>) = 0
    BY DEF Range
  <2> QED
    BY <1>1, <1>4, <2>1, LimitAssumption DEF CollectedInv, OfEngine
<1>5. CASE AddProofs
  <2>1. next \in 1..Len(Batches) /\ proofs \in Seq(Proofs) /\ engine \in {"SP1", "RISC0"}
    BY <1>1, <1>5, Numbers DEF AddProofs, HasLog, TypeInv, TypeOK
  <2>2. /\ proofs' = proofs \o ProofsToAdd(next)
        /\ ProofsToAdd(next) \in Seq(Proofs)
        /\ Range(proofs') = Range(proofs) \cup Compatibles(next)
    BY <1>5, <2>1, ProofsToAddRange, ConcatRange DEF AddProofs
  <2>3. Len(proofs') <= Limit
    <3>1. Len(proofs') = Len(proofs) + Len(ProofsToAdd(next))
      BY <2>1, <2>2
    <3>2. Len(proofs) + Len(ProofsToAdd(next)) \in Nat
      BY <2>1, <2>2
    <3> QED
      BY <1>5, <3>1, <3>2, LimitAssumption DEF AddProofs, OverLimit
  <2>4. \A p \in Compatibles(next) : p.system = engine
    BY <2>1, CompatibleSystem DEF Compatibles
  <2> QED
    BY <1>1, <1>2, <2>2, <2>3, <2>4 DEF CollectedInv, OfEngine
<1>6. CASE UNCHANGED vars
  BY <1>3, <1>6 DEF vars, fetchVars
<1>7. CASE Next
  <2>1. proofs' = proofs \/ proofs' = <<>> \/ AddProofs
    <3>1. CASE \/ \E n \in 0..Len(Batches) : NewBlock(n)
               \/ \E t \in pool : MineVerify(t) \/ RevertVerify(t)
               \/ Start \/ StopAtLimit \/ FetchDone
      BY <3>1 DEF NewBlock, MineVerify, RevertVerify, Start, StopAtLimit, FetchDone, Fetched, fetchVars
    <3>2. CASE \E b \in 0..head : GetLogs(b)
      BY <3>2 DEF GetLogs
    <3>3. CASE DownloadFails \/ Builds \/ Send \/ GetReceipt \/ TruncateFile
      BY <3>3 DEF DownloadFails, Builds, Send, GetReceipt, TruncateFile, fetchVars
    <3>4. CASE WriteFile \/ RunEnds
      BY <1>1, <3>4, EndTyped DEF WriteFile, Exit
    <3> QED
      BY <1>1, <1>7, <3>1, <3>2, <3>3, <3>4, NextCases
  <2> QED
    BY <1>3, <1>4, <1>5, <2>1
<1> QED
  BY <1>6, <1>7

\* And it holds at the start.
LEMMA InitCollected == Init => CollectedInv
<1> SUFFICES ASSUME Init PROVE CollectedInv
  OBVIOUS
<1>1. proofs = <<>> /\ Range(<<>>) = {} /\ Len(<<>>) = 0
  BY DEF Init, Range
<1> QED
  BY <1>1, InitTyped, LimitAssumption DEF CollectedInv, OfEngine

\* The two roots of a run.
LEMMA RootOfRun ==
  ASSUME CollectedInv
  PROVE  AggregateProofs(engine, proofs) = MerkleRoot(Commitments(proofs))
<1>1. /\ engine \in {"SP1", "RISC0"} /\ proofs \in Seq(Proofs)
      /\ \A p \in Range(proofs) : p.system = engine
  BY DEF CollectedInv, TypeInv, TypeOK, OfEngine
<1> QED
  BY <1>1, AggregateRoot

\* For any chunk size, the root the zkVM computes over chunks is the one the service
\* computes over all the proofs.
THEOREM RootsAlwaysAgree == Spec => []RootsAgree
<1>1. CollectedInv => RootsAgree
  BY RootOfRun DEF RootsAgree
<1> QED
  BY <1>1, InitCollected, NextCollected, PTL DEF Spec

\* A list within the limit fits the blob.
LEMMA LimitFits ==
  ASSUME NEW leaves, Len(leaves) \in Nat, Len(leaves) <= Limit
  PROVE  BlobFits(leaves)
<1>1. Limit \in Nat /\ Limit * 4 <= FieldElements * 3 /\ FieldElements * 3 \in Nat
  BY LimitAssumption, BlobAssumption DEF HashBytes, PayloadBytes
<1> QED
  BY <1>1 DEF BlobFits, HashBytes, PayloadBytes

\* No list of proofs a run collects fails its own checks.
THEOREM NoAggregationRefused == Spec => NoRunRefused
<1>1. ASSUME CollectedInv, Aggregate PROVE pc' = "send"
  <2> DEFINE leaves == Commitments(proofs)
             root == AggregateProofs(engine, proofs)
             blob == ConstructBlob(leaves)
  <2>1. root = MerkleRoot(leaves)
    BY <1>1, RootOfRun
  <2>2. BlobFits(leaves)
    <3>1. proofs \in Seq(Proofs)
      BY <1>1 DEF CollectedInv, TypeInv
    <3>2. Len(leaves) = Len(proofs) /\ Len(proofs) \in Nat
      BY <3>1 DEF Commitments
    <3> HIDE DEF leaves
    <3> QED
      BY <1>1, <3>2, LimitFits DEF CollectedInv
  <2> HIDE DEF root, blob
  <2> QED
    BY <1>1, <2>1, <2>2 DEF Aggregate, root
<1>2. CollectedInv /\ [Next]_vars => [Aggregate => pc' = "send"]_vars
  BY <1>1
<1> QED
  BY <1>2, InitCollected, NextCollected, PTL DEF Spec, NoRunRefused

-----------------------------------------------------------------------------
(***************************************************************************)
(* Merkle paths.  The node a path has reached at level k is the ancestor   *)
(* of its leaf at that level; the one at the height of the tree is the     *)
(* root, since a power of two of leaves is below it.                       *)
(***************************************************************************)
\* Powers of two, as numbers of subsets.
LEMMA PowerOfTwo ==
  ASSUME NEW k \in Nat
  PROVE  2^k \in Nat /\ 2^k >= 1 /\ 2^(k + 1) = 2 * 2^k
<1> DEFINE A == SUBSET (1..k)
           Add(X) == X \cup {k + 1}
           B == {Add(X) : X \in A}
           f == [X \in A |-> Add(X)]
<1>1. IsFiniteSet(A) /\ Cardinality(A) = 2^k
  <2>1. IsFiniteSet(1..k) /\ Cardinality(1..k) = k
    BY FS_Interval
  <2> QED
    BY <2>1, FS_SUBSET
<1>2. Cardinality(SUBSET (1..(k + 1))) = 2^(k + 1)
  <2>1. IsFiniteSet(1..(k + 1)) /\ Cardinality(1..(k + 1)) = k + 1
    BY FS_Interval
  <2> QED
    BY <2>1, FS_SUBSET
<1>3. k + 1 \notin 1..k /\ 1..(k + 1) = 1..k \cup {k + 1}
  OBVIOUS
<1>4. SUBSET (1..(k + 1)) = A \cup B
  <2>1. ASSUME NEW X \in SUBSET (1..(k + 1)) PROVE X \in A \cup B
    <3>1. CASE k + 1 \in X
      <4>1. X \ {k + 1} \in A /\ X = Add(X \ {k + 1})
        BY <3>1, <1>3
      <4> QED
        BY <4>1
    <3>2. CASE k + 1 \notin X
      BY <3>2, <1>3
    <3> QED
      BY <3>1, <3>2
  <2>2. A \cup B \subseteq SUBSET (1..(k + 1))
    BY <1>3
  <2> QED
    BY <2>1, <2>2
<1>5. A \cap B = {}
  BY <1>3
<1>6. IsFiniteSet(B) /\ Cardinality(B) = Cardinality(A)
  <2>1. \A X \in A : X = Add(X) \ {k + 1}
    BY <1>3
  <2>2. f \in Bijection(A, B)
    <3>1. f \in [A -> B]
      OBVIOUS
    <3>2. \A X, Y \in A : f[X] = f[Y] => X = Y
      BY <2>1
    <3>3. \A Z \in B : \E X \in A : f[X] = Z
      OBVIOUS
    <3> HIDE DEF A, B, f
    <3> QED
      BY <3>1, <3>2, <3>3 DEF Bijection, Injection, Surjection, IsInjective
  <2> HIDE DEF A, B, f
  <2> QED
    BY <1>1, <2>2, FS_Bijection DEF ExistsBijection
<1>7. Cardinality(A \cap B) = 0
  BY <1>5, FS_EmptySet
<1> HIDE DEF A, B
<1>8. Cardinality(A) \in Nat
  BY <1>1, FS_CardinalityType
<1>9. Cardinality(A \cup B) = Cardinality(A) + Cardinality(B) - Cardinality(A \cap B)
  BY <1>1, <1>6, FS_Union
<1>10. 2^(k + 1) = 2 * 2^k /\ 2^k \in Nat
  BY <1>1, <1>2, <1>4, <1>6, <1>7, <1>8, <1>9
<1>11. Cardinality(A) # 0
  BY <1>1, FS_EmptySet DEF A
<1> QED
  BY <1>1, <1>8, <1>10, <1>11

\* A power of two is larger than its exponent.
LEMMA PowerGrows ==
  ASSUME NEW n \in Nat
  PROVE  2^n >= n
<1> DEFINE N == {m \in Nat : ~(2^m >= m)}
<1> SUFFICES ASSUME N # {} PROVE FALSE
  OBVIOUS
<1>1. PICK m \in N : \A x \in N : m <= x
  <2>1. N \in SUBSET Nat
    OBVIOUS
  <2> HIDE DEF N
  <2> QED
    BY <2>1, LeastNatural
<1>2. m # 0
  BY <1>1, PowerOfTwo
<1>3. m - 1 \in Nat /\ 2^(m - 1) >= m - 1
  BY <1>1, <1>2
<1>4. 2^(m - 1) >= 1 /\ 2^(m - 1) \in Nat /\ 2^((m - 1) + 1) = 2 * 2^(m - 1)
  BY <1>3, PowerOfTwo
<1>5. (m - 1) + 1 = m
  BY <1>1
<1>6. 2^m = 2 * 2^(m - 1)
  BY <1>4, <1>5
<1> QED
  BY <1>1, <1>3, <1>4, <1>6

\* A tree of this height has room for n leaves.
LEMMA HeightFits ==
  ASSUME NEW n \in Nat
  PROVE  Height(n) \in Nat /\ 2^Height(n) >= n
<1> DEFINE N == {h \in 0..n : 2^h >= n}
           Fits(h) == 2^h >= n /\ \A k \in 0..(h - 1) : 2^k < n
<1>1. n \in N /\ N \in SUBSET Nat
  BY PowerGrows
<1>2. PICK h \in N : \A m \in N : h <= m
  <2> HIDE DEF N
  <2> QED
    BY <1>1, LeastNatural
<1>3. h \in 0..n /\ 2^h >= n
  BY <1>2
<1>4. ASSUME NEW k \in 0..(h - 1) PROVE 2^k < n
  <2>1. k \in 0..n /\ k \notin N
    BY <1>2, <1>3
  <2>2. 2^k \in Nat
    BY <2>1, PowerOfTwo
  <2> QED
    BY <2>1, <2>2
<1>5. Fits(h)
  BY <1>3, <1>4
<1>6. Height(n) = CHOOSE x \in 0..n : Fits(x)
  BY DEF Height
<1> HIDE DEF Fits
<1>7. Height(n) \in 0..n /\ Fits(Height(n))
  BY <1>3, <1>5, <1>6
<1> QED
  BY <1>7 DEF Fits

\* The leaf at j, or the last one again.
LeafAt(leaves, j) == HashData(IF j <= Len(leaves) THEN leaves[j] ELSE Last(leaves))

\* Level k of a tree of height h, from the level below it.
Level(leaves, h, k, below) ==
    [j \in 1..2^(h - k) |->
        IF k = 0 THEN LeafAt(leaves, j)
        ELSE HashNewParent(below[2 * j - 1], below[2 * j])]

\* g has the levels up to m.
IsTree(g, leaves, h, m) == g = [k \in 0..m |-> Level(leaves, h, k, g[k - 1])]

\* There are such levels.
LEMMA TreeExists ==
  ASSUME NEW leaves, NEW h \in Nat, NEW n \in Nat
  PROVE  \E g : IsTree(g, leaves, h, n)
<1> DEFINE N == {m \in Nat : ~ \E g : IsTree(g, leaves, h, m)}
<1> SUFFICES ASSUME N # {} PROVE FALSE
  OBVIOUS
<1>0. \A x, y : Level(leaves, h, 0, x) = Level(leaves, h, 0, y)
  BY DEF Level
<1>1. PICK m \in N : \A x \in N : m <= x
  <2>1. N \in SUBSET Nat
    OBVIOUS
  <2> HIDE DEF N
  <2> QED
    BY <2>1, LeastNatural
<1>2. m # 0
  <2> DEFINE g0 == [k \in 0..0 |-> Level(leaves, h, 0, 0)]
  <2>1. \A k \in 0..0 : Level(leaves, h, 0, 0) = Level(leaves, h, k, g0[k - 1])
    <3> HIDE DEF g0
    <3> QED
      BY <1>0
  <2>2. g0 = [k \in 0..0 |-> Level(leaves, h, k, g0[k - 1])]
    BY <2>1
  <2> QED
    BY <1>1, <2>2 DEF IsTree
<1>3. PICK g : IsTree(g, leaves, h, m - 1)
  BY <1>1, <1>2
<1> DEFINE f == [k \in 0..m |-> IF k < m THEN g[k] ELSE Level(leaves, h, m, g[m - 1])]
<1>4. ASSUME NEW k \in 0..m PROVE f[k] = Level(leaves, h, k, f[k - 1])
  <2>1. CASE k = m
    BY <1>2, <2>1
  <2>2. CASE k # m
    <3>1. k \in 0..(m - 1) /\ f[k] = g[k] /\ (k # 0 => f[k - 1] = g[k - 1])
      BY <2>2
    <3>2. g[k] = Level(leaves, h, k, g[k - 1])
      BY <1>3, <3>1 DEF IsTree
    <3> HIDE DEF f
    <3>3. CASE k = 0
      BY <1>0, <3>1, <3>2, <3>3
    <3>4. CASE k # 0
      BY <3>1, <3>2, <3>4
    <3> QED
      BY <3>3, <3>4
  <2> QED
    BY <2>1, <2>2
<1>5. IsTree(f, leaves, h, m)
  <2>1. f = [k \in 0..m |-> f[k]]
    OBVIOUS
  <2> HIDE DEF f
  <2> QED
    BY <1>4, <2>1 DEF IsTree
<1> QED
  BY <1>1, <1>5

\* The nodes of a tree: its leaves, and parents of two nodes each.
LEMMA TreeNodes ==
  ASSUME NEW leaves, Len(leaves) \in Nat
  PROVE  LET h == Height(Len(leaves))
             tree == MerkleTree(leaves)
         IN  /\ \A j \in 1..2^h : tree[0][j] = LeafAt(leaves, j)
             /\ \A k \in 1..h : \A j \in 1..2^(h - k) :
                   tree[k][j] = HashNewParent(tree[k - 1][2 * j - 1], tree[k - 1][2 * j])
<1> DEFINE h == Height(Len(leaves))
           tree == MerkleTree(leaves)
<1>1. h \in Nat
  BY HeightFits
<1>2. tree = CHOOSE g : IsTree(g, leaves, h, h)
  BY DEF MerkleTree, IsTree, Level, LeafAt
<1> HIDE DEF h, tree
<1>3. IsTree(tree, leaves, h, h)
  BY <1>1, <1>2, TreeExists
<1>4. \A k \in 0..h : tree[k] = Level(leaves, h, k, tree[k - 1])
  BY <1>3 DEF IsTree
<1>5. \A j \in 1..2^h : tree[0][j] = LeafAt(leaves, j)
  <2>1. tree[0] = Level(leaves, h, 0, tree[0 - 1]) /\ h - 0 = h
    BY <1>1, <1>4
  <2> QED
    BY <2>1 DEF Level
<1>6. ASSUME NEW k \in 1..h, NEW j \in 1..2^(h - k)
      PROVE  tree[k][j] = HashNewParent(tree[k - 1][2 * j - 1], tree[k - 1][2 * j])
  <2>1. tree[k] = Level(leaves, h, k, tree[k - 1]) /\ k # 0
    BY <1>1, <1>4
  <2> QED
    BY <2>1 DEF Level
<1> QED
  BY <1>5, <1>6 DEF h, tree

\* f has what the fold of a path has reached after its first k siblings.
Folds(f, path, n, c) ==
    f[0] = HashData(c) /\ \A k \in 1..n : f[k] = HashNewParent(f[k - 1], path[k])

\* g is the fold over the sets of positions of which FoldLeft takes the largest first.
IsFold(g, path, n, c) ==
    g = [s \in SUBSET (1..n) |->
            IF s = {} THEN HashData(c)
            ELSE HashNewParent(g[s \ {Max(s)}], path[Max(s)])]

\* The largest of some positions.
LEMMA MaxOf ==
  ASSUME NEW n \in Nat, NEW s \in SUBSET (1..n), s # {}
  PROVE  Max(s) \in s /\ \A x \in s : Max(s) >= x
<1> DEFINE N == {m \in Nat : \A x \in s : m >= x}
<1>1. N \in SUBSET Nat /\ n \in N
  OBVIOUS
<1>2. PICK m \in N : \A y \in N : m <= y
  <2> HIDE DEF N
  <2> QED
    BY <1>1, LeastNatural
<1>3. m \in s
  <2> SUFFICES ASSUME m \notin s PROVE FALSE
    OBVIOUS
  <2>1. PICK x \in s : TRUE
    OBVIOUS
  <2>2. m # 0
    BY <2>1, <1>2
  <2>3. \A y \in s : m - 1 >= y
    BY <1>2
  <2>4. m - 1 \in N
    BY <1>2, <2>2, <2>3
  <2> QED
    BY <1>2, <2>4
<1>4. \E x \in s : \A y \in s : x >= y
  BY <1>2, <1>3
<1> QED
  BY <1>4 DEF Max

\* There is such a fold.
LEMMA FoldExists ==
  ASSUME NEW path, NEW c, NEW n \in Nat
  PROVE  \E g : IsFold(g, path, n, c)
<1> DEFINE N == {m \in Nat : ~ \E g : IsFold(g, path, m, c)}
<1> SUFFICES ASSUME N # {} PROVE FALSE
  OBVIOUS
<1>1. PICK m \in N : \A x \in N : m <= x
  <2>1. N \in SUBSET Nat
    OBVIOUS
  <2> HIDE DEF N
  <2> QED
    BY <2>1, LeastNatural
<1>2. m # 0
  <2>1. IsFold([s \in SUBSET (1..0) |-> HashData(c)], path, 0, c)
    <3>1. \A s \in SUBSET (1..0) : s = {}
      OBVIOUS
    <3> QED
      BY <3>1 DEF IsFold
  <2> QED
    BY <1>1, <2>1
<1>3. PICK g : IsFold(g, path, m - 1, c)
  BY <1>1, <1>2
<1> DEFINE f == [s \in SUBSET (1..m) |->
                    IF m \in s THEN HashNewParent(g[s \ {m}], path[m]) ELSE g[s]]
<1>4. ASSUME NEW s \in SUBSET (1..m)
      PROVE  f[s] = IF s = {} THEN HashData(c)
                    ELSE HashNewParent(f[s \ {Max(s)}], path[Max(s)])
  <2>1. CASE m \in s
    <3>1. Max(s) = m
      <4>1. Max(s) \in s /\ Max(s) >= m
        BY <2>1, <1>1, MaxOf
      <4>2. Max(s) \in 1..m
        BY <4>1
      <4> QED
        BY <1>1, <4>1, <4>2
    <3>2. s \ {m} \in SUBSET (1..m) /\ m \notin s \ {m} /\ s # {}
      BY <2>1
    <3>3. f[s \ {m}] = g[s \ {m}] /\ f[s] = HashNewParent(g[s \ {m}], path[m])
      BY <2>1, <3>2
    <3> HIDE DEF f
    <3> QED
      BY <3>1, <3>2, <3>3
  <2>2. CASE m \notin s
    <3>1. s \in SUBSET (1..(m - 1))
      BY <2>2
    <3>2. f[s] = g[s]
      BY <2>2
    <3>3. g[s] = IF s = {} THEN HashData(c) ELSE HashNewParent(g[s \ {Max(s)}], path[Max(s)])
      BY <1>3, <3>1 DEF IsFold
    <3>4. f[s \ {Max(s)}] = g[s \ {Max(s)}]
      BY <2>2
    <3> HIDE DEF f
    <3> QED
      BY <3>2, <3>3, <3>4
  <2> QED
    BY <2>1, <2>2
<1>5. IsFold(f, path, m, c)
  <2>1. f = [s \in SUBSET (1..m) |-> f[s]]
    OBVIOUS
  <2> HIDE DEF f
  <2> QED
    BY <1>4, <2>1 DEF IsFold
<1> QED
  BY <1>1, <1>5

\* RootFromPath goes up the path from the leaf.
LEMMA RootFromPathIs ==
  ASSUME NEW n \in Nat, NEW path, DOMAIN path = 1..n, NEW c, NEW f, Folds(f, path, n, c)
  PROVE  RootFromPath(path, c) = f[n]
<1>1. PICK g : g = CHOOSE x : IsFold(x, path, n, c)
  OBVIOUS
<1>2. IsFold(g, path, n, c)
  BY <1>1, FoldExists
<1>3. RootFromPath(path, c) = g[1..n]
  BY <1>1 DEF RootFromPath, FoldLeft, MapThenFoldSet, IsFold
<1>4. \A s \in SUBSET (1..n) :
         g[s] = IF s = {} THEN HashData(c) ELSE HashNewParent(g[s \ {Max(s)}], path[Max(s)])
  BY <1>2 DEF IsFold
<1>5. f[0] = HashData(c) /\ \A k \in 1..n : f[k] = HashNewParent(f[k - 1], path[k])
  BY DEF Folds
<1> DEFINE N == {k \in 0..n : g[1..k] # f[k]}
<1>6. N = {}
  <2> SUFFICES ASSUME N # {} PROVE FALSE
    OBVIOUS
  <2>1. PICK k \in N : \A x \in N : k <= x
    <3>1. N \in SUBSET Nat
      OBVIOUS
    <3> HIDE DEF N
    <3> QED
      BY <3>1, LeastNatural
  <2>2. k # 0
    <3>1. 1..0 = {} /\ 1..0 \in SUBSET (1..n)
      OBVIOUS
    <3>2. g[1..0] = f[0]
      BY <3>1, <1>4, <1>5
    <3> QED
      BY <2>1, <3>2
  <2>3. k \in 1..n /\ k - 1 \in 0..n /\ k - 1 \notin N
    BY <2>1, <2>2
  <2>4. 1..k \in SUBSET (1..n) /\ 1..k # {} /\ (1..k) \ {k} = 1..(k - 1)
    <3>1. k \in 1..k /\ \A x \in 1..k : x \in 1..n
      BY <2>3
    <3>2. \A x : x \in (1..k) \ {k} <=> x \in 1..(k - 1)
      BY <2>3
    <3> QED
      BY <3>1, <3>2
  <2>5. Max(1..k) = k
    <3>1. Max(1..k) \in 1..k /\ Max(1..k) >= k
      <4>1. k \in 1..k
        BY <2>3
      <4>2. \A s \in SUBSET (1..n) : s # {} => Max(s) \in s /\ \A x \in s : Max(s) >= x
        BY MaxOf
      <4> QED
        BY <2>4, <4>1, <4>2
    <3> QED
      BY <2>3, <3>1
  <2>6. g[1..k] = HashNewParent(g[1..(k - 1)], path[k])
    BY <1>4, <2>4, <2>5
  <2>7. g[1..(k - 1)] = f[k - 1]
    BY <2>3
  <2>8. g[1..k] = f[k]
    BY <1>5, <2>3, <2>6, <2>7
  <2> QED
    BY <2>1, <2>8
<1> QED
  BY <1>3, <1>6

\* The ancestor of a leaf, its two children, and the sibling beside the path.
LEMMA Ancestor ==
  ASSUME NEW a \in Nat, NEW m \in Nat \ {0}
  PROVE  LET index == (a \div m) + 1
             parent == (a \div (2 * m)) + 1
             sibling == IF index % 2 = 1 THEN index + 1 ELSE index - 1
         IN  /\ index \in Nat \ {0} /\ parent \in Nat \ {0}
             /\ \/ index = 2 * parent - 1 /\ sibling = 2 * parent
                \/ index = 2 * parent /\ sibling = 2 * parent - 1
<1>1. PICK q \in Nat : q = a \div m
  OBVIOUS
<1>2. a \div (2 * m) = q \div 2
  BY <1>1
<1>3. PICK p \in Nat : p = q \div 2
  BY <1>1
<1>4. \/ q = 2 * p /\ (q + 1) % 2 = 1
      \/ q = 2 * p + 1 /\ (q + 1) % 2 = 0
  BY <1>1, <1>3
<1> QED
  BY <1>1, <1>2, <1>3, <1>4

\* The path of a leaf leads from it to the root.
LEMMA PathLeadsToRoot ==
  ASSUME NEW leaves, Len(leaves) \in Nat, NEW pos \in 1..Len(leaves)
  PROVE  RootFromPath(MerklePath(leaves, pos), leaves[pos]) = MerkleRoot(leaves)
<1> DEFINE h == Height(Len(leaves))
           tree == MerkleTree(leaves)
           path == MerklePath(leaves, pos)
           At(k) == ((pos - 1) \div 2^k) + 1
           f == [k \in 0..h |-> tree[k][At(k)]]
<1>1. h \in Nat /\ 2^h >= Len(leaves)
  BY HeightFits
<1>2. /\ \A j \in 1..2^h : tree[0][j] = LeafAt(leaves, j)
      /\ \A k \in 1..h : \A j \in 1..2^(h - k) :
            tree[k][j] = HashNewParent(tree[k - 1][2 * j - 1], tree[k - 1][2 * j])
  BY TreeNodes
<1>3. /\ DOMAIN path = 1..h
      /\ \A k \in 1..h :
            path[k] = tree[k - 1][IF At(k - 1) % 2 = 1 THEN At(k - 1) + 1 ELSE At(k - 1) - 1]
  BY DEF MerklePath
<1>4. pos - 1 \in Nat
  OBVIOUS
<1> HIDE DEF h, tree, path
<1>5. ASSUME NEW k \in 0..h PROVE 2^k \in Nat \ {0} /\ At(k) \in Nat \ {0}
  <2>1. 2^k \in Nat /\ 2^k >= 1
    BY <1>1, PowerOfTwo
  <2>2. PICK m \in Nat \ {0} : m = 2^k
    BY <2>1
  <2>3. ((pos - 1) \div m) + 1 \in Nat \ {0}
    BY <1>4, Ancestor
  <2> QED
    BY <2>2, <2>3
<1>6. ASSUME NEW k \in 1..h
      PROVE  \/ /\ At(k - 1) = 2 * At(k) - 1
                /\ path[k] = tree[k - 1][2 * At(k)]
             \/ /\ At(k - 1) = 2 * At(k)
                /\ path[k] = tree[k - 1][2 * At(k) - 1]
  <2>1. k - 1 \in Nat /\ (k - 1) + 1 = k /\ k - 1 \in 0..h
    BY <1>1
  <2>2. 2^k = 2 * 2^(k - 1)
    <3>1. 2^((k - 1) + 1) = 2 * 2^(k - 1)
      BY <2>1, PowerOfTwo
    <3> QED
      BY <2>1, <3>1
  <2>3. PICK m \in Nat \ {0} : m = 2^(k - 1)
    BY <2>1, <1>5
  <2>4. At(k - 1) = ((pos - 1) \div m) + 1 /\ At(k) = ((pos - 1) \div (2 * m)) + 1
    BY <2>2, <2>3
  <2> HIDE DEF At
  <2>5. path[k] = tree[k - 1][IF At(k - 1) % 2 = 1 THEN At(k - 1) + 1 ELSE At(k - 1) - 1]
    BY <1>3
  <2>6. \/ /\ At(k - 1) = 2 * At(k) - 1
           /\ (IF At(k - 1) % 2 = 1 THEN At(k - 1) + 1 ELSE At(k - 1) - 1) = 2 * At(k)
        \/ /\ At(k - 1) = 2 * At(k)
           /\ (IF At(k - 1) % 2 = 1 THEN At(k - 1) + 1 ELSE At(k - 1) - 1) = 2 * At(k) - 1
    <3>1. PICK a \in Nat : a = pos - 1
      BY <1>4
    <3> DEFINE index == (a \div m) + 1
               parent == (a \div (2 * m)) + 1
               sibling == IF index % 2 = 1 THEN index + 1 ELSE index - 1
    <3>2. \/ index = 2 * parent - 1 /\ sibling = 2 * parent
          \/ index = 2 * parent /\ sibling = 2 * parent - 1
      BY Ancestor
    <3>3. At(k - 1) = index /\ At(k) = parent
      BY <2>4, <3>1
    <3>4. (IF At(k - 1) % 2 = 1 THEN At(k - 1) + 1 ELSE At(k - 1) - 1) = sibling
      BY <3>3
    <3> HIDE DEF index, parent, sibling
    <3> QED
      BY <3>2, <3>3, <3>4
  <2> QED
    BY <2>5, <2>6
<1>7. ASSUME NEW k \in 0..h PROVE At(k) \in 1..2^(h - k)
  <2> DEFINE N == {m \in 0..h : At(m) \notin 1..2^(h - m)}
  <2> SUFFICES ASSUME N # {} PROVE FALSE
    OBVIOUS
  <2>1. PICK m \in N : \A x \in N : m <= x
    <3>1. N \in SUBSET Nat
      OBVIOUS
    <3> HIDE DEF N
    <3> QED
      BY <3>1, LeastNatural
  <2>2. m # 0
    <3>1. 2^0 = 1 /\ h - 0 = h
      BY <1>1
    <3>2. At(0) = pos
      BY <3>1
    <3>3. 2^h \in Nat
      BY <1>1, PowerOfTwo
    <3>4. pos \in 1..2^h
      BY <1>1, <3>3
    <3> HIDE DEF At
    <3> QED
      BY <2>1, <3>1, <3>2, <3>4
  <2>3. m \in 1..h /\ m - 1 \in 0..h /\ m - 1 \notin N
    <3>1. N \in SUBSET (0..h)
      OBVIOUS
    <3> HIDE DEF At, N
    <3> QED
      BY <1>1, <2>1, <2>2, <3>1
  <2>4. At(m - 1) \in 1..2^(h - (m - 1))
    BY <2>3
  <2>5. h - m \in Nat /\ h - (m - 1) = (h - m) + 1
    BY <1>1, <2>3
  <2>6. 2^(h - (m - 1)) = 2 * 2^(h - m) /\ 2^(h - m) \in Nat
    BY <2>5, PowerOfTwo
  <2>7. At(m) \in Nat \ {0}
    BY <2>1, <1>5
  <2>8. At(m - 1) = 2 * At(m) - 1 \/ At(m - 1) = 2 * At(m)
    BY <2>3, <1>6
  <2>9. At(m) \notin 1..2^(h - m)
    BY <2>1
  <2> HIDE DEF At, N
  <2> QED
    BY <2>4, <2>6, <2>7, <2>8, <2>9
<1> HIDE DEF At
<1>8. f[0] = HashData(leaves[pos])
  <2>1. At(0) = pos
    BY <1>4 DEF At
  <2>2. pos \in 1..2^h
    BY <1>1, <1>7, <2>1
  <2>3. tree[0][pos] = LeafAt(leaves, pos)
    BY <1>2, <2>2
  <2> QED
    BY <1>1, <2>1, <2>3 DEF LeafAt
<1>9. ASSUME NEW k \in 1..h PROVE f[k] = HashNewParent(f[k - 1], path[k])
  <2>1. k \in 0..h /\ k - 1 \in 0..h
    BY <1>1
  <2>2. f[k] = tree[k][At(k)] /\ f[k - 1] = tree[k - 1][At(k - 1)]
    BY <2>1
  <2>3. tree[k][At(k)] = HashNewParent(tree[k - 1][2 * At(k) - 1], tree[k - 1][2 * At(k)])
    BY <1>2, <1>7, <2>1
  <2>4. \A l, r : HashNewParent(l, r) = HashNewParent(r, l)
    <3>1. \A l, r : {l, r} = {r, l}
      OBVIOUS
    <3> QED
      BY <3>1 DEF HashNewParent
  <2> HIDE DEF f
  <2> QED
    BY <1>6, <2>2, <2>3, <2>4
<1>10. f[h] = MerkleRoot(leaves)
  <2>1. h \in 0..h /\ h - h = 0
    BY <1>1
  <2>2. 2^0 = 1
    OBVIOUS
  <2>3. At(h) \in 1..2^(h - h)
    BY <1>7, <2>1
  <2>4. At(h) \in 1..1
    BY <2>1, <2>2, <2>3
  <2>5. At(h) = 1
    BY <2>4
  <2> QED
    BY <2>1, <2>5 DEF MerkleRoot, h, tree
<1>11. Folds(f, path, h, leaves[pos])
  <2> HIDE DEF f
  <2> QED
    BY <1>8, <1>9 DEF Folds
<1> HIDE DEF f
<1>12. RootFromPath(path, leaves[pos]) = f[h]
  BY <1>1, <1>3, <1>11, RootFromPathIs
<1> QED
  BY <1>10, <1>12 DEF path

-----------------------------------------------------------------------------
(***************************************************************************)
(* The blob.  Decoding it gives the leaves back: no digest is taken for    *)
(* the end of the list, though digests have zeros in them.                 *)
(***************************************************************************)
\* Digests of a list.
AreDigests(leaves, V) ==
    /\ leaves \in Seq(Seq(V))
    /\ \A k \in 1..Len(leaves) : Len(leaves[k]) = 4

\* Byte i of the digests, one after the other.
ByteOf(leaves, i) == leaves[((i - 1) \div 4) + 1][((i - 1) % 4) + 1]

\* Where a byte is.
LEMMA BytePlace ==
  ASSUME NEW i \in Nat \ {0}
  PROVE  \E k \in Nat \ {0}, j \in 1..4 :
            /\ i = 4 * (k - 1) + j
            /\ ((i - 1) \div 4) + 1 = k /\ ((i - 1) % 4) + 1 = j
<1>1. PICK q \in Nat : q = (i - 1) \div 4
  OBVIOUS
<1>2. PICK r \in 0..3 : r = (i - 1) % 4
  OBVIOUS
<1>3. i - 1 = 4 * q + r
  BY <1>1, <1>2
<1>4. q + 1 \in Nat \ {0} /\ r + 1 \in 1..4 /\ i = 4 * ((q + 1) - 1) + (r + 1)
  BY <1>3
<1> QED
  BY <1>1, <1>2, <1>4

\* And which byte is at a place.
LEMMA PlaceOfByte ==
  ASSUME NEW k \in Nat \ {0}, NEW j \in 1..4
  PROVE  /\ 4 * (k - 1) + j \in Nat \ {0}
         /\ (((4 * (k - 1) + j) - 1) \div 4) + 1 = k
         /\ (((4 * (k - 1) + j) - 1) % 4) + 1 = j
OBVIOUS

\* The bytes of some digests.
LEMMA FlattenBytes ==
  ASSUME NEW V, NEW leaves, AreDigests(leaves, V)
  PROVE  /\ FlattenSeq(leaves) = [i \in 1..(4 * Len(leaves)) |-> ByteOf(leaves, i)]
         /\ FlattenSeq(leaves) \in Seq(V)
<1> DEFINE n == Len(leaves)
           Bytes(k) == [i \in 1..(4 * k) |-> ByteOf(leaves, i)]
           f == [k \in 1..n |-> Bytes(k)]
<1>1. n \in Nat /\ \A k \in 1..n : leaves[k] \in Seq(V) /\ Len(leaves[k]) = 4
  BY DEF AreDigests
<1>2. ASSUME NEW k \in 0..n PROVE Bytes(k) \in Seq(V) /\ Len(Bytes(k)) = 4 * k
  <2>1. ASSUME NEW i \in 1..(4 * k) PROVE ByteOf(leaves, i) \in V
    <3>1. PICK l \in Nat \ {0}, j \in 1..4 :
             /\ i = 4 * (l - 1) + j
             /\ ((i - 1) \div 4) + 1 = l /\ ((i - 1) % 4) + 1 = j
      BY BytePlace
    <3>2. l \in 1..n
      BY <1>1, <3>1
    <3>3. ByteOf(leaves, i) = leaves[l][j]
      BY <3>1 DEF ByteOf
    <3>4. leaves[l] \in Seq(V) /\ j \in 1..Len(leaves[l])
      BY <1>1, <3>2
    <3> QED
      BY <3>3, <3>4
  <2>2. 4 * k \in Nat
    BY <1>1
  <2> QED
    BY <2>1, <2>2
<1>3. ASSUME NEW k \in 1..n PROVE Bytes(k) = Bytes(k - 1) \o leaves[k]
  <2> DEFINE both == Bytes(k - 1) \o leaves[k]
  <2>1. k - 1 \in 0..n /\ k \in 0..n
    BY <1>1
  <2>2. /\ Bytes(k - 1) \in Seq(V) /\ Len(Bytes(k - 1)) = 4 * (k - 1)
        /\ leaves[k] \in Seq(V) /\ Len(leaves[k]) = 4
        /\ Bytes(k) \in Seq(V) /\ Len(Bytes(k)) = 4 * k
    BY <1>1, <1>2, <2>1
  <2>3. \A i \in 1..(4 * (k - 1)) : Bytes(k - 1)[i] = ByteOf(leaves, i)
    OBVIOUS
  <2>4. \A i \in 1..(4 * k) : Bytes(k)[i] = ByteOf(leaves, i)
    OBVIOUS
  <2>5. 4 * (k - 1) \in Nat /\ 4 * k = 4 * (k - 1) + 4
    BY <1>1
  <2> HIDE DEF Bytes
  <2>6. /\ both \in Seq(V) /\ Len(both) = 4 * k
        /\ \A i \in 1..(4 * k) :
              both[i] = IF i <= 4 * (k - 1) THEN Bytes(k - 1)[i] ELSE leaves[k][i - 4 * (k - 1)]
    <3>1. PICK s \in Seq(V) : s = Bytes(k - 1)
      BY <2>2
    <3>2. PICK t \in Seq(V) : t = leaves[k]
      BY <2>2
    <3>3. PICK m \in Nat : m = 4 * (k - 1)
      BY <2>5
    <3>4. /\ s \o t \in Seq(V) /\ Len(s \o t) = m + 4
          /\ \A i \in 1..(m + 4) : (s \o t)[i] = IF i <= m THEN s[i] ELSE t[i - m]
      <4>1. Len(s) = m /\ Len(t) = 4
        BY <2>2, <3>1, <3>2, <3>3
      <4>2. /\ s \o t \in Seq(V) /\ Len(s \o t) = Len(s) + Len(t)
            /\ \A i \in 1..(Len(s) + Len(t)) :
                  (s \o t)[i] = IF i <= Len(s) THEN s[i] ELSE t[i - Len(s)]
        OBVIOUS
      <4> QED
        BY <4>1, <4>2
    <3> QED
      BY <2>5, <3>1, <3>2, <3>3, <3>4
  <2> HIDE DEF both
  <2>7. ASSUME NEW i \in 1..(4 * k) PROVE both[i] = Bytes(k)[i]
    <3>1. CASE i <= 4 * (k - 1)
      <4>1. i \in 1..(4 * (k - 1))
        BY <2>5, <3>1
      <4>2. both[i] = Bytes(k - 1)[i]
        BY <2>6, <3>1
      <4> QED
        BY <2>3, <2>4, <4>1, <4>2
    <3>2. CASE ~(i <= 4 * (k - 1))
      <4>1. PICK j \in 1..4 : i = 4 * (k - 1) + j
        <5>1. i - 4 * (k - 1) \in 1..4 /\ i = 4 * (k - 1) + (i - 4 * (k - 1))
          BY <2>5, <3>2
        <5> QED
          BY <5>1
      <4>2. both[i] = leaves[k][j]
        <5>1. i - 4 * (k - 1) = j
          BY <2>5, <4>1
        <5> QED
          BY <2>6, <3>2, <5>1
      <4>3. ByteOf(leaves, i) = leaves[k][j]
        <5>1. k \in Nat \ {0}
          BY <1>1
        <5> QED
          BY <4>1, <5>1, PlaceOfByte DEF ByteOf
      <4> QED
        BY <2>4, <4>2, <4>3
    <3> QED
      BY <3>1, <3>2
  <2>8. both = Bytes(k)
    BY <2>2, <2>6, <2>7, SeqEqual
  <2> QED
    BY <2>8 DEF both
<1>4. FlattenSeq(leaves) = Bytes(n)
  <2>1. CASE n = 0
    <3>1. leaves = <<>>
      BY <2>1 DEF AreDigests
    <3>2. Bytes(0) = <<>>
      BY <1>1, <1>2
    <3> HIDE DEF Bytes
    <3> QED
      BY <2>1, <3>1, <3>2 DEF FlattenSeq
  <2>2. CASE n # 0
    <3>1. n \in Nat \ {0}
      BY <1>1, <2>2
    <3>2. f[1] = leaves[1]
      <4>1. 1 \in 1..n /\ 1 - 1 = 0 /\ 0 \in 0..n
        BY <3>1
      <4>2. Bytes(0) = <<>>
        BY <1>2, <4>1
      <4>3. leaves[1] \in Seq(V)
        BY <1>1, <4>1
      <4> HIDE DEF Bytes
      <4>4. Bytes(1) = <<>> \o leaves[1]
        BY <1>3, <4>1, <4>2
      <4> QED
        BY <4>1, <4>3, <4>4
    <3>3. \A k \in 2..n : f[k] = f[k - 1] \o leaves[k]
      <4> TAKE k \in 2..n
      <4>1. k \in 1..n /\ k - 1 \in 1..n
        BY <1>1
      <4> HIDE DEF Bytes
      <4> QED
        BY <1>3, <4>1
    <3>4. f[n] = Bytes(n)
      BY <3>1
    <3> HIDE DEF f, n, Bytes
    <3>5. Flattens(f, leaves, n)
      BY <3>2, <3>3 DEF Flattens
    <3>6. Len(leaves) = n
      BY DEF n
    <3> QED
      BY <3>1, <3>4, <3>5, <3>6, FlattenIs
  <2> QED
    BY <2>1, <2>2
<1>5. n \in 0..n
  BY <1>1
<1> QED
  BY <1>2, <1>4, <1>5

\* The byte of the payload at i is where construct_blob put byte i of the digests.
LEMMA PayloadPlace ==
  ASSUME NEW F \in Nat, NEW i \in 1..(F * 3)
  PROVE  LET x == i + 1 + (i - 1) \div 3
         IN  /\ x \in 1..(F * 4)
             /\ (x - 1) % 4 # 0
             /\ ((x - 1) \div 4) * 3 + ((x - 1) % 4) = i
<1> DEFINE x == i + 1 + (i - 1) \div 3
<1>1. PICK q \in Nat : q = (i - 1) \div 3
  OBVIOUS
<1>2. PICK r \in 0..2 : r = (i - 1) % 3
  OBVIOUS
<1>3. i - 1 = 3 * q + r
  BY <1>1, <1>2
<1>4. x = 4 * q + r + 2 /\ q < F
  BY <1>1, <1>3
<1>5. (x - 1) \div 4 = q /\ (x - 1) % 4 = r + 1
  <2>1. x - 1 = 4 * q + (r + 1) /\ r + 1 \in 0..3
    BY <1>4
  <2> HIDE DEF x
  <2> QED
    BY <2>1
<1> HIDE DEF x
<1>6. x \in 1..(F * 4)
  BY <1>4
<1>7. q * 3 + (r + 1) = i
  BY <1>3
<1>8. (x - 1) % 4 # 0 /\ ((x - 1) \div 4) * 3 + ((x - 1) % 4) = i
  BY <1>5, <1>7
<1> QED
  BY <1>6, <1>8 DEF x

\* The blob without its padding: the bytes of the digests, then zeros.
LEMMA PayloadIs ==
  ASSUME NEW leaves, NEW i \in 1..(FieldElements * 3)
  PROVE  ConstructBlob(leaves)[i + 1 + (i - 1) \div 3] =
            IF i > Len(FlattenSeq(leaves)) THEN 0 ELSE FlattenSeq(leaves)[i]
<1> DEFINE data == FlattenSeq(leaves)
           x == i + 1 + (i - 1) \div 3
           Padded(y) == LET at == ((y - 1) \div 4) * 3 + ((y - 1) % 4)
                        IN  IF (y - 1) % 4 = 0 \/ at > Len(data) THEN 0 ELSE data[at]
<1>1. /\ x \in 1..(FieldElements * 4)
      /\ (x - 1) % 4 # 0
      /\ ((x - 1) \div 4) * 3 + ((x - 1) % 4) = i
  BY BlobAssumption, PayloadPlace
<1>2. ConstructBlob(leaves) = [y \in 1..(FieldElements * 4) |-> Padded(y)]
  BY DEF ConstructBlob, HashBytes, PayloadBytes
<1> HIDE DEF x, data
<1>3. Padded(x) = IF i > Len(data) THEN 0 ELSE data[i]
  BY <1>1
<1> HIDE DEF Padded
<1>4. ConstructBlob(leaves)[x] = Padded(x)
  BY <1>1, <1>2
<1> QED
  BY <1>3, <1>4 DEF x, data

\* How many digests decoded_blob reads of m, when the list ends at one of ends.
CountOf(ends, m) ==
    IF ends = {} THEN m ELSE (CHOOSE k \in ends : \A l \in ends : k <= l) - 1

\* All those before the first end.
LEMMA FirstEnd ==
  ASSUME NEW n \in Nat, NEW m \in Nat, n <= m, NEW ends,
         ends = {k \in 1..m : k > n}
  PROVE  CountOf(ends, m) = n
<1>1. CASE ends = {}
  <2>1. n + 1 \notin 1..m
    BY <1>1
  <2> QED
    BY <1>1, <2>1 DEF CountOf
<1>2. CASE ends # {}
  <2>1. n + 1 \in ends /\ \A l \in ends : n + 1 <= l
    <3>1. PICK k \in ends : TRUE
      BY <1>2
    <3> QED
      BY <3>1
  <2>2. PICK e : e = CHOOSE k \in ends : \A l \in ends : k <= l
    OBVIOUS
  <2>3. e \in ends /\ \A l \in ends : e <= l
    BY <2>1, <2>2
  <2>4. e = n + 1
    BY <2>1, <2>3
  <2> QED
    BY <1>2, <2>2, <2>4 DEF CountOf
<1> QED
  BY <1>1, <1>2

\* Decoding a blob gives the digests it was built from.
LEMMA BlobRoundTrip ==
  ASSUME NEW V, NEW leaves, AreDigests(leaves, V), BlobFits(leaves),
         \A k \in 1..Len(leaves) : leaves[k] # ZeroHash
  PROVE  DecodedBlob(ConstructBlob(leaves)) = leaves
<1> DEFINE n == Len(leaves)
           W == V \cup {0}
           data == FlattenSeq(leaves)
           payload == [i \in 1..(FieldElements * 3) |->
                          ConstructBlob(leaves)[i + 1 + (i - 1) \div 3]]
           size == Len(payload) \div 4
           hash(k) == SubSeq(payload, (k - 1) * 4 + 1, k * 4)
           ends == {k \in 1..size : hash(k) = ZeroHash}
           count == IF ends = {} THEN size
                    ELSE (CHOOSE k \in ends : \A m \in ends : k <= m) - 1
<1>1. /\ n \in Nat /\ leaves \in Seq(Seq(V))
      /\ \A k \in 1..n : leaves[k] \in Seq(V) /\ Len(leaves[k]) = 4
  BY DEF AreDigests
<1>2. FieldElements * 3 \in Nat /\ n * 4 <= FieldElements * 3
  BY BlobAssumption DEF BlobFits, HashBytes, PayloadBytes
<1>3. /\ data = [i \in 1..(4 * n) |-> ByteOf(leaves, i)]
      /\ data \in Seq(V)
  BY FlattenBytes
<1>4. Len(data) = 4 * n
  BY <1>1, <1>3
<1>5. DecodedBlob(ConstructBlob(leaves)) = [k \in 1..count |-> hash(k)]
  BY DEF DecodedBlob, HashBytes, PayloadBytes
<1> HIDE DEF data, n
<1>6. ASSUME NEW i \in 1..(FieldElements * 3)
      PROVE  payload[i] = IF i > 4 * n THEN 0 ELSE data[i]
  <2>1. ConstructBlob(leaves)[i + 1 + (i - 1) \div 3] =
           IF i > Len(data) THEN 0 ELSE data[i]
    BY PayloadIs DEF data
  <2> QED
    BY <1>4, <2>1
<1>7. payload \in Seq(W) /\ Len(payload) = FieldElements * 3
  <2>1. ASSUME NEW i \in 1..(FieldElements * 3) PROVE payload[i] \in W
    <3>1. i <= 4 * n => data[i] \in V
      BY <1>1, <1>2, <1>3, <1>4
    <3> QED
      BY <1>1, <1>6, <3>1
  <2>2. payload = [i \in 1..(FieldElements * 3) |-> payload[i]]
    OBVIOUS
  <2> HIDE DEF payload
  <2> QED
    BY <1>2, <2>1, <2>2
<1> HIDE DEF payload
<1>8. size \in Nat /\ 4 * size <= FieldElements * 3 /\ n <= size
  <2>1. PICK L \in Nat : L = FieldElements * 3
    BY <1>2
  <2>2. L \div 4 \in Nat /\ 4 * (L \div 4) <= L /\ n <= L \div 4
    BY <1>1, <1>2, <2>1
  <2> QED
    BY <1>7, <2>1, <2>2
<1>9. ASSUME NEW k \in 1..size
      PROVE  /\ hash(k) \in Seq(W) /\ Len(hash(k)) = 4
             /\ \A j \in 1..4 : hash(k)[j] = payload[4 * (k - 1) + j]
  <2>1. PICK a \in Int : a = (k - 1) * 4 + 1
    BY <1>8
  <2>2. PICK b \in Int : b = k * 4
    BY <1>8
  <2>3. a >= 1 /\ b <= Len(payload) /\ b - a + 1 = 4 /\ a <= b
    BY <1>7, <1>8, <2>1, <2>2
  <2>4. \A i \in a..b : payload[i] \in W
    BY <1>2, <1>7, <2>3
  <2>5. /\ SubSeq(payload, a, b) \in Seq(W)
        /\ Len(SubSeq(payload, a, b)) = IF a <= b THEN b - a + 1 ELSE 0
        /\ \A j \in 1..(b - a + 1) : SubSeq(payload, a, b)[j] = payload[a + j - 1]
    BY <2>4, SubSeqProperties
  <2>6. \A j \in 1..4 : a + j - 1 = 4 * (k - 1) + j
    BY <1>8, <2>1
  <2>7. hash(k) = SubSeq(payload, a, b)
    BY <2>1, <2>2
  <2> HIDE DEF hash
  <2> QED
    BY <2>3, <2>5, <2>6, <2>7
<1> HIDE DEF hash, size
<1>10. ASSUME NEW k \in 1..n PROVE hash(k) = leaves[k]
  <2>1. k \in 1..size /\ k \in Nat \ {0}
    BY <1>1, <1>8
  <2>2. leaves[k] \in Seq(W) /\ Len(leaves[k]) = 4
    BY <1>1
  <2>3. ASSUME NEW j \in 1..4 PROVE hash(k)[j] = leaves[k][j]
    <3>1. PICK i : i = 4 * (k - 1) + j
      OBVIOUS
    <3>2. i \in 1..(4 * n) /\ i \in 1..(FieldElements * 3)
      BY <1>1, <1>2, <3>1
    <3>3. payload[i] = ByteOf(leaves, i)
      BY <1>1, <1>3, <1>6, <3>2
    <3>4. ByteOf(leaves, i) = leaves[k][j]
      BY <2>1, <3>1, PlaceOfByte DEF ByteOf
    <3> QED
      BY <1>9, <2>1, <3>1, <3>3, <3>4
  <2>4. hash(k) \in Seq(W) /\ Len(hash(k)) = 4
    BY <1>9, <2>1
  <2>5. PICK s \in Seq(W) : s = hash(k)
    BY <2>4
  <2>6. PICK t \in Seq(W) : t = leaves[k]
    BY <2>2
  <2>7. Len(s) = Len(t) /\ \A j \in 1..Len(s) : s[j] = t[j]
    BY <2>2, <2>3, <2>4, <2>5, <2>6
  <2>8. s = t
    BY <2>7, SeqEqual
  <2> QED
    BY <2>5, <2>6, <2>8
<1>11. ASSUME NEW k \in 1..size, k > n PROVE hash(k) = ZeroHash
  <2>1. ASSUME NEW j \in 1..4 PROVE hash(k)[j] = 0
    <3>1. PICK i : i = 4 * (k - 1) + j
      OBVIOUS
    <3>2. i > 4 * n /\ i \in 1..(FieldElements * 3)
      BY <1>1, <1>2, <1>8, <1>11, <3>1
    <3>3. payload[i] = 0
      BY <1>6, <3>2
    <3> QED
      BY <1>9, <3>1, <3>3
  <2>2. hash(k) \in Seq(W) /\ Len(hash(k)) = 4
    BY <1>9
  <2>3. hash(k) = [j \in 1..4 |-> hash(k)[j]]
    BY <2>2
  <2> QED
    BY <2>1, <2>3 DEF ZeroHash, HashBytes
<1>12. ends = {k \in 1..size : k > n}
  <2>1. ASSUME NEW k \in 1..size, ~(k > n) PROVE hash(k) # ZeroHash
    <3>1. k \in 1..n
      BY <1>1, <1>8, <2>1
    <3> QED
      BY <1>10, <3>1 DEF n
  <2> QED
    BY <1>11, <2>1
<1>13. count = n
  <2>1. count = CountOf(ends, size)
    BY DEF CountOf
  <2> HIDE DEF ends, count
  <2> QED
    BY <1>1, <1>8, <1>12, <2>1, FirstEnd
<1> HIDE DEF count
<1>14. [k \in 1..count |-> hash(k)] = [k \in 1..n |-> leaves[k]]
  BY <1>10, <1>13
<1>15. leaves = [k \in 1..n |-> leaves[k]]
  BY <1>1 DEF n
<1> QED
  BY <1>5, <1>14, <1>15

-----------------------------------------------------------------------------
(***************************************************************************)
(* The client.  What it computes from a log is what the service put there. *)
(***************************************************************************)
\* The commitments of some proofs are digests, and none is the zero hash.
LEMMA CommitmentsAreDigests ==
  ASSUME NEW ps \in Seq(Proofs)
  PROVE  \E V : /\ AreDigests(Commitments(ps), V)
                /\ Len(Commitments(ps)) = Len(ps)
                /\ \A k \in 1..Len(ps) : Commitments(ps)[k] # ZeroHash
<1> DEFINE V == {p.program : p \in Proofs} \cup {p.inputs : p \in Proofs} \cup {0, 1, 2}
           com == Commitments(ps)
<1>1. Len(ps) \in Nat /\ DOMAIN ps = 1..Len(ps) /\ \A k \in 1..Len(ps) : ps[k] \in Proofs
  OBVIOUS
<1>2. ASSUME NEW p \in Proofs
      PROVE  Commitment(p) \in Seq(V) /\ Len(Commitment(p)) = 4 /\ Commitment(p) # ZeroHash
  <2>1. PICK id \in {1, 2} : Commitment(p) = <<p.program, p.inputs, 0, id>>
    BY DEF Commitment, HashVkAndPubInputs, HashImageIdAndPublicInputs, Keccak, Sp1Id, Risc0Id
  <2>2. p.program \in V /\ p.inputs \in V /\ 0 \in V /\ id \in V
    OBVIOUS
  <2> HIDE DEF V
  <2>3. <<p.program, p.inputs, 0, id>> \in Seq(V) /\ Len(<<p.program, p.inputs, 0, id>>) = 4
    BY <2>2
  <2>4. <<p.program, p.inputs, 0, id>>[4] = id /\ ZeroHash[4] = 0
    BY DEF ZeroHash, HashBytes
  <2> QED
    BY <2>1, <2>3, <2>4
<1>3. com = [k \in 1..Len(ps) |-> Commitment(ps[k])]
  BY <1>1 DEF Commitments
<1> HIDE DEF V, com
<1>4. /\ Len(com) = Len(ps) /\ com \in Seq(Seq(V))
      /\ \A k \in 1..Len(ps) : com[k] = Commitment(ps[k])
  BY <1>1, <1>2, <1>3
<1>5. AreDigests(com, V)
  BY <1>1, <1>2, <1>4 DEF AreDigests
<1>6. \A k \in 1..Len(ps) : com[k] # ZeroHash
  BY <1>1, <1>2, <1>4
<1> QED
  BY <1>4, <1>5, <1>6 DEF com

\* The SDK and the service commit to the same statement in the same way, and to
\* different ones in different ways.
LEMMA SameCommitment ==
  ASSUME NEW p \in Statements, NEW q, q.system \in {"SP1", "RISC0"}
  PROVE  SdkCommitment(p) = Commitment(q) <=> SameStatement(p, q)
<1>1. DOMAIN Systems = {"SP1", "RISC0"} /\ Systems["SP1"] = 1 /\ Systems["RISC0"] = 2
  BY DEF Systems
<1>2. p.system \in {"SP1", "RISC0"}
  BY <1>1 DEF Statements
<1>3. SdkCommitment(p) = <<p.program, p.inputs, 0, IF p.system = "SP1" THEN 1 ELSE 2>>
  BY <1>1, <1>2 DEF SdkCommitment, Keccak
<1>4. Commitment(q) = <<q.program, q.inputs, 0, IF q.system = "SP1" THEN 1 ELSE 2>>
  BY DEF Commitment, HashVkAndPubInputs, HashImageIdAndPublicInputs, Keccak, Sp1Id, Risc0Id
<1> QED
  BY <1>2, <1>3, <1>4 DEF SameStatement

\* The path to a commitment leads from it to the root.
LEMMA PathToHolds ==
  ASSUME NEW leaves, Len(leaves) \in Nat, DOMAIN leaves = 1..Len(leaves),
         NEW c, Contains(leaves, c)
  PROVE  RootFromPath(PathTo(leaves, c), c) = MerkleRoot(leaves)
<1> DEFINE First(i) == leaves[i] = c /\ \A j \in 1..(i - 1) : leaves[j] # c
           N == {i \in 1..Len(leaves) : leaves[i] = c}
           pos == CHOOSE i \in 1..Len(leaves) : First(i)
<1>1. N \in SUBSET Nat /\ N # {}
  BY DEF Contains
<1>2. PICK i \in N : \A m \in N : i <= m
  <2> HIDE DEF N
  <2> QED
    BY <1>1, LeastNatural
<1>3. i \in 1..Len(leaves) /\ First(i)
  <2>1. ASSUME NEW j \in 1..(i - 1) PROVE leaves[j] # c
    <3>1. j \in 1..Len(leaves) /\ ~(i <= j)
      BY <1>2
    <3> QED
      BY <1>2, <3>1
  <2> QED
    BY <1>2, <2>1
<1>4. PathTo(leaves, c) = MerklePath(leaves, pos)
  BY DEF PathTo
<1> HIDE DEF First
<1>5. pos \in 1..Len(leaves) /\ First(pos)
  BY <1>3
<1> HIDE DEF pos
<1>6. leaves[pos] = c
  BY <1>5 DEF First
<1>7. RootFromPath(MerklePath(leaves, pos), leaves[pos]) = MerkleRoot(leaves)
  BY <1>5, PathLeadsToRoot
<1> QED
  BY <1>4, <1>6, <1>7

\* A verify transaction built from proofs of one zkVM that fit the blob.
Built(t) ==
    \E ps \in Seq(Proofs), e \in {"SP1", "RISC0"} :
        /\ Len(ps) <= Limit
        /\ \A p \in Range(ps) : p.system = e
        /\ t.proofs = Range(ps)
        /\ t.blob = ConstructBlob(Commitments(ps))
        /\ t.root = MerkleRoot(Commitments(ps))

\* What the client concludes from the log of such a transaction.
LEMMA StatusOfLog ==
  ASSUME NEW log, Built(log), NEW p \in Statements
  PROVE  /\ AggregatedIn(p, log) => Status(log, p) = "verified"
         /\ ~AggregatedIn(p, log) => Status(log, p) = "absent"
<1>1. PICK ps \in Seq(Proofs), e \in {"SP1", "RISC0"} :
         /\ Len(ps) <= Limit
         /\ \A q \in Range(ps) : q.system = e
         /\ log.proofs = Range(ps)
         /\ log.blob = ConstructBlob(Commitments(ps))
         /\ log.root = MerkleRoot(Commitments(ps))
  BY DEF Built
<1> DEFINE leaves == Commitments(ps)
           c == SdkCommitment(p)
<1>2. Len(ps) \in Nat /\ DOMAIN ps = 1..Len(ps)
  OBVIOUS
<1>3. /\ DOMAIN leaves = 1..Len(ps)
      /\ \A k \in 1..Len(ps) : leaves[k] = Commitment(ps[k])
  BY <1>2 DEF Commitments
<1> HIDE DEF leaves, c
<1>4. Len(leaves) = Len(ps) /\ LeavesOf(log) = leaves
  <2>1. PICK V : /\ AreDigests(leaves, V)
                 /\ Len(leaves) = Len(ps)
                 /\ \A k \in 1..Len(ps) : leaves[k] # ZeroHash
    BY CommitmentsAreDigests DEF leaves
  <2>2. BlobFits(leaves)
    BY <1>1, <1>2, <2>1, LimitFits
  <2>3. DecodedBlob(ConstructBlob(leaves)) = leaves
    BY <2>1, <2>2, BlobRoundTrip
  <2> QED
    BY <1>1, <2>1, <2>3 DEF LeavesOf, leaves
<1>5. Contains(leaves, c) <=> AggregatedIn(p, log)
  <2>1. \A k \in 1..Len(ps) : leaves[k] = c <=> SameStatement(p, ps[k])
    <3> TAKE k \in 1..Len(ps)
    <3>1. ps[k].system \in {"SP1", "RISC0"}
      BY <1>1, <1>2 DEF Range
    <3> QED
      BY <1>3, <3>1, SameCommitment DEF c
  <2>2. Contains(leaves, c) <=> \E k \in 1..Len(ps) : leaves[k] = c
    BY <1>4 DEF Contains
  <2>3. AggregatedIn(p, log) <=> \E k \in 1..Len(ps) : SameStatement(p, ps[k])
    BY <1>1, <1>2 DEF AggregatedIn, Range
  <2> QED
    BY <2>1, <2>2, <2>3
<1>6. Contains(leaves, c) => RootFromPath(PathTo(leaves, c), c) = log.root
  BY <1>1, <1>2, <1>3, <1>4, PathToHolds DEF leaves
<1>7. Status(log, p) = IF ~Contains(leaves, c) THEN "absent"
                       ELSE IF RootFromPath(PathTo(leaves, c), c) = log.root THEN "verified"
                       ELSE "invalid"
  BY <1>4 DEF Status, c
<1> QED
  BY <1>5, <1>6, <1>7

\* What was sent or mined was built by a run, from the proofs it had collected.
BuiltInv ==
    /\ CollectedInv
    /\ \A t \in pool \cup events : Built(t)
    /\ pc = "send" => Built(tx)

\* The transaction a run builds.
LEMMA TransactionBuilt ==
  ASSUME CollectedInv, Builds
  PROVE  Built(tx')
<1>1. /\ proofs \in Seq(Proofs) /\ engine \in {"SP1", "RISC0"} /\ Len(proofs) <= Limit
      /\ \A p \in Range(proofs) : p.system = engine
  BY DEF CollectedInv, TypeInv, TypeOK, OfEngine
<1>2. AggregateProofs(engine, proofs) = MerkleRoot(Commitments(proofs))
  BY RootOfRun
<1>3. /\ tx'.proofs = Range(proofs)
      /\ tx'.blob = ConstructBlob(Commitments(proofs))
      /\ tx'.root = AggregateProofs(engine, proofs)
  BY DEF Builds, Transaction
<1> QED
  BY <1>1, <1>2, <1>3 DEF Built

\* Every step keeps it: only Send and SendFails add to the pool.
LEMMA NextBuilt == BuiltInv /\ [Next]_vars => BuiltInv'
<1> SUFFICES ASSUME BuiltInv, [Next]_vars PROVE BuiltInv'
  OBVIOUS
<1>1. CollectedInv /\ CollectedInv' /\ TypeInv
  BY NextCollected DEF BuiltInv, CollectedInv
<1>2. (\A t \in pool \cup events : Built(t)) /\ (pc = "send" => Built(tx))
  BY DEF BuiltInv
<1>3. \A t : Built(t)' <=> Built(t)
  BY DEF Built
<1>4. CASE /\ pool' \subseteq pool \cup events /\ events' \subseteq pool \cup events
           /\ pc' = "send" => pc = "send" /\ tx' = tx
  BY <1>1, <1>2, <1>4 DEF BuiltInv, Built
<1>5. CASE Builds
  <2>1. pool' = pool /\ events' = events
    BY <1>5 DEF Builds, chainVars
  <2> QED
    BY <1>1, <1>2, <1>5, <2>1, TransactionBuilt DEF BuiltInv, Built
<1>6. CASE Send \/ SendFails
  <2>1. pc = "send" /\ pc' # "send" /\ pool' \subseteq pool \cup {tx} /\ events' = events
    BY <1>6 DEF Send, SendFails, Exit
  <2> QED
    BY <1>1, <1>2, <2>1 DEF BuiltInv, Built
<1>7. CASE UNCHANGED vars
  BY <1>4, <1>7 DEF vars, chainVars
<1>8. CASE Next
  <2>1. CASE \/ \E n \in 0..Len(Batches) : NewBlock(n)
             \/ \E t \in pool : MineVerify(t) \/ RevertVerify(t)
    BY <1>4, <2>1 DEF NewBlock, MineVerify, RevertVerify
  <2>2. CASE Start \/ AddProofs \/ StopAtLimit \/ FetchDone \/ DownloadFails
    BY <1>4, <2>2 DEF Start, AddProofs, StopAtLimit, FetchDone, Fetched, DownloadFails, chainVars
  <2>3. CASE \E b \in 0..head : GetLogs(b)
    BY <1>4, <2>3 DEF GetLogs, chainVars
  <2>4. CASE GetReceipt \/ TruncateFile \/ WriteFile
    BY <1>4, <2>4 DEF GetReceipt, TruncateFile, WriteFile, Exit, chainVars
  <2>5. CASE RunEnds /\ ~SendFails
    <3>1. pc' = "off" /\ pool' = pool /\ events' = events
      BY <2>5 DEF RunEnds, GetLogsFails, AggregateFails, GetReceiptFails, Crash, FetchPanics, Ends, Exit,
                  Aggregate, chainVars
    <3> QED
      BY <1>4, <3>1
  <2> QED
    BY <1>1, <1>5, <1>6, <1>8, <2>1, <2>2, <2>3, <2>4, <2>5, NextCases
<1> QED
  BY <1>7, <1>8

\* And it holds at the start.
LEMMA InitBuilt == Init => BuiltInv
BY InitCollected DEF Init, BuiltInv

\* For any batches, limit and chunk size, and whatever fails, check_proof_verification
\* tells the truth: what it finds was aggregated, what it does not find was not, and
\* no blob of the service fails the check of its Merkle path.
THEOREM StatusAlwaysTrue == Spec => []StatusIsTrue
<1>1. ASSUME BuiltInv PROVE StatusIsTrue
  <2> SUFFICES ASSUME NEW p \in Statements, NEW lost \in {{}} \cup {{log} : log \in Logs}
               PROVE  /\ "invalid" \notin CheckProofVerification(p, lost)
                      /\ "verified" \in CheckProofVerification(p, lost)
                            <=> \E log \in Logs \ lost : AggregatedIn(p, log)
                      /\ "notFound" \in CheckProofVerification(p, lost)
                            => \A log \in Logs : ~AggregatedIn(p, log)
    BY DEF StatusIsTrue
  <2> DEFINE found == {Status(log, p) : log \in Logs \ lost} \ {"absent"}
  <2>1. \A log \in Logs : /\ AggregatedIn(p, log) => Status(log, p) = "verified"
                          /\ ~AggregatedIn(p, log) => Status(log, p) = "absent"
    BY <1>1, StatusOfLog DEF BuiltInv, Logs
  <2>2. found \subseteq {"verified"}
    BY <2>1
  <2>3. "verified" \in found <=> \E log \in Logs \ lost : AggregatedIn(p, log)
    BY <2>1
  <2>4. CheckProofVerification(p, lost) =
           found \cup (IF lost # {} THEN {"error"} ELSE IF found = {} THEN {"notFound"} ELSE {})
    BY DEF CheckProofVerification
  <2> HIDE DEF found
  <2> QED
    BY <2>2, <2>3, <2>4
<1> QED
  BY <1>1, InitBuilt, NextBuilt, PTL DEF Spec

\* The contract accepts the path that the client was given, in every reachable state.
THEOREM PathsAlwaysHold == Spec => []PathHoldsOnChain
<1>1. ASSUME NEW p \in Statements, NEW log \in Logs, Status(log, p) = "verified"
      PROVE  IsProofVerifiedOnChain(p, PathTo(LeavesOf(log), SdkCommitment(p)))
  <2> DEFINE path == PathTo(LeavesOf(log), SdkCommitment(p))
  <2>1. RootFromPath(path, SdkCommitment(p)) = log.root
    BY <1>1 DEF Status
  <2>2. SdkCommitment(p) = Keccak(ProvingSystemId(p), p.program, p.inputs)
    BY DEF SdkCommitment, ProvingSystemId
  <2>3. log.root \in AggregatedProofs
    BY DEF AggregatedProofs, Logs
  <2> HIDE DEF path
  <2>4. IsProofVerifiedOnChain(p, path)
    BY <2>1, <2>2, <2>3 DEF IsProofVerifiedOnChain, VerifyProofInclusion
  <2> QED
    BY <2>4 DEF path
<1>2. PathHoldsOnChain
  BY <1>1 DEF PathHoldsOnChain
<1> QED
  BY <1>2, PTL DEF Spec
=============================================================================
