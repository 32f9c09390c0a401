--------------------------- MODULE ConstFoldProofs ---------------------------
(***************************************************************************)
(* A folded block does what its commands do, for every block of every        *)
(* length, every time limit, and whatever was given up where.                *)
(***************************************************************************)
EXTENDS ConstFold, FiniteSetTheorems, SequenceTheorems, TLAPS

-----------------------------------------------------------------------------
(* Induction, over a set instead of a property.                              *)

LEMMA InitialSegment ==
    ASSUME NEW S \in SUBSET Nat, 0 \in S, \A n \in S : n + 1 \in S
    PROVE  \A n \in Nat : n \in S
  <1> SUFFICES ASSUME NEW n \in Nat, n \notin S  PROVE FALSE
    OBVIOUS
  <1> DEFINE Upto == {0..k : k \in Nat \ S}
  <1>1. Upto # {} /\ Upto \subseteq FiniteSubsetsOf(Nat)
    <2>1. ASSUME NEW k \in Nat  PROVE 0..k \in FiniteSubsetsOf(Nat)
      <3>1. IsFiniteSet(0..k)
        BY FS_Interval
      <3> QED
        BY <3>1 DEF FiniteSubsetsOf
    <2> QED
      BY <2>1
  <1>2. PICK X \in Upto : \A Y \in Upto : ~ (<<Y, X>> \in StrictSubsetOrdering(Nat))
    <2>1. IsWellFoundedOn(StrictSubsetOrdering(Nat), FiniteSubsetsOf(Nat))
      BY FS_StrictSubsetOrderingWellFounded
    <2> HIDE DEF Upto
    <2> QED
      BY <1>1, <2>1, WFMin
  <1>3. PICK m \in Nat \ S : X = 0..m
    BY <1>2
  <1>4. m - 1 \in Nat /\ m - 1 \in S
    <2>1. m # 0 /\ m - 1 \in Nat
      BY <1>3
    <2>2. ASSUME m - 1 \notin S  PROVE FALSE
      <3>1. 0..(m - 1) \in Upto /\ 0..(m - 1) \subseteq 0..m /\ 0..(m - 1) # 0..m
        BY <2>1, <2>2
      <3>2. <<0..(m - 1), X>> \in StrictSubsetOrdering(Nat)
        BY <3>1, <1>3 DEF StrictSubsetOrdering
      <3> QED
        BY <3>1, <3>2, <1>2
    <2> QED
      BY <2>1, <2>2
  <1>5. (m - 1) + 1 = m
    BY <1>3
  <1> QED
    BY <1>3, <1>4, <1>5

-----------------------------------------------------------------------------
(* A list of steps is run one after the other.                               *)

IsSteps(f, below, st, steps, n) ==
    f = [i \in 0..n |-> IF i = 0 THEN st ELSE RunStep(below, f[i - 1], steps[i])]

LEMMA StepsExist ==
    ASSUME NEW below, NEW st, NEW steps
    PROVE  \A n \in Nat : \E f : IsSteps(f, below, st, steps, n)
  <1> DEFINE S == {n \in Nat : \E f : IsSteps(f, below, st, steps, n)}
  <1>1. 0 \in S
    <2> DEFINE f == [i \in 0..0 |-> st]
    <2>1. IsSteps(f, below, st, steps, 0)
      BY DEF IsSteps
    <2> QED
      BY <2>1
  <1>2. ASSUME NEW n \in S  PROVE n + 1 \in S
    <2>1. PICK f : IsSteps(f, below, st, steps, n)
      OBVIOUS
    <2> DEFINE g == [i \in 0..(n + 1) |->
                        IF i = n + 1 THEN RunStep(below, f[n], steps[n + 1]) ELSE f[i]]
    <2>2. ASSUME NEW i \in 0..(n + 1)
          PROVE  g[i] = IF i = 0 THEN st ELSE RunStep(below, g[i - 1], steps[i])
      <3>1. CASE i = n + 1
        <4>1. i # 0 /\ i - 1 = n /\ n \in 0..(n + 1) /\ n # n + 1
          BY <3>1
        <4> QED
          BY <3>1, <4>1
      <3>2. CASE i # n + 1
        <4>1. i \in 0..n
          BY <3>2
        <4>2. f[i] = IF i = 0 THEN st ELSE RunStep(below, f[i - 1], steps[i])
          BY <2>1, <4>1 DEF IsSteps
        <4>3. i # 0 => i - 1 \in 0..(n + 1) /\ i - 1 # n + 1
          BY <4>1
        <4> QED
          BY <3>2, <4>2, <4>3
      <3> QED
        BY <3>1, <3>2
    <2>3. IsSteps(g, below, st, steps, n + 1)
      <3>1. g = [i \in 0..(n + 1) |-> g[i]]
        OBVIOUS
      <3> HIDE DEF g
      <3> QED
        BY <2>2, <3>1 DEF IsSteps
    <2> QED
      BY <2>3
  <1> HIDE DEF S
  <1>3. \A n \in Nat : n \in S
    BY <1>1, <1>2, InitialSegment DEF S
  <1> QED
    BY <1>3 DEF S

LEMMA StepsSame ==
    ASSUME NEW below, NEW st, NEW f, NEW g, NEW steps, NEW more, NEW n \in Nat, NEW m \in Nat, n <= m,
           \A i \in 1..n : more[i] = steps[i],
           IsSteps(f, below, st, steps, n), IsSteps(g, below, st, more, m)
    PROVE  \A i \in 0..n : g[i] = f[i]
  <1> DEFINE S == {i \in Nat : i <= n => g[i] = f[i]}
  <1>1. 0 \in S
    BY DEF IsSteps
  <1>2. ASSUME NEW i \in S  PROVE i + 1 \in S
    <2> SUFFICES ASSUME i + 1 <= n  PROVE g[i + 1] = f[i + 1]
      OBVIOUS
    <2>1. /\ i + 1 \in 0..n /\ i + 1 \in 0..m /\ i + 1 # 0 /\ (i + 1) - 1 = i /\ i + 1 \in 1..n
          /\ g[i] = f[i]
      OBVIOUS
    <2>2. /\ f[i + 1] = RunStep(below, f[i], steps[i + 1])
          /\ g[i + 1] = RunStep(below, g[i], more[i + 1])
      BY <2>1 DEF IsSteps
    <2> QED
      BY <2>1, <2>2
  <1> HIDE DEF S
  <1>3. \A i \in Nat : i \in S
    BY <1>1, <1>2, InitialSegment DEF S
  <1> QED
    BY <1>3 DEF S

\* The states that a list of steps goes through.
LEMMA StepsRun ==
    ASSUME NEW below, NEW st, NEW steps, Len(steps) \in Nat
    PROVE  \E f : IsSteps(f, below, st, steps, Len(steps)) /\ RunSteps(below, st, steps) = f[Len(steps)]
  <1> DEFINE f == CHOOSE h : IsSteps(h, below, st, steps, Len(steps))
  <1>1. IsSteps(f, below, st, steps, Len(steps))
    BY StepsExist
  <1>2. RunSteps(below, st, steps) = f[Len(steps)]
    BY DEF RunSteps, IsSteps
  <1> QED
    BY <1>1, <1>2

LEMMA NoSteps ==
    ASSUME NEW below, NEW st, NEW steps, Len(steps) = 0
    PROVE  RunSteps(below, st, steps) = st
  <1>1. PICK f : IsSteps(f, below, st, steps, 0) /\ RunSteps(below, st, steps) = f[0]
    BY StepsRun
  <1> QED
    BY <1>1 DEF IsSteps

LEMMA OneStepMore ==
    ASSUME NEW below, NEW st, NEW steps, NEW more, Len(steps) \in Nat, Len(more) = Len(steps) + 1,
           \A i \in 1..Len(steps) : more[i] = steps[i]
    PROVE  RunSteps(below, st, more)
             = RunStep(below, RunSteps(below, st, steps), more[Len(more)])
  <1> DEFINE n == Len(steps)
  <1>1. PICK f : IsSteps(f, below, st, steps, n) /\ RunSteps(below, st, steps) = f[n]
    BY StepsRun
  <1>2. PICK g : IsSteps(g, below, st, more, n + 1) /\ RunSteps(below, st, more) = g[n + 1]
    BY StepsRun
  <1>3. n \in Nat /\ n + 1 \in Nat /\ n <= n + 1
    OBVIOUS
  <1> HIDE DEF n
  <1>4. \A i \in 1..n : more[i] = steps[i]
    BY DEF n
  <1>5. \A i \in 0..n : g[i] = f[i]
    BY <1>1, <1>2, <1>3, <1>4, StepsSame
  <1>6. n + 1 \in 0..(n + 1) /\ n + 1 # 0 /\ (n + 1) - 1 = n /\ n \in 0..n
    BY <1>3
  <1>7. g[n + 1] = RunStep(below, g[n], more[n + 1])
    BY <1>2, <1>6 DEF IsSteps
  <1> QED
    BY <1>1, <1>2, <1>5, <1>6, <1>7 DEF n

\* Two blocks that stand alike do so after the same steps, and with the same value.
LEMMA StepAlike ==
    ASSUME NEW below, NEW r, NEW w, NEW s, Alike(r, w)
    PROVE  LET r1 == RunStep(below, r, s)
               w1 == RunStep(below, w, s)
           IN Alike(r1, w1) /\ r1.value = w1.value
  <1>1. CASE r.value = Raise
    BY <1>1 DEF Alike, RunStep
  <1>2. CASE r.value # Raise
    <2>1. w.value # Raise /\ r.vars = w.vars /\ r.calls = w.calls
      BY <1>2 DEF Alike
    <2>2. RunStep(below, r, s) = RunStep(below, w, s)
      BY <1>2, <2>1, Zenon DEF RunStep
    <2> QED
      BY <2>2 DEF Alike
  <1> QED
    BY <1>1, <1>2

LEMMA StepsAlike ==
    ASSUME NEW below, NEW r, NEW w, NEW steps, Len(steps) \in Nat, Alike(r, w)
    PROVE  /\ Alike(RunSteps(below, r, steps), RunSteps(below, w, steps))
           /\ Len(steps) # 0 =>
                 RunSteps(below, r, steps).value = RunSteps(below, w, steps).value
  <1> DEFINE n == Len(steps)
  <1>1. PICK f : IsSteps(f, below, r, steps, n) /\ RunSteps(below, r, steps) = f[n]
    BY StepsRun
  <1>2. PICK g : IsSteps(g, below, w, steps, n) /\ RunSteps(below, w, steps) = g[n]
    BY StepsRun
  <1> DEFINE S == {i \in Nat : i <= n => Alike(f[i], g[i]) /\ (i # 0 => f[i].value = g[i].value)}
  <1>3. 0 \in S
    <2>1. f[0] = r /\ g[0] = w
      BY <1>1, <1>2 DEF IsSteps
    <2> QED
      BY <2>1
  <1>4. ASSUME NEW i \in S  PROVE i + 1 \in S
    <2> SUFFICES ASSUME i + 1 <= n
                 PROVE  Alike(f[i + 1], g[i + 1]) /\ f[i + 1].value = g[i + 1].value
      OBVIOUS
    <2>1. i + 1 \in 0..n /\ i + 1 # 0 /\ (i + 1) - 1 = i /\ Alike(f[i], g[i])
      OBVIOUS
    <2>2. /\ f[i + 1] = RunStep(below, f[i], steps[i + 1])
          /\ g[i + 1] = RunStep(below, g[i], steps[i + 1])
      BY <1>1, <1>2, <2>1 DEF IsSteps
    <2> QED
      BY <2>1, <2>2, StepAlike
  <1> HIDE DEF S
  <1>5. \A i \in Nat : i \in S
    BY <1>3, <1>4, InitialSegment DEF S
  <1> QED
    BY <1>1, <1>2, <1>5 DEF S

\* Where a block stands after steps: nothing is unassigned, and no call is taken back.
IsFcn(f) == f = [n \in DOMAIN f |-> f[n]]
Nameless(f) == "" \notin DOMAIN f
GoesOn(from, to) ==
    /\ from.value = Raise => to = from
    /\ from.calls \in Nat => to.calls \in Nat /\ from.calls <= to.calls
    /\ IsFcn(from.vars) => IsFcn(to.vars)
    /\ Nameless(from.vars) => Nameless(to.vars)
    /\ DOMAIN from.vars \subseteq DOMAIN to.vars
    /\ \A n \in DOMAIN from.vars : to.vars[n] = from.vars[n]

LEMMA StepGoesOn ==
    ASSUME NEW below, NEW st, NEW s
    PROVE  GoesOn(st, RunStep(below, st, s))
  <1>1. CASE st.value = Raise
    <2>1. RunStep(below, st, s) = st
      BY <1>1 DEF RunStep
    <2> QED
      BY <2>1 DEF GoesOn
  <1>2. CASE st.value # Raise
    <2> DEFINE v == Outcome(s, Over(below, st.vars), st.vars, FALSE)
               vs == IF s.name = "" \/ v = Raise THEN st.vars ELSE With(st.vars, s.name, v)
               ca == st.calls + IF s.from = "call" THEN 1 ELSE 0
    <2>1. RunStep(below, st, s) = Stands(vs, v, ca)
      BY <1>2 DEF RunStep
    <2>2. s.name \in DOMAIN st.vars => v = Raise
      BY DEF Outcome
    <2> HIDE DEF v
    <2>3. /\ IsFcn(st.vars) => IsFcn(vs)
          /\ DOMAIN st.vars \subseteq DOMAIN vs /\ \A n \in DOMAIN st.vars : vs[n] = st.vars[n]
      BY <2>2 DEF IsFcn, With, Over
    <2>5. Nameless(st.vars) => Nameless(vs)
      BY Zenon DEF Nameless, With, Over
    <2>4. st.calls \in Nat => ca \in Nat /\ st.calls <= ca
      OBVIOUS
    <2> HIDE DEF vs, ca
    <2> QED
      BY <1>2, <2>1, <2>3, <2>4, <2>5 DEF GoesOn, Stands
  <1> QED
    BY <1>1, <1>2

LEMMA GoesOnOn ==
    ASSUME NEW a, NEW b, NEW c, GoesOn(a, b), GoesOn(b, c)
    PROVE  GoesOn(a, c)
  BY DEF GoesOn

LEMMA StepsGoOn ==
    ASSUME NEW below, NEW st, NEW S, NEW steps \in Seq(S), NEW k \in 0..Len(steps)
    PROVE  GoesOn(RunSteps(below, st, SubSeq(steps, 1, k)), RunSteps(below, st, steps))
  <1> DEFINE n == Len(steps)
             first == SubSeq(steps, 1, k)
  <1>1. /\ n \in Nat /\ k \in Nat /\ k <= n /\ Len(first) = k
        /\ \A i \in 1..k : steps[i] = first[i]
    OBVIOUS
  <1>2. PICK f : IsSteps(f, below, st, steps, n) /\ RunSteps(below, st, steps) = f[n]
    BY <1>1, StepsRun
  <1>3. PICK g : IsSteps(g, below, st, first, k) /\ RunSteps(below, st, first) = g[k]
    BY <1>1, StepsRun
  <1> HIDE DEF n, first
  <1>4. f[k] = g[k]
    <2>1. \A i \in 0..k : f[i] = g[i]
      BY <1>1, <1>2, <1>3, StepsSame
    <2> QED
      BY <1>1, <2>1
  <1> DEFINE T == {i \in Nat : k + i <= n => GoesOn(f[k], f[k + i])}
  <1>5. 0 \in T
    <2>1. GoesOn(f[k], f[k])
      BY DEF GoesOn
    <2> QED
      BY <1>1, <2>1
  <1>6. ASSUME NEW i \in T  PROVE i + 1 \in T
    <2> SUFFICES ASSUME k + (i + 1) <= n  PROVE GoesOn(f[k], f[k + (i + 1)])
      OBVIOUS
    <2>1. /\ k + i <= n /\ k + (i + 1) \in 0..n /\ k + (i + 1) # 0
          /\ (k + (i + 1)) - 1 = k + i
      BY <1>1
    <2>2. f[k + (i + 1)] = RunStep(below, f[k + i], steps[k + (i + 1)])
      BY <1>2, <2>1 DEF IsSteps
    <2>3. GoesOn(f[k], f[k + i])
      BY <2>1
    <2> QED
      BY <2>2, <2>3, StepGoesOn, GoesOnOn
  <1> HIDE DEF T
  <1>7. \A i \in Nat : i \in T
    BY <1>5, <1>6, InitialSegment DEF T
  <1>8. n - k \in T /\ k + (n - k) = n
    BY <1>1, <1>7
  <1>9. GoesOn(f[k], f[n])
    BY <1>1, <1>8 DEF T
  <1> QED
    BY <1>2, <1>3, <1>4, <1>9 DEF first

LEMMA StepsGoOnFrom ==
    ASSUME NEW below, NEW st, NEW S, NEW steps \in Seq(S)
    PROVE  GoesOn(st, RunSteps(below, st, steps))
  <1>1. Len(SubSeq(steps, 1, 0)) = 0 /\ 0 \in 0..Len(steps)
    OBVIOUS
  <1>2. RunSteps(below, st, SubSeq(steps, 1, 0)) = st
    BY <1>1, NoSteps
  <1> QED
    BY <1>1, <1>2, StepsGoOn

\* Steps assign what they name.
LEMMA StepsNames ==
    ASSUME NEW below, NEW st, NEW steps, Len(steps) \in Nat,
           NEW n \in DOMAIN RunSteps(below, st, steps).vars
    PROVE  n \in DOMAIN st.vars \/ \E j \in 1..Len(steps) : steps[j].name = n
  <1> DEFINE len == Len(steps)
  <1>1. PICK f : IsSteps(f, below, st, steps, len) /\ RunSteps(below, st, steps) = f[len]
    BY StepsRun
  <1> SUFFICES ASSUME \A j \in 1..len : steps[j].name # n, n \notin DOMAIN st.vars
               PROVE  FALSE
    OBVIOUS
  <1> DEFINE S == {i \in Nat : i <= len => n \notin DOMAIN f[i].vars}
  <1>2. 0 \in S
    BY <1>1 DEF IsSteps
  <1>3. ASSUME NEW i \in S  PROVE i + 1 \in S
    <2> SUFFICES ASSUME i + 1 <= len  PROVE n \notin DOMAIN f[i + 1].vars
      OBVIOUS
    <2>1. i + 1 \in 0..len /\ i + 1 \in 1..len /\ i + 1 # 0 /\ (i + 1) - 1 = i
      OBVIOUS
    <2>2. n \notin DOMAIN f[i].vars /\ steps[i + 1].name # n
      BY <2>1
    <2>3. f[i + 1] = RunStep(below, f[i], steps[i + 1])
      BY <1>1, <2>1 DEF IsSteps
    <2> HIDE DEF S
    <2>4. CASE f[i].value = Raise
      BY <2>2, <2>3, <2>4 DEF RunStep
    <2>5. CASE f[i].value # Raise
      <3> DEFINE s == steps[i + 1]
                 old == f[i].vars
                 v == Outcome(s, Over(below, old), old, FALSE)
                 vs == IF s.name = "" \/ v = Raise THEN old ELSE With(old, s.name, v)
                 ca == f[i].calls + IF s.from = "call" THEN 1 ELSE 0
      <3>1. f[i + 1] = Stands(vs, v, ca)
        BY <2>3, <2>5 DEF RunStep
      <3> HIDE DEF v, ca
      <3>2. n \notin DOMAIN vs
        BY <2>2 DEF With, Over
      <3> HIDE DEF vs
      <3> QED
        BY <3>1, <3>2 DEF Stands
    <2> QED
      BY <2>4, <2>5
  <1> HIDE DEF S
  <1>4. \A i \in Nat : i \in S
    BY <1>2, <1>3, InitialSegment DEF S
  <1>5. n \notin DOMAIN f[len].vars
    BY <1>4 DEF S
  <1> QED
    BY <1>1, <1>5

-----------------------------------------------------------------------------
(* So are the nodes of a block.                                              *)

IsBlock(f, below, block, n) ==
    f = [i \in 0..n |->
            IF i = 0 THEN Stands(NoVars, "null", 0) ELSE RunNode(below, f[i - 1], block[i])]

LEMMA BlocksExist ==
    ASSUME NEW below, NEW block
    PROVE  \A n \in Nat : \E f : IsBlock(f, below, block, n)
  <1> DEFINE S == {n \in Nat : \E f : IsBlock(f, below, block, n)}
  <1>1. 0 \in S
    <2> DEFINE f == [i \in 0..0 |-> Stands(NoVars, "null", 0)]
    <2>1. IsBlock(f, below, block, 0)
      BY DEF IsBlock
    <2> QED
      BY <2>1
  <1>2. ASSUME NEW n \in S  PROVE n + 1 \in S
    <2>1. PICK f : IsBlock(f, below, block, n)
      OBVIOUS
    <2> DEFINE g == [i \in 0..(n + 1) |->
                        IF i = n + 1 THEN RunNode(below, f[n], block[n + 1]) ELSE f[i]]
    <2>2. ASSUME NEW i \in 0..(n + 1)
          PROVE  g[i] = IF i = 0 THEN Stands(NoVars, "null", 0)
                        ELSE RunNode(below, g[i - 1], block[i])
      <3>1. CASE i = n + 1
        <4>1. i # 0 /\ i - 1 = n /\ n \in 0..(n + 1) /\ n # n + 1
          BY <3>1
        <4> QED
          BY <3>1, <4>1
      <3>2. CASE i # n + 1
        <4>1. i \in 0..n
          BY <3>2
        <4>2. f[i] = IF i = 0 THEN Stands(NoVars, "null", 0)
                     ELSE RunNode(below, f[i - 1], block[i])
          BY <2>1, <4>1 DEF IsBlock
        <4>3. i # 0 => i - 1 \in 0..(n + 1) /\ i - 1 # n + 1
          BY <4>1
        <4> QED
          BY <3>2, <4>2, <4>3
      <3> QED
        BY <3>1, <3>2
    <2>3. IsBlock(g, below, block, n + 1)
      <3>1. g = [i \in 0..(n + 1) |-> g[i]]
        OBVIOUS
      <3> HIDE DEF g
      <3> QED
        BY <2>2, <3>1 DEF IsBlock
    <2> QED
      BY <2>3
  <1> HIDE DEF S
  <1>3. \A n \in Nat : n \in S
    BY <1>1, <1>2, InitialSegment DEF S
  <1> QED
    BY <1>3 DEF S

LEMMA BlockRun ==
    ASSUME NEW below, NEW block, Len(block) \in Nat
    PROVE  \E f : IsBlock(f, below, block, Len(block)) /\ RunBlock(below, block) = f[Len(block)]
  <1> DEFINE f == CHOOSE h : IsBlock(h, below, block, Len(block))
  <1>1. IsBlock(f, below, block, Len(block))
    BY BlocksExist
  <1>2. RunBlock(below, block) = f[Len(block)]
    BY DEF RunBlock, IsBlock
  <1> QED
    BY <1>1, <1>2

LEMMA NoNodes ==
    ASSUME NEW below, NEW block, Len(block) = 0
    PROVE  RunBlock(below, block) = Stands(NoVars, "null", 0)
  <1>1. PICK f : IsBlock(f, below, block, 0) /\ RunBlock(below, block) = f[0]
    BY BlockRun
  <1> QED
    BY <1>1 DEF IsBlock

LEMMA OneNodeMore ==
    ASSUME NEW below, NEW block, NEW more, Len(block) \in Nat, Len(more) = Len(block) + 1,
           \A i \in 1..Len(block) : more[i] = block[i]
    PROVE  RunBlock(below, more) = RunNode(below, RunBlock(below, block), more[Len(more)])
  <1> DEFINE n == Len(block)
  <1>1. PICK f : IsBlock(f, below, block, n) /\ RunBlock(below, block) = f[n]
    BY BlockRun
  <1>2. PICK g : IsBlock(g, below, more, n + 1) /\ RunBlock(below, more) = g[n + 1]
    BY BlockRun
  <1>3. n \in Nat /\ n + 1 \in Nat
    OBVIOUS
  <1> HIDE DEF n
  <1>4. \A i \in 1..n : more[i] = block[i]
    BY DEF n
  <1> DEFINE S == {i \in Nat : i <= n => g[i] = f[i]}
  <1>5. 0 \in S
    BY <1>1, <1>2, <1>3 DEF IsBlock
  <1>6. ASSUME NEW i \in S  PROVE i + 1 \in S
    <2> SUFFICES ASSUME i + 1 <= n  PROVE g[i + 1] = f[i + 1]
      OBVIOUS
    <2>1. /\ i + 1 \in 0..n /\ i + 1 \in 0..(n + 1) /\ i + 1 # 0 /\ (i + 1) - 1 = i /\ i + 1 \in 1..n
          /\ g[i] = f[i]
      BY <1>3
    <2>2. /\ f[i + 1] = RunNode(below, f[i], block[i + 1])
          /\ g[i + 1] = RunNode(below, g[i], more[i + 1])
      BY <1>1, <1>2, <2>1 DEF IsBlock
    <2> QED
      BY <1>4, <2>1, <2>2
  <1> HIDE DEF S
  <1>7. \A i \in Nat : i \in S
    BY <1>5, <1>6, InitialSegment DEF S
  <1>8. g[n] = f[n]
    BY <1>3, <1>7 DEF S
  <1>9. n + 1 \in 0..(n + 1) /\ n + 1 # 0 /\ (n + 1) - 1 = n
    BY <1>3
  <1>10. g[n + 1] = RunNode(below, g[n], more[n + 1])
    BY <1>2, <1>9 DEF IsBlock
  <1> QED
    BY <1>1, <1>2, <1>8, <1>10 DEF n

\* A command that is kept runs as it would, and an assignment does if nothing stands in its way.
LEMMA KeptRuns ==
    ASSUME NEW below, NEW st, NEW S, NEW c \in Seq(S)
    PROVE  RunNode(below, st, Keep(c)) = RunSteps(below, st, c)
  <1>1. Keep(c).is = "code" /\ Keep(c).cmd = c
    BY DEF Keep
  <1>2. CASE st.value = Raise
    BY <1>2, StepsGoOnFrom DEF RunNode, GoesOn
  <1>3. CASE st.value # Raise
    BY <1>1, <1>3 DEF RunNode
  <1> QED
    BY <1>2, <1>3

LEMMA AssignedRuns ==
    ASSUME NEW below, NEW st, NEW n, NEW v
    PROVE  RunNode(below, st, Assign(n, v))
             = IF st.value = Raise THEN st
               ELSE IF n \in DOMAIN st.vars THEN Stands(st.vars, Raise, st.calls)
               ELSE Stands(With(st.vars, n, v), v, st.calls)
  <1>1. /\ Assign(n, v).is = "assign" /\ Assign(n, v).name = n /\ Assign(n, v).value = v
    BY DEF Assign
  <1> QED
    BY <1>1 DEF RunNode

LEMMA ValueRuns ==
    ASSUME NEW below, NEW st, NEW v
    PROVE  RunNode(below, st, Value(v))
             = IF st.value = Raise THEN st ELSE Stands(st.vars, v, st.calls)
  <1>1. Value(v).is = "value" /\ Value(v).value = v
    BY DEF Value
  <1> QED
    BY <1>1 DEF RunNode

-----------------------------------------------------------------------------
(* One step on the compiler's machine and at run time.  w is how the commands *)
(* before it end, top the variables there, kn those of them the new block has *)
(* by then, and st how the command stands after the steps so far.             *)

\* The command assigns a name again.
Clash(w, top, kn) == \E n \in DOMAIN top \ kn : n \in DOMAIN w.vars
Meets(st, w, top, kn) ==
    w.value # Raise =>
        /\ st.calls = w.calls
        /\ IF Clash(w, top, kn) THEN st.value = Raise
           ELSE st.value # Raise /\ st.vars = Over(w.vars, top)
Gives(st, w, top, kn, value) == w.value # Raise /\ ~Clash(w, top, kn) => st.value = value

LEMMA StandsAs ==
    ASSUME NEW variables, NEW v, NEW called
    PROVE  /\ Stands(variables, v, called).vars = variables
           /\ Stands(variables, v, called).value = v
           /\ Stands(variables, v, called).calls = called
  BY DEF Stands

LEMMA WithOver ==
    \A f, top, n, v : With(Over(f, top), n, v) = Over(f, With(top, n, v))
  BY DEF With, Over

\* What a step finds on the compiler's machine it finds at run time.
LEMMA TakenAlike ==
    ASSUME NEW from, NEW seen, NEW real,
           Taken(from, seen, TRUE) # Raise,
           from \in DOMAIN seen => from \in DOMAIN real /\ real[from] = seen[from]
    PROVE  from # "call" /\ Taken(from, real, FALSE) = Taken(from, seen, TRUE)
  <1>1. from # "call"
    BY Zenon DEF Taken, Const
  <1> QED
    BY <1>1, Zenon DEF Taken

\* The variables after a step.
Assigning(top, s, value) == IF s.name = "" THEN top ELSE With(top, s.name, value)

LEMMA StepFolded ==
    ASSUME NEW below, NEW w, NEW top, NEW kn, NEW st, NEW s, NEW seen, NEW value,
           w.calls \in Nat, IsFcn(w.vars), Nameless(w.vars), Nameless(top), kn \subseteq DOMAIN top,
           DOMAIN seen = DOMAIN Global \cup DOMAIN top, DOMAIN below = DOMAIN Global,
           \A n \in DOMAIN seen : seen[n] = IF n \in DOMAIN top THEN top[n] ELSE Global[n],
           w.value # Raise /\ s.from \in DOMAIN Global /\ s.from \notin DOMAIN top =>
               below[s.from] = Global[s.from] /\ s.from \notin DOMAIN w.vars,
           value = Outcome(s, seen, top, TRUE), value # Raise, Meets(st, w, top, kn)
    PROVE  /\ Meets(RunStep(below, st, s), w, Assigning(top, s, value), kn)
           /\ Gives(RunStep(below, st, s), w, Assigning(top, s, value), kn, value)
  <1> USE DEF Assigning
  <1> DEFINE next == IF s.name = "" THEN top ELSE With(top, s.name, value)
             now == RunStep(below, st, s)
  <1>1. /\ s.name \notin DOMAIN top /\ value = Taken(s.from, seen, TRUE)
    BY Zenon DEF Outcome
  <1>2. DOMAIN next = DOMAIN top \cup ({s.name} \ {""})
    BY Zenon DEF With, Over
  <1> SUFFICES ASSUME w.value # Raise
               PROVE  Meets(now, w, next, kn) /\ Gives(now, w, next, kn, value)
    BY Zenon DEF Meets, Gives
  <1>3. CASE Clash(w, top, kn)
    <2>1. st.value = Raise /\ st.calls = w.calls
      BY <1>3, Zenon DEF Meets
    <2>2. now = st
      BY <2>1, Zenon DEF RunStep
    <2>3. Clash(w, next, kn)
      BY <1>2, <1>3, Zenon DEF Clash
    <2> QED
      BY <2>1, <2>2, <2>3, Zenon DEF Meets, Gives
  <1>4. CASE ~Clash(w, top, kn)
    <2>1. st.value # Raise /\ st.vars = Over(w.vars, top) /\ st.calls = w.calls
      BY <1>4, Zenon DEF Meets
    <2>2. DOMAIN st.vars = DOMAIN w.vars \cup DOMAIN top
      BY <2>1, Zenon DEF Over
    <2> DEFINE real == Over(below, st.vars)
               v == Outcome(s, real, st.vars, FALSE)
    <2>3. s.from # "call" /\ Taken(s.from, real, FALSE) = value
      <3>1. s.from \in DOMAIN seen => s.from \in DOMAIN real /\ real[s.from] = seen[s.from]
        <4> SUFFICES ASSUME s.from \in DOMAIN seen
                     PROVE  s.from \in DOMAIN real /\ real[s.from] = seen[s.from]
          OBVIOUS
        <4>1. CASE s.from \in DOMAIN top
          <5>1. s.from \in DOMAIN st.vars /\ st.vars[s.from] = top[s.from]
            BY <2>1, <4>1, Zenon DEF Over
          <5> QED
            BY <4>1, <5>1, Zenon DEF Over
        <4>2. CASE s.from \notin DOMAIN top
          <5>1. /\ s.from \in DOMAIN below /\ s.from \notin DOMAIN st.vars
                /\ below[s.from] = Global[s.from]
            BY <2>2, <4>2, Zenon
          <5> QED
            BY <4>2, <5>1, Zenon DEF Over
        <4> QED
          BY <4>1, <4>2
      <3> HIDE DEF real
      <3> QED
        BY <1>1, <3>1, TakenAlike
    <2> DEFINE vs == IF s.name = "" \/ v = Raise THEN st.vars ELSE With(st.vars, s.name, v)
    <2>4. now = Stands(vs, v, st.calls + 0)
      BY <2>1, <2>3, Zenon DEF RunStep
    <2>5. now.vars = vs /\ now.value = v /\ now.calls = st.calls + 0
      <3> HIDE DEF now, vs, v
      <3> QED
        BY <2>4, StandsAs
    <2>8. st.calls + 0 = w.calls
      BY <2>1
    <2>6. CASE s.name \in DOMAIN w.vars
      <3>1. v = Raise
        BY <2>2, <2>6, Zenon DEF Outcome
      <3>2. Clash(w, next, kn)
        BY <1>1, <1>2, <2>6, Zenon DEF Clash, Nameless
      <3> HIDE DEF now, next, v, vs
      <3> QED
        BY <2>1, <2>5, <3>1, <3>2 DEF Meets, Gives
    <2>7. CASE s.name \notin DOMAIN w.vars
      <3>1. v = value
        BY <1>1, <2>2, <2>3, <2>7, Zenon DEF Outcome
      <3>2. ~Clash(w, next, kn)
        BY <1>2, <1>4, <2>7, Zenon DEF Clash
      <3>3. vs = Over(w.vars, next)
        <4> HIDE DEF v
        <4>1. CASE s.name = ""
          BY <2>1, <4>1, Zenon
        <4>2. CASE s.name # ""
          <5>1. v # Raise /\ vs = With(st.vars, s.name, v) /\ next = With(top, s.name, value)
            BY <3>1, <4>2, Zenon
          <5>2. With(st.vars, s.name, v) = With(Over(w.vars, top), s.name, value)
            BY <2>1, <3>1
          <5>3. \A x : With(Over(w.vars, top), s.name, x) = Over(w.vars, With(top, s.name, x))
            <6> HIDE DEF next, now, vs, real
            <6> QED
              BY WithOver
          <5> HIDE DEF vs, next
          <5> QED
            BY <5>1, <5>2, <5>3, Zenon
        <4> QED
          BY <4>1, <4>2
      <3> HIDE DEF now, next, v, vs
      <3>4. now.value # Raise /\ now.value = value /\ now.calls = w.calls
        BY <2>1, <2>5, <2>8, <3>1, Zenon
      <3> QED
        BY <2>5, <3>2, <3>3, <3>4, Zenon DEF Meets, Gives
    <2> QED
      BY <2>6, <2>7
  <1> QED
    BY <1>3, <1>4

-----------------------------------------------------------------------------
(* The ends of a command on the compiler's machine.                          *)

Fine(r) == r.calls \in Nat /\ IsFcn(r.vars) /\ Nameless(r.vars)

LEMMA FineOn ==
    ASSUME NEW a, NEW b, Fine(a), GoesOn(a, b)
    PROVE  Fine(b)
  BY DEF Fine, GoesOn

LEMMA LongerBy ==
    ASSUME NEW S, NEW s \in Seq(S), NEW x
    PROVE  /\ Append(s, x) \in Seq(S \cup {x}) /\ Len(Append(s, x)) = Len(s) + 1 /\ Len(s) \in Nat
           /\ \A i \in 1..Len(s) : Append(s, x)[i] = s[i]
           /\ Append(s, x)[Len(s) + 1] = x
  <1>1. s \in Seq(S \cup {x})
    OBVIOUS
  <1> QED
    BY <1>1

LEMMA RunAppended ==
    ASSUME NEW below, NEW S, NEW block \in Seq(S), NEW n
    PROVE  RunBlock(below, Append(block, n)) = RunNode(below, RunBlock(below, block), n)
  <1> DEFINE more == Append(block, n)
  <1>1. /\ Len(block) \in Nat /\ Len(more) = Len(block) + 1 /\ more[Len(more)] = n
        /\ \A i \in 1..Len(block) : more[i] = block[i]
    BY LongerBy
  <1> HIDE DEF more
  <1>2. RunBlock(below, more) = RunNode(below, RunBlock(below, block), more[Len(more)])
    BY <1>1, OneNodeMore
  <1> QED
    BY <1>1, <1>2 DEF more

\* The block that has a command of its own kept, and the one that was written, go on alike
\* if they were alike; one that has raised has raised, and calls no more.
Behind(r, w, top, kn) ==
    \/ r.value = Raise /\ r.calls <= w.calls
    \/ Alike(r, w) /\ (r.value # Raise => \E n \in DOMAIN top \ kn : n \in DOMAIN r.vars)

\* A block that ends gives the value, unless it raises.
GivesOnly(r, v) == r.value = Raise \/ r.value = v

LEMMA BehindGoesOn ==
    ASSUME NEW below, NEW r, NEW w, NEW top, NEW kn, NEW S, NEW c \in Seq(S), c # <<>>,
           Fine(r), Fine(w), Behind(r, w, top, kn)
    PROVE  LET r1 == RunSteps(below, r, c)
               w1 == RunSteps(below, w, c)
           IN Behind(r1, w1, top, kn) /\ GivesOnly(r1, w1.value)
  <1> DEFINE r1 == RunSteps(below, r, c)
             w1 == RunSteps(below, w, c)
  <1>1. GoesOn(r, r1) /\ GoesOn(w, w1) /\ Len(c) \in Nat /\ Len(c) # 0
    BY StepsGoOnFrom
  <1>2. CASE r.value = Raise /\ r.calls <= w.calls
    <2> HIDE DEF r1, w1
    <2>1. r1 = r /\ w.calls <= w1.calls /\ w1.calls \in Nat /\ r.calls \in Nat /\ w.calls \in Nat
      BY <1>1, <1>2 DEF GoesOn, Fine
    <2> QED
      BY <1>2, <2>1 DEF Behind, GivesOnly, r1, w1
  <1>3. CASE Alike(r, w) /\ (r.value # Raise => \E n \in DOMAIN top \ kn : n \in DOMAIN r.vars)
    <2>1. Alike(r1, w1) /\ r1.value = w1.value
      BY <1>1, <1>3, StepsAlike
    <2> HIDE DEF r1, w1
    <2>2. r1.value # Raise => \E n \in DOMAIN top \ kn : n \in DOMAIN r1.vars
      BY <1>1, <1>3 DEF GoesOn
    <2> QED
      BY <2>1, <2>2 DEF Behind, GivesOnly, r1, w1
  <1> QED
    BY <1>2, <1>3 DEF Behind

\* What is put in the block instead of a command: r is how the block ends before, q with the
\* assignments of D, whose values are those of top.
Puts(q, r, D, top) ==
    /\ q.calls = r.calls
    /\ IF r.value = Raise \/ \E n \in D : n \in DOMAIN r.vars THEN q.value = Raise
       ELSE q.value # Raise /\ q.vars = Over(r.vars, [n \in D |-> top[n]])
    /\ Fine(q)

LEMMA PutsOne ==
    ASSUME NEW below, NEW q, NEW r, NEW D, NEW top, NEW n, n \notin D, n \in Names,
           top[n] # Raise, Puts(q, r, D, top)
    PROVE  LET p == RunNode(below, q, Assign(n, top[n]))
           IN Puts(p, r, D \cup {n}, top) /\ GivesOnly(p, top[n])
  <1> DEFINE p == RunNode(below, q, Assign(n, top[n]))
             E == D \cup {n}
             both == With(q.vars, n, top[n])
  <1>1. CASE q.value = Raise
    <2>1. p = q
      BY <1>1, AssignedRuns
    <2>2. r.value = Raise \/ \E m \in E : m \in DOMAIN r.vars
      BY <1>1, Zenon DEF Puts
    <2> HIDE DEF p, E
    <2> QED
      BY <1>1, <2>1, <2>2, Zenon DEF Puts, GivesOnly, p, E
  <1>2. CASE q.value # Raise
    <2>1. /\ r.value # Raise /\ \A m \in D : m \notin DOMAIN r.vars
          /\ q.vars = Over(r.vars, [m \in D |-> top[m]])
      BY <1>2, Zenon DEF Puts
    <2>2. n \in DOMAIN q.vars <=> n \in DOMAIN r.vars
      BY <2>1, Zenon DEF Over
    <2>3. CASE n \in DOMAIN r.vars
      <3>1. p = Stands(q.vars, Raise, q.calls)
        BY <1>2, <2>2, <2>3, AssignedRuns
      <3>2. \E m \in E : m \in DOMAIN r.vars
        BY <2>3, Zenon
      <3>3. p.value = Raise /\ p.calls = q.calls /\ p.vars = q.vars
        <4> HIDE DEF p
        <4> QED
          BY <3>1, StandsAs
      <3> HIDE DEF p, E
      <3> QED
        BY <3>2, <3>3, Zenon DEF Puts, GivesOnly, Fine, p, E
    <2>4. CASE n \notin DOMAIN r.vars
      <3>1. p = Stands(both, top[n], q.calls)
        BY <1>2, <2>2, <2>4, AssignedRuns
      <3>2. p.value = top[n] /\ p.calls = q.calls /\ p.vars = both
        <4> HIDE DEF p, both
        <4> QED
          BY <3>1, StandsAs
      <3>3. both = Over(r.vars, [m \in E |-> top[m]])
        <4>1. With(Over(r.vars, [m \in D |-> top[m]]), n, top[n])
                = Over(r.vars, With([m \in D |-> top[m]], n, top[n]))
          BY WithOver
        <4>2. With([m \in D |-> top[m]], n, top[n]) = [m \in E |-> top[m]]
          BY DEF With, Over
        <4> QED
          BY <2>1, <4>1, <4>2, Zenon
      <3>4. \A m \in E : m \notin DOMAIN r.vars
        BY <2>1, <2>4, Zenon
      <3>5. IsFcn(both) /\ (Nameless(q.vars) => Nameless(both))
        <4>1. IsFcn(both)
          BY DEF IsFcn, With, Over
        <4>2. Nameless(q.vars) => Nameless(both)
          BY Zenon DEF Nameless, With, Over, Names
        <4> QED
          BY <4>1, <4>2
      <3> HIDE DEF p, E, both
      <3> QED
        BY <2>1, <3>2, <3>3, <3>4, <3>5, Zenon DEF Puts, GivesOnly, Fine, p, E
    <2> QED
      BY <2>3, <2>4
  <1> QED
    BY <1>1, <1>2

\* The assignments that are put after a block, up to those of D.
PutAfter(below, block, new, D, top) ==
    LET q == RunBlock(below, block \o new)
    IN /\ Puts(q, RunBlock(below, block), D, top)
       /\ D # {} => Len(new) # 0 /\ GivesOnly(q, new[Len(new)].value)

LEMMA PutsNone ==
    ASSUME NEW below, NEW S, NEW block \in Seq(S), NEW top, Fine(RunBlock(below, block))
    PROVE  PutAfter(below, block, <<>>, {}, top)
  <1> DEFINE r == RunBlock(below, block)
  <1>1. block \o <<>> = block
    OBVIOUS
  <1>2. IsFcn(r.vars) => r.vars = Over(r.vars, [n \in {} |-> top[n]])
    BY DEF IsFcn, Over
  <1> HIDE DEF r
  <1>3. Puts(r, r, {}, top)
    BY <1>2 DEF Puts, Fine, r
  <1> QED
    BY <1>1, <1>3, Zenon DEF PutAfter, r

Put(n, N, top) == IF n \in N THEN <<Assign(n, top[n])>> ELSE <<>>

LEMMA PutsNext ==
    ASSUME NEW below, NEW S, NEW block \in Seq(S), NEW T, NEW old \in Seq(T), NEW D, NEW top,
           NEW N, NEW n \in Names, n \notin D, n \in N => top[n] # Raise,
           PutAfter(below, block, old, D, top)
    PROVE  /\ old \o Put(n, N, top) \in Seq(T \cup {Assign(n, top[n])})
           /\ PutAfter(below, block, old \o Put(n, N, top), D \cup (N \cap {n}), top)
  <1> DEFINE x == Assign(n, top[n])
             new == old \o Put(n, N, top)
             q == RunBlock(below, block \o old)
             r == RunBlock(below, block)
             p == RunBlock(below, block \o new)
  <1>1. CASE n \notin N
    <2>1. new = old /\ old \in Seq(T \cup {x})
      BY <1>1 DEF Put
    <2>2. D \cup (N \cap {n}) = D
      BY <1>1
    <2> QED
      BY <2>1, <2>2, Zenon
  <1>2. CASE n \in N
    <2>1. /\ new \in Seq(T \cup {x}) /\ Len(new) = Len(old) + 1 /\ Len(new) # 0
          /\ new[Len(new)] = x
      <3> HIDE DEF x
      <3>1. new = old \o <<x>>
        BY <1>2 DEF Put, x
      <3>2. <<x>> \in Seq(T \cup {x}) /\ old \in Seq(T \cup {x})
        OBVIOUS
      <3> HIDE DEF new
      <3> QED
        BY <3>1, <3>2
    <2>2. p = RunNode(below, q, x)
      <3> DEFINE b0 == block \o old
                 b1 == block \o new
      <3> HIDE DEF x
      <3>1. new = old \o <<x>>
        BY <1>2 DEF Put, x
      <3>2. /\ Len(b0) \in Nat /\ Len(b1) = Len(b0) + 1 /\ b1[Len(b1)] = x
            /\ \A i \in 1..Len(b0) : b1[i] = b0[i]
        <4> DEFINE U == S \cup T \cup {x}
        <4>1. block \in Seq(U) /\ old \in Seq(U) /\ <<x>> \in Seq(U)
          OBVIOUS
        <4> HIDE DEF new, U
        <4> QED
          BY <3>1, <4>1
      <3> HIDE DEF b0, b1, new
      <3>3. RunBlock(below, b1) = RunNode(below, RunBlock(below, b0), b1[Len(b1)])
        BY <3>2, OneNodeMore
      <3> QED
        BY <3>2, <3>3, Zenon DEF b0, b1
    <2>3. Puts(q, r, D, top)
      BY Zenon DEF PutAfter
    <2>4. Puts(p, r, D \cup {n}, top) /\ GivesOnly(p, top[n])
      <3> HIDE DEF q, r, p
      <3>1. top[n] # Raise
        BY <1>2
      <3>2. LET o == RunNode(below, q, Assign(n, top[n]))
            IN Puts(o, r, D \cup {n}, top) /\ GivesOnly(o, top[n])
        BY <2>3, <3>1, PutsOne
      <3> QED
        BY <2>2, <3>2, Zenon
    <2>5. x.value = top[n] /\ D \cup (N \cap {n}) = D \cup {n}
      BY <1>2 DEF Assign
    <2> HIDE DEF x, new, q, r
    <2>6. Len(new) # 0 /\ GivesOnly(p, new[Len(new)].value)
      BY <2>1, <2>4, <2>5, Zenon
    <2> DEFINE E == D \cup (N \cap {n})
    <2>7. Puts(p, r, E, top)
      BY <2>4, <2>5, Zenon
    <2> HIDE DEF E
    <2>8. PutAfter(below, block, new, E, top)
      BY <2>6, <2>7, Zenon DEF PutAfter, r
    <2> QED
      BY <2>1, <2>8 DEF E, new, x
  <1> QED
    BY <1>1, <1>2

\* The assignments of a command that is folded.
LEMMA AssignedPut ==
    ASSUME NEW below, NEW S, NEW block \in Seq(S), NEW top, Fine(RunBlock(below, block)),
           top = Last(scopes), NewVars \subseteq Names, \A n \in NewVars : top[n] # Raise
    PROVE  PutAfter(below, block, Assigned, NewVars, top) /\ \E T : Assigned \in Seq(T)
  <1> DEFINE x(n) == Assign(n, top[n])
             new(n) == Put(n, NewVars, top)
             empty == <<>>
             none == {}
             a == empty \o new("a")
             ab == a \o new("b")
             abg == ab \o new("g")
             A == none \cup (NewVars \cap {"a"})
             AB == A \cup (NewVars \cap {"b"})
             ABG == AB \cup (NewVars \cap {"g"})
             TA == none \cup {x("a")}
             TAB == TA \cup {x("b")}
             TABG == TAB \cup {x("g")}
  <1>1. /\ "a" \in Names /\ "b" \in Names /\ "g" \in Names
        /\ "a" \notin none /\ "b" \notin A /\ "g" \notin AB /\ ABG = NewVars
    BY DEF Names, none
  <1>2. \A n \in Names : n \in NewVars => top[n] # Raise
    OBVIOUS
  <1> HIDE DEF NewVars
  <1>3. PutAfter(below, block, empty, none, top) /\ empty \in Seq(none)
    BY PutsNone
  <1> HIDE DEF empty, none
  <1>4. a \in Seq(TA) /\ PutAfter(below, block, a, A, top)
    BY <1>1, <1>2, <1>3, PutsNext
  <1> HIDE DEF a, A, TA
  <1>5. ab \in Seq(TAB) /\ PutAfter(below, block, ab, AB, top)
    BY <1>1, <1>2, <1>4, PutsNext
  <1> HIDE DEF ab, AB, TAB
  <1>6. abg \in Seq(TABG) /\ PutAfter(below, block, abg, ABG, top)
    BY <1>1, <1>2, <1>5, PutsNext
  <1>7. abg = Assigned
    <2>1. AssignNew("a") = new("a") /\ AssignNew("b") = new("b") /\ AssignNew("g") = new("g")
      BY Zenon DEF AssignNew, Put
    <2>2. a = new("a")
      BY DEF a, empty, Put
    <2> HIDE DEF new
    <2> QED
      BY <2>1, <2>2, Zenon DEF Assigned, ab
  <1> HIDE DEF abg, ABG, TABG
  <1> QED
    BY <1>1, <1>6, <1>7, Zenon

-----------------------------------------------------------------------------
(* The invariant: how the new block ends, and how the commands do that are    *)
(* compiled.  It says nothing once a command has run on top of one given up,  *)
(* or has seen a global that means something else at run time.                *)

Block(n) == [i \in 1..n |-> Keep(cmds[i])]
\* The commands that are compiled, and the block that the compiler has made of them.
WrittenTo(n) == RunBlock(outer, Block(n))
W == WrittenTo(IF phase = "run" THEN at - 1 ELSE at)
V == scopes[1]
InCode(n) ==
    \E i \in DOMAIN nodes :
        nodes[i].is = "code" /\ \E j \in DOMAIN nodes[i].cmd : nodes[i].cmd[j].name = n

Steps == [name : Names \cup {""}, from : STRING]
Frame ==
    [cmd : Nat, steps : Seq(Steps), began : BOOLEAN, call : BOOLEAN, values : Nat, scopes : Nat]

Base ==
    /\ cmds \in Seq(Commands) /\ at \in 0..Len(cmds) /\ (phase = "run" => at > 0)
    /\ DOMAIN outer = DOMAIN Global /\ err \in BOOLEAN
    /\ phase \in {"compile", "run", "done"} /\ (phase = "done" => at = Len(cmds))
    /\ result = <<>> \/ (result = <<result[1]>> /\ result[1] # Raise)
    /\ \E S : nodes \in Seq(S)
    /\ Fine(New) /\ Fine(W)

\* The command that runs has K steps behind it.
K == Len(cmds[at]) - Len(frames[1].steps)
OneValue == calc = <<calc[1]>> /\ calc[1] # Raise
OnFrame ==
    /\ K \in 0..Len(cmds[at]) /\ ~err
    /\ frames = <<frames[1]>> /\ frames[1] \in Frame
    /\ frames[1].cmd = at /\ (frames[1].began <=> K > 0) /\ ~frames[1].call
    /\ frames[1].values = 0 /\ frames[1].scopes = 1
    /\ \A i \in 1..Len(frames[1].steps) : frames[1].steps[i] = cmds[at][K + i]
    /\ IF K = 0 THEN calc = <<>> ELSE OneValue
Shape ==
    /\ scopes = <<V>> \/ (phase # "run" /\ frames # <<>> /\ scopes = Append(<<V>>, NoVars))
    /\ known \subseteq DOMAIN V /\ DOMAIN V \subseteq Names /\ \A n \in DOMAIN V : V[n] # Raise
    /\ phase = "run" => result = <<>>
    /\ phase = "run" /\ frames # <<>> => OnFrame
    /\ phase = "run" /\ frames = <<>> /\ ~err => OneValue

\* How the command stands at run time after k steps.
After(k) == RunSteps(outer, W, SubSeq(cmds[at], 1, k))
KnownBe ==
    W.value # Raise =>
        /\ \A n \in known : n \in DOMAIN W.vars /\ W.vars[n] = V[n]
        /\ \A n \in DOMAIN W.vars : n \in known \/ InCode(n)
RunBe ==
    IF frames # <<>> THEN Meets(After(K), W, V, known) /\ (K > 0 => Gives(After(K), W, V, known, calc[1]))
    ELSE IF err THEN \E k \in 0..Len(cmds[at]) : Meets(After(k), W, V, known)
    ELSE /\ Meets(After(Len(cmds[at])), W, V, known)
         /\ Gives(After(Len(cmds[at])), W, V, known, calc[1])
KeptBe ==
    /\ Alike(New, W)
    /\ phase = "run" \/ frames = <<>> => KnownBe
    /\ phase = "compile" /\ frames = <<>> => DOMAIN V = known
    /\ phase = "run" => RunBe
LeftBe == Behind(New, W, V, known)
ValueBe ==
    /\ phase = "compile" =>
          IF result = <<>> THEN GivesOnly(New, W.value) ELSE New.value = Raise \/ W.value = result[1]
    /\ phase = "done" => GivesOnly(New, W.value)

Clean == odd \cap {"mixed", "shadowed"} = {}
Good ==
    /\ Base /\ Shape
    /\ IF "left" \in odd THEN LeftBe ELSE KeptBe
    /\ odd \cap {"stale", "lost"} = {} => ValueBe
FoldInv == Clean => Good

LEMMA CommandsAre ==
    ASSUME Base, NEW i \in 1..Len(cmds)
    PROVE  cmds[i] \in Seq(Steps) /\ cmds[i] # <<>> /\ Len(cmds[i]) \in Nat \ {0}
  <1>1. cmds[i] \in Commands
    BY DEF Base
  <1>2. Commands \subseteq Seq(Steps) \ {<<>>}
    BY ConstFoldAssumption DEF Steps
  <1> HIDE DEF Steps
  <1> QED
    BY <1>1, <1>2

LEMMA OneWritten ==
    ASSUME Base, NEW n \in Nat, n < Len(cmds)
    PROVE  WrittenTo(n + 1) = RunSteps(outer, WrittenTo(n), cmds[n + 1])
  <1> DEFINE block == Block(n)
             more == Block(n + 1)
             c == cmds[n + 1]
  <1>1. n + 1 \in 1..Len(cmds)
    BY DEF Base
  <1>2. c \in Seq(Steps)
    BY <1>1, CommandsAre
  <1>3. /\ Len(block) \in Nat /\ Len(more) = Len(block) + 1 /\ more[Len(more)] = Keep(c)
        /\ \A i \in 1..Len(block) : more[i] = block[i]
    BY DEF Block
  <1> HIDE DEF block, more, c
  <1>4. RunBlock(outer, more) = RunNode(outer, RunBlock(outer, block), Keep(c))
    BY <1>3, OneNodeMore
  <1>5. RunNode(outer, RunBlock(outer, block), Keep(c)) = RunSteps(outer, RunBlock(outer, block), c)
    BY <1>2, KeptRuns
  <1> QED
    BY <1>4, <1>5, Zenon DEF WrittenTo, block, more, c

LEMMA WrittenThen ==
    ASSUME UNCHANGED <<cmds, outer>>
    PROVE  W' = WrittenTo(IF phase' = "run" THEN at' - 1 ELSE at')
  BY DEF W, WrittenTo, Block

LEMMA CodeKept ==
    ASSUME Base, NEW c \in Seq(Steps), nodes' = Kept(c), outer' = outer
    PROVE  /\ New' = RunSteps(outer, New, c)
           /\ (\E S : nodes \in Seq(S))'
           /\ \A n : InCode(n) => InCode(n)'
           /\ \A j \in 1..Len(c) : InCode(c[j].name)'
  <1> DEFINE k == Keep(c)
  <1>1. PICK S : nodes \in Seq(S)
    BY DEF Base
  <1>2. nodes' = Append(nodes, k)
    BY DEF Kept
  <1>3. k.is = "code" /\ k.cmd = c
    BY DEF Keep
  <1>4. RunNode(outer, New, k) = RunSteps(outer, New, c)
    BY KeptRuns
  <1> HIDE DEF k
  <1>5. RunBlock(outer, Append(nodes, k)) = RunNode(outer, RunBlock(outer, nodes), k)
    BY <1>1, RunAppended
  <1>6. New' = RunSteps(outer, New, c)
    BY <1>2, <1>4, <1>5, Zenon DEF New
  <1>7. /\ nodes' \in Seq(S \cup {k}) /\ DOMAIN nodes = 1..Len(nodes)
        /\ DOMAIN nodes' = 1..(Len(nodes) + 1) /\ Len(nodes) \in Nat
        /\ \A i \in 1..Len(nodes) : nodes'[i] = nodes[i]
        /\ nodes'[Len(nodes) + 1] = k
    BY <1>1, <1>2, LongerBy
  <1>8. DOMAIN nodes \subseteq DOMAIN nodes' /\ Len(nodes) + 1 \in DOMAIN nodes'
    BY <1>7
  <1>9. \A n : InCode(n) => InCode(n)'
    BY <1>7, <1>8, Zenon DEF InCode
  <1>10. ASSUME NEW j \in 1..Len(c)  PROVE InCode(c[j].name)'
    <2>1. j \in DOMAIN c
      OBVIOUS
    <2> QED
      BY <1>3, <1>7, <1>8, <2>1, Zenon DEF InCode
  <1> QED
    BY <1>6, <1>7, <1>9, <1>10

\* A command is kept: the block of the compiler and the commands end alike, or the block has
\* raised, and the names are known or are in the code.
LEMMA StillAlike ==
    ASSUME Base, Alike(New, W), NEW i \in 1..Len(cmds), nodes' = Kept(cmds[i]), outer' = outer,
           W' = RunSteps(outer, W, cmds[i])
    PROVE  Alike(New, W)' /\ New.value' = W.value'
  <1>1. New' = RunSteps(outer, New, cmds[i]) /\ Len(cmds[i]) \in Nat /\ Len(cmds[i]) # 0
    BY CommandsAre, CodeKept
  <1>2. Alike(New', W') /\ New'.value = W'.value
    BY <1>1, StepsAlike
  <1> QED
    BY <1>2

LEMMA StillBehind ==
    ASSUME Base, Behind(New, W, V, known), NEW i \in 1..Len(cmds), nodes' = Kept(cmds[i]),
           outer' = outer, W' = RunSteps(outer, W, cmds[i])
    PROVE  Behind(New', W', V, known) /\ GivesOnly(New', W'.value)
  <1>1. New' = RunSteps(outer, New, cmds[i]) /\ cmds[i] \in Seq(Steps) /\ cmds[i] # <<>>
    BY CommandsAre, CodeKept
  <1>2. Fine(New) /\ Fine(W)
    BY DEF Base
  <1> QED
    BY <1>1, <1>2, BehindGoesOn

LEMMA StillKnown ==
    ASSUME Base, KnownBe, NEW i \in 1..Len(cmds), nodes' = Kept(cmds[i]), outer' = outer,
           V' = V, known' = known, W' = RunSteps(outer, W, cmds[i])
    PROVE  KnownBe'
  <1> PICK c : c = cmds[i]
    OBVIOUS
  <1>1. c \in Seq(Steps) /\ Len(c) \in Nat
    BY CommandsAre
  <1>2. GoesOn(W, W')
    BY <1>1, StepsGoOnFrom
  <1>3. \A n : InCode(n) => InCode(n)'
    BY <1>1, CodeKept
  <1>4. \A j \in 1..Len(c) : InCode(c[j].name)'
    BY <1>1, CodeKept
  <1> SUFFICES ASSUME W'.value # Raise
               PROVE  /\ \A n \in known : n \in DOMAIN W'.vars /\ W'.vars[n] = V[n]
                      /\ \A n \in DOMAIN W'.vars : n \in known \/ InCode(n)'
    BY DEF KnownBe
  <1>5. W.value # Raise
    BY <1>2 DEF GoesOn
  <1>6. \A n \in known : n \in DOMAIN W'.vars /\ W'.vars[n] = V[n]
    BY <1>2, <1>5 DEF GoesOn, KnownBe
  <1>7. ASSUME NEW n \in DOMAIN W'.vars  PROVE n \in known \/ InCode(n)'
    <2>1. n \in DOMAIN W.vars \/ \E j \in 1..Len(c) : c[j].name = n
      BY <1>1, StepsNames
    <2> QED
      BY <1>3, <1>4, <1>5, <2>1 DEF KnownBe
  <1> QED
    BY <1>6, <1>7

LEMMA StillFine ==
    ASSUME Base, NEW i \in 1..Len(cmds), nodes' = Kept(cmds[i]), outer' = outer,
           W' = RunSteps(outer, W, cmds[i])
    PROVE  Fine(New)' /\ Fine(W)' /\ (\E S : nodes \in Seq(S))'
  <1>1. /\ New' = RunSteps(outer, New, cmds[i]) /\ cmds[i] \in Seq(Steps)
        /\ (\E S : nodes \in Seq(S))'
    BY CommandsAre, CodeKept
  <1>2. GoesOn(New, New') /\ GoesOn(W, W')
    BY <1>1, StepsGoOnFrom
  <1>3. Fine(New') /\ Fine(W')
    BY <1>2, FineOn DEF Base
  <1> QED
    BY <1>1, <1>3

-----------------------------------------------------------------------------
(* Every step keeps the invariant.                                           *)

LEMMA KeepCommandGood ==
    ASSUME Good, Clean', KeepCommand
    PROVE  Good'
  <1> USE DEF Good
  <1>1. /\ phase = "compile" /\ phase' = "compile" /\ at' = at + 1 /\ at \in Nat
        /\ at + 1 \in 1..Len(cmds) /\ Len(cmds) \in Nat
        /\ nodes' = Kept(cmds[at + 1]) /\ cmds' = cmds /\ outer' = outer /\ scopes' = scopes
        /\ frames' = frames /\ calc' = calc /\ err' = err /\ known' = known /\ result' = result
    BY DEF KeepCommand, Base
  <1>2. W' = RunSteps(outer, W, cmds[at + 1])
    <2>1. W' = WrittenTo(at + 1) /\ W = WrittenTo(at)
      BY <1>1, WrittenThen DEF W
    <2> QED
      BY <1>1, <2>1, OneWritten
  <1>3. V' = V
    BY <1>1 DEF V
  <1>4. Base'
    <2>1. Fine(New)' /\ Fine(W)' /\ (\E S : nodes \in Seq(S))'
      BY <1>1, <1>2, StillFine
    <2>2. at' \in 0..Len(cmds)
      BY <1>1
    <2> QED
      BY <1>1, <2>1, <2>2 DEF Base
  <1>5. Shape'
    BY <1>1, <1>3 DEF Shape
  <1>6. "left" \in odd' <=> "left" \in odd
    BY DEF KeepCommand, Unless
  <1>7. CASE "left" \in odd
    <2>1. Behind(New', W', V, known) /\ GivesOnly(New', W'.value)
      BY <1>1, <1>2, <1>7, StillBehind DEF LeftBe
    <2>2. LeftBe'
      BY <1>1, <1>3, <2>1 DEF LeftBe
    <2>3. odd' \cap {"stale", "lost"} = {} => ValueBe'
      BY <1>1, <2>1 DEF ValueBe, KeepCommand, Unless
    <2> QED
      BY <1>4, <1>5, <1>6, <1>7, <2>2, <2>3
  <1>8. CASE "left" \notin odd
    <2>1. Alike(New, W)' /\ New.value' = W.value'
      BY <1>1, <1>2, <1>8, StillAlike DEF KeptBe
    <2>2. frames = <<>> => KnownBe'
      BY <1>1, <1>2, <1>3, <1>8, StillKnown DEF KeptBe
    <2>3. KeptBe'
      BY <1>1, <1>3, <1>8, <2>1, <2>2 DEF KeptBe
    <2>4. odd' \cap {"stale", "lost"} = {} => ValueBe'
      BY <1>1, <2>1 DEF ValueBe, GivesOnly, KeepCommand, Unless
    <2> QED
      BY <1>4, <1>5, <1>6, <1>8, <2>3, <2>4
  <1> QED
    BY <1>7, <1>8

\* Before its first step a command stands as the commands before it end.
LEMMA BeforeTheFirst ==
    ASSUME Base, NEW i \in 1..Len(cmds), NEW w
    PROVE  RunSteps(outer, w, SubSeq(cmds[i], 1, 0)) = w
  <1>1. Len(SubSeq(cmds[i], 1, 0)) = 0
    BY CommandsAre
  <1> QED
    BY <1>1, NoSteps

LEMMA BeginCommandGood ==
    ASSUME Good, Clean', BeginCommand
    PROVE  Good'
  <1> USE DEF Good
  <1>1. /\ phase = "compile" /\ phase' = "run" /\ at' = at + 1 /\ at \in Nat
        /\ at + 1 \in 1..Len(cmds) /\ Len(cmds) \in Nat /\ err' = FALSE /\ result' = <<>>
        /\ nodes' = nodes /\ cmds' = cmds /\ outer' = outer /\ scopes' = scopes /\ known' = known
    BY DEF BeginCommand, Base
  <1>2. frames = <<>>
    BY DEF BeginCommand, Clean, Unless
  <1>3. W' = W /\ New' = New /\ V' = V
    <2>1. W' = WrittenTo(at) /\ W = WrittenTo(at)
      BY <1>1, WrittenThen DEF W
    <2> QED
      BY <1>1, <2>1 DEF New, V
  <1>4. scopes = <<V>>
    BY <1>2 DEF Shape
  <1> DEFINE f == Begin(at + 1, <<>>)
  <1>5. frames' = <<f>> /\ calc' = <<>>
    BY <1>2 DEF BeginCommand
  <1>6. /\ f \in Frame /\ f.cmd = at + 1 /\ f.steps = cmds[at + 1] /\ f.began = FALSE
        /\ f.call = FALSE /\ f.values = 0 /\ f.scopes = 1
    <2>1. cmds[at + 1] \in Seq(Steps) /\ at + 1 \in Nat /\ Len(<<>>) = 0 /\ Len(scopes) = 1
      BY <1>1, <1>4, CommandsAre
    <2> HIDE DEF Steps
    <2> QED
      BY <2>1 DEF Begin, Frame
  <1> HIDE DEF f
  <1>7. K' = 0 /\ Len(cmds[at + 1]) \in Nat \ {0}
    <2>1. Len(cmds[at + 1]) \in Nat \ {0}
      BY <1>1, CommandsAre
    <2> QED
      BY <1>1, <1>5, <1>6, <2>1 DEF K
  <1>8. OnFrame'
    <2>1. frames'[1] = f /\ frames' = <<frames'[1]>>
      BY <1>5
    <2>2. \A i \in 1..Len(f.steps) : f.steps[i] = cmds'[at'][0 + i]
      BY <1>1, <1>6, <1>7
    <2> QED
      BY <1>1, <1>5, <1>6, <1>7, <2>1, <2>2 DEF OnFrame
  <1>9. Base'
    <2>1. at' \in 0..Len(cmds) /\ at' > 0
      BY <1>1
    <2>2. (\E S : nodes \in Seq(S))'
      BY <1>1 DEF Base
    <2> QED
      BY <1>1, <1>3, <2>1, <2>2 DEF Base
  <1>10. Shape'
    BY <1>1, <1>2, <1>3, <1>4, <1>5, <1>8 DEF Shape
  <1>11. "left" \in odd' <=> "left" \in odd
    BY DEF BeginCommand, Unless
  <1>12. ValueBe'
    BY <1>1 DEF ValueBe
  <1>13. CASE "left" \in odd
    <2>1. LeftBe'
      BY <1>1, <1>3, <1>13 DEF LeftBe
    <2> QED
      BY <1>9, <1>10, <1>11, <1>12, <1>13, <2>1
  <1>14. CASE "left" \notin odd
    <2>1. Alike(New, W) /\ KnownBe /\ DOMAIN V = known
      BY <1>1, <1>2, <1>14 DEF KeptBe
    <2>2. KnownBe'
      BY <1>1, <1>3, <2>1 DEF KnownBe, InCode
    <2>3. After(K)' = W
      <3>1. After(K)' = RunSteps(outer, W, SubSeq(cmds[at + 1], 1, 0))
        BY <1>1, <1>3, <1>7 DEF After
      <3> QED
        BY <1>1, <3>1, BeforeTheFirst
    <2>4. Meets(W, W, V, known)
      <3> SUFFICES ASSUME W.value # Raise  PROVE Meets(W, W, V, known)
        BY DEF Meets
      <3>1. ~Clash(W, V, known)
        BY <2>1 DEF Clash
      <3>2. W.vars = Over(W.vars, V)
        <4>1. \A n \in DOMAIN V : n \in DOMAIN W.vars /\ W.vars[n] = V[n]
          BY <2>1 DEF KnownBe
        <4>2. IsFcn(W.vars)
          BY DEF Base, Fine
        <4> HIDE DEF Good
        <4> QED
          BY <4>1, <4>2 DEF Over, IsFcn
      <3> QED
        BY <3>1, <3>2, Zenon DEF Meets
    <2>5. RunBe'
      BY <1>1, <1>3, <1>5, <1>7, <2>3, <2>4 DEF RunBe
    <2>6. KeptBe'
      BY <1>1, <1>3, <1>5, <2>1, <2>2, <2>5 DEF KeptBe
    <2> QED
      BY <1>9, <1>10, <1>11, <1>12, <1>14, <2>6
  <1> QED
    BY <1>13, <1>14

\* The machine while a command runs: one frame, one scope.
LEMMA MachineIs ==
    ASSUME Good, phase = "run", frames # <<>>
    PROVE  /\ OnFrame /\ scopes = <<V>> /\ Top = frames[1] /\ Front(frames) = <<>>
           /\ Last(scopes) = V /\ Front(scopes) = <<>> /\ at \in 1..Len(cmds) /\ Len(cmds) \in Nat
           /\ Len(cmds[at]) \in Nat \ {0} /\ Len(frames[1].steps) \in Nat
  <1>1. OnFrame /\ scopes = <<V>>
    BY DEF Good, Shape
  <1>2. frames = <<frames[1]>> /\ frames[1] \in Frame
    BY <1>1 DEF OnFrame
  <1>3. Last(frames) = frames[1] /\ Front(frames) = <<>>
    <2> DEFINE f == frames[1]
    <2> HIDE DEF f
    <2>1. Last(<<f>>) = f /\ Front(<<f>>) = <<>>
      BY DEF Last, Front
    <2> QED
      BY <1>2, <2>1 DEF f
  <1>4. Last(scopes) = V /\ Front(scopes) = <<>>
    <2>1. Last(<<V>>) = V /\ Front(<<V>>) = <<>>
      BY DEF Last, Front
    <2> QED
      BY <1>1, <2>1
  <1>5. at \in 1..Len(cmds) /\ Len(cmds) \in Nat
    BY DEF Good, Base
  <1>6. Len(cmds[at]) \in Nat \ {0}
    BY <1>5, CommandsAre DEF Good
  <1>7. frames[1].steps \in Seq(Steps)
    BY <1>2 DEF Frame
  <1> QED
    BY <1>1, <1>3, <1>4, <1>5, <1>6, <1>7 DEF Top

\* What the compiler's machine sees of a name.
LEMMA SeenIs ==
    ASSUME scopes = <<V>>
    PROVE  /\ DOMAIN Seen = DOMAIN Global \cup DOMAIN V
           /\ \A n \in DOMAIN Seen : Seen[n] = IF n \in DOMAIN V THEN V[n] ELSE Global[n]
  <1>1. DOMAIN scopes = {1} /\ scopes[1] = V
    BY DEF V
  <1>2. DOMAIN Seen = DOMAIN Global \cup DOMAIN V
    BY <1>1 DEF Seen
  <1>3. ASSUME NEW n \in DOMAIN Seen
        PROVE  Seen[n] = IF n \in DOMAIN V THEN V[n] ELSE Global[n]
    <2>1. Seen[n] = IF Holders(n) = {} THEN Global[n]
                    ELSE scopes[CHOOSE i \in Holders(n) : \A j \in Holders(n) : j <= i][n]
      BY DEF Seen
    <2>2. CASE n \in DOMAIN V
      <3>1. Holders(n) = {1}
        BY <1>1, <2>2 DEF Holders
      <3>2. (CHOOSE i \in {1} : \A j \in {1} : j <= i) = 1
        OBVIOUS
      <3>3. Seen[n] = scopes[1][n]
        BY <2>1, <3>1, <3>2
      <3> QED
        BY <1>1, <2>2, <3>3
    <2>3. CASE n \notin DOMAIN V
      <3>1. Holders(n) = {}
        BY <1>1, <2>3 DEF Holders
      <3> QED
        BY <2>1, <2>3, <3>1
    <2> QED
      BY <2>2, <2>3
  <1> QED
    BY <1>2, <1>3

\* A global that is not shadowed means the same at run time.
LEMMA GlobalsMean ==
    ASSUME Good, "left" \notin odd, phase = "run", scopes = <<V>>, NEW from, ~Shadowed(from),
           W.value # Raise, from \in DOMAIN Global, from \notin DOMAIN V
    PROVE  outer[from] = Global[from] /\ from \notin DOMAIN W.vars
  <1>1. from = "g"
    BY DEF Global
  <1>2. DOMAIN scopes = {1} /\ scopes[1] = V
    BY DEF V
  <1>3. outer["g"] = Global["g"]
    BY <1>1, <1>2, Zenon DEF Shadowed
  <1>4. ASSUME from \in DOMAIN W.vars  PROVE FALSE
    <2>1. KnownBe /\ known \subseteq DOMAIN V
      BY DEF Good, KeptBe, Shape
    <2>2. InCode("g")
      BY <1>1, <1>4, <2>1, Zenon DEF KnownBe
    <2>3. PICK i \in DOMAIN nodes :
            nodes[i].is = "code" /\ \E j \in DOMAIN nodes[i].cmd : nodes[i].cmd[j].name = "g"
      BY <2>2, Zenon DEF InCode
    <2>4. PICK j \in DOMAIN nodes[i].cmd : nodes[i].cmd[j].name = "g"
      BY <2>3
    <2>5. nodes[i] \in ToSet(nodes) /\ nodes[i].cmd[j] \in ToSet(nodes[i].cmd)
      BY Zenon DEF ToSet
    <2> QED
      BY <1>1, <1>2, <2>3, <2>4, <2>5, Zenon DEF Shadowed
  <1> QED
    BY <1>1, <1>3, <1>4

LEMMA OneAfter ==
    ASSUME Base, at \in 1..Len(cmds), NEW k \in Nat, k < Len(cmds[at])
    PROVE  After(k + 1) = RunStep(outer, After(k), cmds[at][k + 1])
  <1> DEFINE c == cmds[at]
             old == SubSeq(c, 1, k)
             new == SubSeq(c, 1, k + 1)
  <1>1. c \in Seq(Steps)
    BY CommandsAre
  <1> HIDE DEF c
  <1>2. /\ Len(old) = k /\ Len(new) = k + 1 /\ \A i \in 1..k : new[i] = old[i]
        /\ new[k + 1] = c[k + 1]
    BY <1>1 DEF c
  <1> HIDE DEF old, new
  <1>3. RunSteps(outer, W, new) = RunStep(outer, RunSteps(outer, W, old), new[Len(new)])
    BY <1>2, OneStepMore
  <1> QED
    BY <1>2, <1>3, Zenon DEF After, c, old, new

LEMMA RunsStepGood ==
    ASSUME Good, Clean', RunsStep
    PROVE  Good'
  <1> DEFINE s == cmds[at][K + 1]
             v == StepOutcome
             next == Assigning(V, s, v)
             f == frames[1]
             c == cmds[at]
             g == [f EXCEPT !.steps = Tail(f.steps), !.began = TRUE]
  <1>1. /\ phase = "run" /\ phase' = "run" /\ frames # <<>> /\ at' = at /\ nodes' = nodes
        /\ cmds' = cmds /\ outer' = outer /\ known' = known /\ result' = result /\ err' = err
        /\ ~Top.call /\ Top.steps # <<>> /\ v # Raise
    BY DEF RunsStep, AtStep, Running
  <1>2. /\ OnFrame /\ scopes = <<V>> /\ Top = f /\ Front(frames) = <<>> /\ Last(scopes) = V
        /\ Front(scopes) = <<>> /\ at \in 1..Len(cmds) /\ Len(cmds) \in Nat
        /\ Len(c) \in Nat \ {0} /\ Len(f.steps) \in Nat
    BY <1>1, MachineIs
  <1>3. f \in Frame /\ f.steps \in Seq(Steps)
    BY <1>2 DEF OnFrame, Frame
  <1>4. K \in Nat /\ K < Len(c) /\ Len(f.steps) = Len(c) - K /\ Len(f.steps) # 0
    <2>1. f.steps # <<>>
      BY <1>1, <1>2
    <2>2. Len(f.steps) # 0
      BY <1>3, <2>1
    <2>3. K \in 0..Len(c) /\ K = Len(c) - Len(f.steps)
      BY <1>2 DEF OnFrame, K
    <2> HIDE DEF f, c
    <2> QED
      BY <1>2, <2>2, <2>3
  <1>5. NextStep = s /\ s \in Steps
    <2>1. Head(f.steps) = f.steps[1] /\ f.steps[1] \in Steps
      BY <1>3, <1>4
    <2>2. f.steps[1] = s
      BY <1>2, <1>4 DEF OnFrame
    <2> QED
      BY <1>2, <2>1, <2>2 DEF NextStep
  <1>6. W' = W /\ New' = New
    <2>1. W' = WrittenTo(at - 1) /\ W = WrittenTo(at - 1)
      BY <1>1, WrittenThen DEF W
    <2> QED
      BY <1>1, <2>1 DEF New
  <1>7. v = Outcome(s, Seen, V, TRUE)
    BY <1>2, <1>5, Zenon DEF StepOutcome
  <1>8. s.name \notin DOMAIN V
    BY <1>1, <1>7, Zenon DEF Outcome
  <1>9. scopes' = <<next>> /\ V' = next
    <2>1. CASE s.name = ""
      <3>1. scopes' = scopes
        BY <1>5, <2>1, Zenon DEF RunsStep
      <3>2. next = V
        BY <2>1, Zenon DEF Assigning
      <3> HIDE DEF next
      <3> QED
        BY <1>2, <3>1, <3>2 DEF V
    <2>2. CASE s.name # ""
      <3>1. scopes' = Append(<<>>, With(V, s.name, v))
        BY <1>2, <1>5, <2>2, Zenon DEF RunsStep
      <3>2. next = With(V, s.name, v)
        BY <2>2, Zenon DEF Assigning
      <3> HIDE DEF next, v, s
      <3> QED
        BY <3>1, <3>2 DEF V
    <2> QED
      BY <2>1, <2>2
  <1>10. frames' = <<g>> /\ calc' = <<v>>
    <2>1. frames' = Append(<<>>, g)
      BY <1>2 DEF RunsStep
    <2>2. (IF Top.began THEN Front(calc) ELSE calc) = <<>>
      <3>1. CASE K = 0
        <4>1. ~Top.began /\ calc = <<>>
          BY <1>2, <3>1 DEF OnFrame
        <4> QED
          BY <4>1
      <3>2. CASE K > 0
        <4>1. Top.began /\ calc = <<calc[1]>>
          BY <1>2, <3>2 DEF OnFrame, OneValue
        <4>2. Front(<<calc[1]>>) = <<>>
          BY DEF Front
        <4> QED
          BY <4>1, <4>2
      <3> QED
        BY <1>4, <3>1, <3>2
    <2>3. calc' = Append(<<>>, v)
      BY <2>2, Zenon DEF RunsStep
    <2> HIDE DEF g, v
    <2> QED
      BY <2>1, <2>3
  <1>11. /\ g \in Frame /\ g.cmd = f.cmd /\ g.steps = Tail(f.steps) /\ g.began = TRUE
         /\ g.call = f.call /\ g.values = f.values /\ g.scopes = f.scopes
    <2>1. Tail(f.steps) \in Seq(Steps)
      BY <1>3, <1>4
    <2> HIDE DEF Steps, f
    <2> QED
      BY <1>3, <2>1 DEF Frame
  <1>12. /\ K' = K + 1 /\ Len(g.steps) = Len(f.steps) - 1
         /\ \A i \in 1..Len(g.steps) : g.steps[i] = f.steps[i + 1]
    <2>1. /\ Len(Tail(f.steps)) = Len(f.steps) - 1
          /\ \A i \in 1..Len(Tail(f.steps)) : Tail(f.steps)[i] = f.steps[i + 1]
      BY <1>3, <1>4
    <2>2. frames'[1] = g
      BY <1>10
    <2>3. Len(g.steps) = Len(f.steps) - 1
      BY <1>11, <2>1
    <2>4. K' = Len(c) - Len(g.steps) /\ K = Len(c) - Len(f.steps)
      BY <1>1, <2>2 DEF K
    <2> HIDE DEF g, f
    <2> QED
      BY <1>2, <1>11, <2>1, <2>3, <2>4
  <1> HIDE DEF g
  <1>13. OneValue'
    <2> HIDE DEF v
    <2> QED
      BY <1>1, <1>10 DEF OneValue
  <1>14. OnFrame'
    <2>1. frames'[1] = g /\ frames' = <<frames'[1]>>
      BY <1>10
    <2>2. ASSUME NEW i \in 1..Len(g.steps)  PROVE g.steps[i] = cmds'[at'][(K + 1) + i]
      <3>1. i + 1 \in 1..Len(f.steps) /\ K + (i + 1) = (K + 1) + i
        BY <1>2, <1>4, <1>12
      <3>2. f.steps[i + 1] = c[K + (i + 1)]
        BY <1>2, <3>1 DEF OnFrame
      <3> QED
        BY <1>1, <1>12, <3>1, <3>2
    <2>3. K + 1 \in 0..Len(c) /\ K + 1 > 0 /\ K + 1 # 0
      BY <1>2, <1>4
    <2>4. ~err /\ f.cmd = at /\ ~f.call /\ f.values = 0 /\ f.scopes = 1
      BY <1>2 DEF OnFrame
    <2> QED
      BY <1>1, <1>11, <1>12, <1>13, <2>1, <2>2, <2>3, <2>4 DEF OnFrame
  <1>15. DOMAIN V \subseteq DOMAIN next /\ DOMAIN next \subseteq Names /\ \A n \in DOMAIN next : next[n] # Raise
    <2>1. DOMAIN V \subseteq Names /\ \A n \in DOMAIN V : V[n] # Raise
      BY DEF Good, Shape
    <2>2. CASE s.name = ""
      BY <2>1, <2>2, Zenon DEF Assigning
    <2>3. CASE s.name # ""
      <3>1. s.name \in Names
        BY <1>5, <2>3 DEF Steps
      <3>2. next = With(V, s.name, v)
        BY <2>3, Zenon DEF Assigning
      <3>3. DOMAIN next = DOMAIN V \cup {s.name}
        <4> HIDE DEF v, s, next
        <4> QED
          BY <3>2 DEF With, Over
      <3>4. ASSUME NEW n \in DOMAIN next  PROVE next[n] # Raise
        <4>1. next[n] = IF n = s.name THEN v ELSE V[n]
          <5> HIDE DEF v, s, next
          <5> QED
            BY <3>2, <3>3 DEF With, Over
        <4> HIDE DEF v, next
        <4> QED
          BY <1>1, <2>1, <3>3, <4>1, Zenon
      <3> HIDE DEF next
      <3> QED
        BY <2>1, <3>1, <3>3, <3>4
    <2> QED
      BY <2>2, <2>3
  <1>16. Base'
    <2>1. (\E S : nodes \in Seq(S))'
      BY <1>1 DEF Good, Base
    <2> HIDE DEF Clean
    <2> QED
      BY <1>1, <1>6, <2>1 DEF Good, Base
  <1>17. Shape'
    <2> HIDE DEF next
    <2>1. known \subseteq DOMAIN V /\ result = <<>>
      BY <1>1 DEF Good, Shape
    <2>2. frames' # <<>>
      BY <1>10
    <2> QED
      BY <1>1, <1>9, <1>14, <1>15, <2>1, <2>2 DEF Shape
  <1>18. odd' \cap {"left"} = odd \cap {"left"} /\ ~Shadowed(s.from)
    BY <1>5 DEF RunsStep, Unless, Clean
  <1>19. ValueBe'
    BY <1>1 DEF ValueBe
  <1> HIDE DEF next
  <1>20. CASE "left" \in odd
    <2>1. Behind(New, W, V, known)
      BY <1>20 DEF Good, LeftBe
    <2>2. Behind(New, W, next, known)
      BY <1>15, <2>1 DEF Behind
    <2>3. LeftBe'
      BY <1>1, <1>6, <1>9, <2>2 DEF LeftBe
    <2>4. "left" \in odd'
      BY <1>18, <1>20
    <2> QED
      BY <1>16, <1>17, <1>19, <2>3, <2>4 DEF Good
  <1>21. CASE "left" \notin odd
    <2>1. /\ Alike(New, W) /\ KnownBe /\ Meets(After(K), W, V, known) /\ Base
          /\ known \subseteq DOMAIN V /\ DOMAIN V \subseteq Names
      BY <1>1, <1>21 DEF Good, KeptBe, RunBe, Shape
    <2>2. KnownBe'
      <3>1. \A n \in known : V'[n] = V[n]
        <4>1. CASE s.name = ""
          BY <1>9, <4>1, Zenon DEF next, Assigning
        <4>2. CASE s.name # ""
          <5>1. V' = With(V, s.name, v)
            BY <1>9, <4>2, Zenon DEF next, Assigning
          <5> HIDE DEF v, s
          <5> QED
            BY <1>8, <2>1, <5>1 DEF With, Over
        <4> QED
          BY <4>1, <4>2
      <3> QED
        BY <1>1, <1>6, <2>1, <3>1 DEF KnownBe, InCode
    <2>3. After(K)' = RunStep(outer, After(K), s)
      <3>1. After(K)' = RunSteps(outer, W, SubSeq(cmds[at], 1, K + 1))
        BY <1>1, <1>6, <1>12 DEF After
      <3>2. After(K + 1) = RunStep(outer, After(K), s)
        BY <1>2, <1>4, <2>1, OneAfter
      <3> QED
        BY <3>1, <3>2 DEF After
    <2>4. /\ DOMAIN Seen = DOMAIN Global \cup DOMAIN V
          /\ \A n \in DOMAIN Seen : Seen[n] = IF n \in DOMAIN V THEN V[n] ELSE Global[n]
      BY <1>2, SeenIs
    <2>5. W.value # Raise /\ s.from \in DOMAIN Global /\ s.from \notin DOMAIN V =>
              outer[s.from] = Global[s.from] /\ s.from \notin DOMAIN W.vars
      BY <1>1, <1>2, <1>18, <1>21, GlobalsMean
    <2>6. /\ W.calls \in Nat /\ IsFcn(W.vars) /\ Nameless(W.vars) /\ Nameless(V)
          /\ DOMAIN outer = DOMAIN Global
      <3>1. Nameless(V)
        BY <2>1, Zenon DEF Nameless, Names
      <3> QED
        BY <2>1, <3>1 DEF Base, Fine
    <2>7. Meets(After(K)', W, next, known) /\ Gives(After(K)', W, next, known, v)
      <3>1. /\ Meets(RunStep(outer, After(K), s), W, next, known)
            /\ Gives(RunStep(outer, After(K), s), W, next, known, v)
        <4> HIDE DEF v, s
        <4> QED
          BY <1>1, <1>7, <2>1, <2>4, <2>5, <2>6, StepFolded DEF next
      <3> QED
        BY <2>3, <3>1, Zenon
    <2>8. RunBe'
      <3>1. frames' # <<>> /\ calc'[1] = v
        <4> HIDE DEF v
        <4> QED
          BY <1>10
      <3> QED
        BY <1>1, <1>6, <1>9, <2>7, <3>1, Zenon DEF RunBe
    <2>9. KeptBe'
      BY <1>1, <1>6, <2>1, <2>2, <2>8 DEF KeptBe
    <2>10. "left" \notin odd'
      BY <1>18, <1>21
    <2> QED
      BY <1>16, <1>17, <1>19, <2>9, <2>10 DEF Good
  <1> QED
    BY <1>20, <1>21

\* A function in the middle of a call belongs to a command given up.
LEMMA NoReturn ==
    ASSUME Good, Return
    PROVE  FALSE
  <1>1. phase = "run" /\ frames # <<>> /\ Top.call
    BY DEF Return, Running
  <1>2. Top = frames[1] /\ OnFrame
    BY <1>1, MachineIs
  <1> QED
    BY <1>1, <1>2 DEF OnFrame

\* What the steps of a running command that end it leave alone.
LEMMA RunStays ==
    ASSUME Good, phase = "run", phase' = "run", UNCHANGED <<cmds, outer, at, known, result, nodes>>,
           scopes' = scopes, err' \in BOOLEAN, frames' = <<>>, err' \/ OneValue',
           odd' = odd, "left" \notin odd => RunBe'
    PROVE  Good'
  <1>1. W' = W /\ New' = New /\ V' = V
    <2>1. W' = WrittenTo(at - 1) /\ W = WrittenTo(at - 1)
      BY WrittenThen DEF W
    <2> QED
      BY <2>1 DEF New, V
  <1>2. Base'
    <2>1. (\E S : nodes \in Seq(S))'
      BY DEF Good, Base
    <2> QED
      BY <1>1, <2>1 DEF Good, Base
  <1>3. Shape'
    BY <1>1 DEF Good, Shape
  <1>4. ValueBe'
    BY DEF ValueBe
  <1>5. CASE "left" \in odd
    BY <1>1, <1>2, <1>3, <1>4, <1>5 DEF Good, LeftBe
  <1>6. CASE "left" \notin odd
    <2>1. Alike(New, W) /\ KnownBe
      BY <1>6 DEF Good, KeptBe
    <2>2. KnownBe'
      BY <1>1, <2>1 DEF KnownBe, InCode
    <2>3. KeptBe'
      BY <1>1, <1>6, <2>1, <2>2 DEF KeptBe
    <2> QED
      BY <1>2, <1>3, <1>4, <1>6, <2>3 DEF Good
  <1> QED
    BY <1>5, <1>6

LEMMA AfterStays ==
    ASSUME UNCHANGED <<cmds, at>>, outer' = outer, W' = W, NEW k
    PROVE  After(k)' = After(k)
  BY DEF After

LEMMA StepFailsGood ==
    ASSUME Good, Clean', StepFails
    PROVE  Good'
  <1>1. /\ phase = "run" /\ phase' = "run" /\ frames # <<>> /\ frames' = Front(frames)
        /\ UNCHANGED <<cmds, outer, at, known, result, nodes>> /\ odd' = odd /\ Handled(Top)
        /\ err' \in IF Top.cmd = at THEN {TRUE} ELSE {TRUE, err}
    BY DEF StepFails, AtStep, Running
  <1>2. OnFrame /\ scopes = <<V>> /\ Top = frames[1] /\ Front(frames) = <<>>
    BY <1>1, MachineIs
  <1>3. frames[1].cmd = at /\ frames[1].values = 0 /\ frames[1].scopes = 1
    BY <1>2 DEF OnFrame
  <1>4. err' = TRUE
    BY <1>1, <1>2, <1>3
  <1>5. scopes' = scopes
    <2>1. Len(calc) \in Nat
      BY <1>2 DEF OnFrame, OneValue
    <2>2. Len(scopes) = 1
      BY <1>2
    <2>3. scopes' = SubSeq(scopes, 1, 1)
      BY <1>1, <1>2, <1>3, <2>1, <2>2 DEF Handled
    <2>4. SubSeq(<<V>>, 1, 1) = <<V>>
      <3> DEFINE one == <<V>>
      <3>1. one \in Seq({V}) /\ Len(one) = 1
        OBVIOUS
      <3> HIDE DEF one
      <3> QED
        BY <3>1, SubSeqFull DEF one
    <2> QED
      BY <1>2, <2>3, <2>4
  <1>6. ASSUME "left" \notin odd  PROVE RunBe'
    <2>1. Meets(After(K), W, V, known) /\ K \in 0..Len(cmds[at])
      BY <1>1, <1>2, <1>6 DEF Good, KeptBe, RunBe, OnFrame
    <2>2. PICK k \in 0..Len(cmds[at]) : k = K
      BY <2>1
    <2>3. W' = W /\ V' = V
      BY <1>1, <1>5, WrittenThen DEF W, V
    <2>4. After(k)' = After(k)
      BY <1>1, <2>3, AfterStays
    <2>5. Meets(After(k), W, V, known)'
      BY <1>1, <2>1, <2>2, <2>3, <2>4
    <2> QED
      BY <1>1, <1>2, <1>4, <2>5 DEF RunBe
  <1> QED
    BY <1>1, <1>2, <1>4, <1>5, <1>6, RunStays

LEMMA StepsDoneGood ==
    ASSUME Good, Clean', StepsDone
    PROVE  Good'
  <1>1. /\ phase = "run" /\ phase' = "run" /\ frames # <<>> /\ frames' = Front(frames)
        /\ UNCHANGED <<cmds, outer, at, known, result, nodes, scopes, calc, err>> /\ odd' = odd
        /\ Top.steps = <<>>
    BY DEF StepsDone, Running
  <1>2. OnFrame /\ Top = frames[1] /\ Front(frames) = <<>> /\ Len(cmds[at]) \in Nat \ {0}
    BY <1>1, MachineIs
  <1>3. K = Len(cmds[at]) /\ K > 0
    <2>1. Len(frames[1].steps) = 0
      BY <1>1, <1>2
    <2> QED
      BY <1>2, <2>1 DEF K
  <1>4. ~err /\ OneValue /\ err \in BOOLEAN
    BY <1>2, <1>3 DEF OnFrame, Good, Base
  <1>5. OneValue'
    BY <1>1, <1>4 DEF OneValue
  <1>6. ASSUME "left" \notin odd  PROVE RunBe'
    <2>1. Meets(After(K), W, V, known) /\ Gives(After(K), W, V, known, calc[1])
      BY <1>1, <1>3, <1>6 DEF Good, KeptBe, RunBe
    <2>2. PICK k : k = K
      OBVIOUS
    <2>3. W' = W /\ V' = V
      BY <1>1, WrittenThen DEF W, V
    <2>4. After(k)' = After(k)
      BY <1>1, <2>3, AfterStays
    <2>5. k = Len(cmds[at])' /\ After(k)' = After(Len(cmds[at]))'
      BY <1>1, <1>3, <2>2 DEF After
    <2>6. Meets(After(k)', W, V, known) /\ Gives(After(k)', W, V, known, calc[1])
      BY <2>1, <2>2, <2>4
    <2> QED
      BY <1>1, <1>2, <1>4, <2>3, <2>5, <2>6 DEF RunBe
  <1> QED
    BY <1>1, <1>2, <1>4, <1>5, <1>6, RunStays

\* A command that has run, or the beginning of it, is put in the block as it was written.
LEMMA KeptAsCode ==
    ASSUME Good, Clean', phase = "run", phase' = "compile", nodes' = Kept(cmds[at]),
           UNCHANGED <<cmds, outer, at, err, known, result>>,
           scopes' = scopes \/ (frames' # <<>> /\ scopes' = Append(scopes, NoVars)),
           odd' = odd \cup LeftBehind,
           "left" \notin odd => \E k \in 0..Len(cmds[at]) : Meets(After(k), W, V, known)
    PROVE  Good'
  <1>1. at \in Nat /\ at > 0 /\ at \in 1..Len(cmds) /\ Len(cmds) \in Nat /\ Base /\ Shape
    BY DEF Good, Base
  <1>2. W' = RunSteps(outer, W, cmds[at])
    <2>1. W' = WrittenTo(at) /\ W = WrittenTo(at - 1)
      BY WrittenThen DEF W
    <2>2. at - 1 \in Nat /\ at - 1 < Len(cmds) /\ (at - 1) + 1 = at
      BY <1>1
    <2> QED
      BY <1>1, <2>1, <2>2, OneWritten
  <1>3. scopes = <<V>> /\ result = <<>>
    BY <1>1 DEF Shape
  <1>4. V' = V /\ (scopes' = <<V>> \/ (frames' # <<>> /\ scopes' = Append(<<V>>, NoVars)))
    <2>1. <<V>> \in Seq({V}) /\ Len(<<V>>) = 1 /\ <<V>>[1] = V
      OBVIOUS
    <2>2. Append(<<V>>, NoVars)[1] = V
      BY <2>1, LongerBy
    <2>3. scopes'[1] = V => V' = V
      BY DEF V
    <2> QED
      BY <1>3, <2>1, <2>2, <2>3
  <1>5. LeftBehind = IF DOMAIN V \subseteq known THEN {} ELSE {"left"}
    <2>1. DOMAIN scopes = {1} /\ scopes[1] = V
      BY <1>3
    <2>2. UNION {DOMAIN scopes[i] : i \in DOMAIN scopes} = DOMAIN V
      BY <2>1
    <2> QED
      BY <2>2, Zenon DEF LeftBehind, Unless
  <1>6. Base'
    <2>1. Fine(New)' /\ Fine(W)' /\ (\E S : nodes \in Seq(S))'
      BY <1>1, <1>2, StillFine
    <2> QED
      BY <1>1, <2>1 DEF Base
  <1>7. Shape'
    BY <1>1, <1>4 DEF Shape
  <1>8. CASE "left" \in odd
    <2>1. Behind(New', W', V, known) /\ GivesOnly(New', W'.value)
      BY <1>1, <1>2, <1>8, StillBehind DEF Good, LeftBe
    <2>2. LeftBe'
      BY <1>4, <2>1 DEF LeftBe
    <2>3. ValueBe'
      BY <1>3, <2>1 DEF ValueBe
    <2> QED
      BY <1>6, <1>7, <1>8, <2>2, <2>3 DEF Good
  <1>9. CASE "left" \notin odd
    <2>1. Alike(New, W) /\ KnownBe
      BY <1>9 DEF Good, KeptBe
    <2>2. Alike(New', W') /\ New'.value = W'.value
      BY <1>1, <1>2, <2>1, StillAlike
    <2>3. KnownBe'
      BY <1>1, <1>2, <1>4, <2>1, StillKnown
    <2>4. ValueBe'
      BY <1>3, <2>2 DEF ValueBe, GivesOnly
    <2>5. CASE DOMAIN V \subseteq known
      <3>1. DOMAIN V = known
        BY <1>1, <2>5 DEF Shape
      <3>2. KeptBe'
        BY <1>4, <2>2, <2>3, <3>1 DEF KeptBe
      <3>3. "left" \notin odd'
        BY <1>5, <1>9, <2>5
      <3> QED
        BY <1>6, <1>7, <2>4, <3>2, <3>3 DEF Good
    <2>6. CASE ~ (DOMAIN V \subseteq known)
      <3>1. PICK n \in DOMAIN V \ known : TRUE
        BY <2>6
      <3>2. ASSUME New'.value # Raise  PROVE n \in DOMAIN New'.vars
        <4>1. PICK k \in 0..Len(cmds[at]) : Meets(After(k), W, V, known)
          BY <1>9
        <4>2. /\ GoesOn(W, W') /\ GoesOn(After(k), W') /\ cmds[at] \in Seq(Steps)
          BY <1>1, <1>2, CommandsAre, StepsGoOn, StepsGoOnFrom DEF After
        <4>3. W'.value # Raise /\ New'.vars = W'.vars
          BY <2>2, <3>2 DEF Alike
        <4>4. W.value # Raise /\ After(k).value # Raise
          BY <4>2, <4>3 DEF GoesOn
        <4>5. After(k).vars = Over(W.vars, V)
          BY <4>1, <4>4 DEF Meets
        <4>6. n \in DOMAIN After(k).vars
          BY <3>1, <4>5 DEF Over
        <4> QED
          BY <4>2, <4>3, <4>6 DEF GoesOn
      <3>3. LeftBe'
        BY <1>4, <2>2, <3>1, <3>2 DEF LeftBe, Behind
      <3>4. "left" \in odd'
        BY <1>5, <2>6
      <3> QED
        BY <1>6, <1>7, <2>4, <3>3, <3>4 DEF Good
    <2> QED
      BY <2>5, <2>6
  <1> QED
    BY <1>8, <1>9

LEMMA GiveUpGood ==
    ASSUME Good, Clean', GiveUp
    PROVE  Good'
  <1>1. /\ phase = "run" /\ phase' = "compile" /\ frames # <<>> /\ nodes' = Kept(cmds[at])
        /\ UNCHANGED <<cmds, outer, at, err, known, result>> /\ odd' = odd \cup LeftBehind
    BY DEF GiveUp, Running
  <1>2. OnFrame /\ Front(frames) = <<>>
    BY <1>1, MachineIs
  <1>3. scopes' = scopes \/ (frames' # <<>> /\ scopes' = Append(scopes, NoVars))
    <2>1. PICK inCall \in BOOLEAN :
              /\ scopes' = IF inCall THEN Append(scopes, NoVars) ELSE scopes
              /\ frames' = Append(Front(frames), [Top EXCEPT !.call = @ \/ inCall])
      BY Zenon DEF GiveUp
    <2> DEFINE f == [Top EXCEPT !.call = @ \/ inCall]
    <2>2. frames' = Append(<<>>, f)
      BY <1>2, <2>1
    <2> HIDE DEF f
    <2>3. frames' # <<>>
      BY <2>2
    <2> QED
      BY <2>1, <2>3
  <1>4. ASSUME "left" \notin odd
        PROVE  \E k \in 0..Len(cmds[at]) : Meets(After(k), W, V, known)
    BY <1>1, <1>2, <1>4 DEF Good, KeptBe, RunBe, OnFrame
  <1> QED
    BY <1>1, <1>3, <1>4, KeptAsCode

LEMMA CommandFailedGood ==
    ASSUME Good, Clean', CommandFailed
    PROVE  Good'
  <1>1. /\ phase = "run" /\ phase' = "compile" /\ frames = <<>> /\ nodes' = Kept(cmds[at]) /\ err
        /\ UNCHANGED <<cmds, outer, at, err, known, result>> /\ odd' = odd \cup LeftBehind
        /\ scopes' = scopes
    BY DEF CommandFailed
  <1>2. ASSUME "left" \notin odd
        PROVE  \E k \in 0..Len(cmds[at]) : Meets(After(k), W, V, known)
    BY <1>1, <1>2 DEF Good, KeptBe, RunBe
  <1> QED
    BY <1>1, <1>2, KeptAsCode

\* After its last step a command stands as it ends.
LEMMA AfterTheLast ==
    ASSUME Base, at \in 1..Len(cmds)
    PROVE  After(Len(cmds[at])) = RunSteps(outer, W, cmds[at])
  <1>1. cmds[at] \in Seq(Steps)
    BY CommandsAre
  <1>2. SubSeq(cmds[at], 1, Len(cmds[at])) = cmds[at]
    BY <1>1, SubSeqFull
  <1> QED
    BY <1>2 DEF After

LEMMA CodeStays ==
    ASSUME NEW S, nodes \in Seq(S), NEW T, NEW more \in Seq(T), nodes' = nodes \o more
    PROVE  (\E U : nodes \in Seq(U))' /\ \A n : InCode(n) => InCode(n)'
  <1>1. nodes \in Seq(S \cup T) /\ more \in Seq(S \cup T)
    OBVIOUS
  <1>2. nodes \o more \in Seq(S \cup T) /\ \A i \in DOMAIN nodes : (nodes \o more)[i] = nodes[i]
    BY <1>1
  <1>3. DOMAIN nodes \subseteq DOMAIN (nodes \o more)
    BY <1>1
  <1>4. \A n : InCode(n) => InCode(n)'
    BY <1>2, <1>3, Zenon DEF InCode
  <1> QED
    BY <1>2, <1>4

\* The assignments of a command do what the command did.
LEMMA AssignedAlike ==
    ASSUME NEW r, NEW w, NEW st, NEW q, NEW top, NEW kn, NEW value,
           Fine(w), Alike(r, w), GoesOn(w, st), Meets(st, w, top, kn), Gives(st, w, top, kn, value),
           Puts(q, r, DOMAIN top \ kn, top),
           w.value # Raise => \A n \in kn : n \in DOMAIN w.vars /\ w.vars[n] = top[n]
    PROVE  /\ Alike(q, st)
           /\ st.value # Raise =>
                 w.value # Raise /\ st.value = value /\ st.vars = Over(w.vars, top)
  <1>1. CASE w.value = Raise
    <2>1. st = w /\ r.value = Raise /\ r.calls = w.calls
      BY <1>1 DEF GoesOn, Alike
    <2>2. q.value = Raise /\ q.calls = r.calls
      BY <2>1 DEF Puts
    <2> QED
      BY <1>1, <2>1, <2>2 DEF Alike
  <1>2. CASE w.value # Raise
    <2>1. r.value # Raise /\ r.calls = w.calls /\ r.vars = w.vars /\ st.calls = w.calls
      BY <1>2 DEF Alike, Meets
    <2>2. CASE Clash(w, top, kn)
      <3>1. st.value = Raise
        BY <1>2, <2>2 DEF Meets
      <3>2. \E n \in DOMAIN top \ kn : n \in DOMAIN r.vars
        BY <2>1, <2>2 DEF Clash
      <3>3. q.value = Raise /\ q.calls = r.calls
        BY <3>2 DEF Puts
      <3> QED
        BY <2>1, <3>1, <3>3 DEF Alike
    <2>3. CASE ~Clash(w, top, kn)
      <3>1. st.value # Raise /\ st.vars = Over(w.vars, top) /\ st.value = value
        BY <1>2, <2>3 DEF Meets, Gives
      <3>2. ~ \E n \in DOMAIN top \ kn : n \in DOMAIN r.vars
        BY <2>1, <2>3 DEF Clash
      <3>3. /\ q.value # Raise /\ q.calls = r.calls
            /\ q.vars = Over(r.vars, [n \in DOMAIN top \ kn |-> top[n]])
        BY <2>1, <3>2 DEF Puts
      <3>4. Over(w.vars, [n \in DOMAIN top \ kn |-> top[n]]) = Over(w.vars, top)
        <4>1. \A n \in kn : n \in DOMAIN w.vars /\ w.vars[n] = top[n]
          BY <1>2
        <4> QED
          BY <4>1 DEF Over
      <3> QED
        BY <1>2, <2>1, <3>1, <3>3, <3>4 DEF Alike
    <2> QED
      BY <2>2, <2>3
  <1> QED
    BY <1>1, <1>2

LEMMA CommandFoldedGood ==
    ASSUME Good, Clean', CommandFolded
    PROVE  Good'
  <1>1. /\ phase = "run" /\ phase' = "compile" /\ frames = <<>> /\ ~err
        /\ UNCHANGED <<cmds, outer, at, scopes, frames, err>> /\ nodes' = nodes \o Assigned
        /\ known' = known \cup NewVars
    BY DEF CommandFolded
  <1>2. at \in Nat /\ at > 0 /\ at \in 1..Len(cmds) /\ Len(cmds) \in Nat /\ Base /\ Shape
    BY <1>1 DEF Good, Base
  <1>3. W' = RunSteps(outer, W, cmds[at])
    <2>1. W' = WrittenTo(at) /\ W = WrittenTo(at - 1)
      BY <1>1, WrittenThen DEF W
    <2>2. at - 1 \in Nat /\ at - 1 < Len(cmds) /\ (at - 1) + 1 = at
      BY <1>2
    <2> QED
      BY <1>2, <2>1, <2>2, OneWritten
  <1>4. scopes = <<V>> /\ V' = V /\ result = <<>> /\ OneValue
    BY <1>1, <1>2 DEF Shape, V
  <1>5. Last(scopes) = V /\ NewVars = DOMAIN V \ known /\ PoppedValue = calc[1]
    <2>1. Last(<<V>>) = V /\ Last(<<calc[1]>>) = calc[1] /\ <<calc[1]>> # <<>>
      BY DEF Last
    <2>2. Last(scopes) = V
      BY <1>4, <2>1
    <2>3. calc # <<>> /\ Last(calc) = calc[1]
      BY <1>4, <2>1 DEF OneValue
    <2> QED
      BY <2>2, <2>3 DEF NewVars, PoppedValue
  <1>6. /\ known \subseteq DOMAIN V /\ DOMAIN V \subseteq Names
        /\ \A n \in DOMAIN V : V[n] # Raise
    BY <1>2 DEF Shape
  <1>7. PICK S : nodes \in Seq(S)
    BY <1>2 DEF Base
  <1>8. PutAfter(outer, nodes, Assigned, NewVars, V) /\ \E T : Assigned \in Seq(T)
    <2>1. NewVars \subseteq Names /\ \A n \in NewVars : V[n] # Raise
      BY <1>5, <1>6
    <2>2. Fine(RunBlock(outer, nodes))
      BY <1>2 DEF Base, New
    <2> QED
      BY <1>5, <1>7, <2>1, <2>2, AssignedPut
  <1>9. New' = RunBlock(outer, nodes \o Assigned)
    BY <1>1 DEF New
  <1>10. /\ Puts(New', New, NewVars, V)
         /\ NewVars # {} => GivesOnly(New', Assigned[Len(Assigned)].value)
    BY <1>8, <1>9, Zenon DEF PutAfter, New
  <1>11. (\E U : nodes \in Seq(U))' /\ \A n : InCode(n) => InCode(n)'
    BY <1>1, <1>7, <1>8, CodeStays
  <1>12. cmds[at] \in Seq(Steps)
    BY <1>2, CommandsAre
  <1>13. GoesOn(W, W')
    BY <1>3, <1>12, StepsGoOnFrom
  <1>14. Base'
    <2>1. Fine(New') /\ Fine(W')
      BY <1>2, <1>10, <1>13, FineOn DEF Base, Puts
    <2>2. result' = <<>> \/ (result' = <<result'[1]>> /\ result'[1] # Raise)
      <3>1. CASE NewVars # {}
        BY <1>4, <3>1 DEF CommandFolded
      <3>2. CASE NewVars = {}
        <4>1. result' = <<calc[1]>>
          BY <1>5, <3>2 DEF CommandFolded
        <4> QED
          BY <1>4, <4>1 DEF OneValue
      <3> QED
        BY <3>1, <3>2
    <2> QED
      BY <1>1, <1>2, <1>11, <2>1, <2>2 DEF Base
  <1>15. known' = DOMAIN V
    BY <1>1, <1>5, <1>6
  <1>16. Shape'
    BY <1>1, <1>4, <1>6, <1>15 DEF Shape
  <1>17. odd' \cap {"left"} = odd \cap {"left"}
    BY DEF CommandFolded, Unless
  <1>18. CASE "left" \in odd
    <2>1. Behind(New, W, V, known)
      BY <1>18 DEF Good, LeftBe
    <2>2. New'.value = Raise /\ New'.calls = New.calls
      BY <1>5, <1>10, <2>1 DEF Behind, Puts
    <2>3. New.calls <= W.calls
      <3>1. New.calls \in Nat /\ W.calls \in Nat
        BY <1>2 DEF Base, Fine
      <3> QED
        BY <2>1, <3>1 DEF Behind, Alike
    <2>4. New'.calls <= W'.calls
      <3>1. New.calls \in Nat /\ W.calls \in Nat
        BY <1>2 DEF Base, Fine
      <3> QED
        BY <1>13, <2>2, <2>3, <3>1 DEF GoesOn
    <2>5. LeftBe'
      BY <2>2, <2>4 DEF LeftBe, Behind
    <2>6. ValueBe'
      BY <1>1, <2>2 DEF ValueBe, GivesOnly
    <2>7. "left" \in odd'
      BY <1>17, <1>18
    <2> QED
      BY <1>14, <1>16, <2>5, <2>6, <2>7 DEF Good
  <1>19. CASE "left" \notin odd
    <2>1. /\ Alike(New, W) /\ KnownBe
          /\ Meets(After(Len(cmds[at])), W, V, known)
          /\ Gives(After(Len(cmds[at])), W, V, known, calc[1])
      BY <1>1, <1>19 DEF Good, KeptBe, RunBe
    <2>2. Meets(W', W, V, known) /\ Gives(W', W, V, known, calc[1])
      BY <1>2, <1>3, <2>1, AfterTheLast
    <2>3. /\ Alike(New', W')
          /\ W'.value # Raise =>
                W.value # Raise /\ W'.value = calc[1] /\ W'.vars = Over(W.vars, V)
      <3>1. Fine(W) /\ Puts(New', New, DOMAIN V \ known, V)
        BY <1>2, <1>5, <1>10 DEF Base
      <3>2. W.value # Raise => \A n \in known : n \in DOMAIN W.vars /\ W.vars[n] = V[n]
        BY <2>1 DEF KnownBe
      <3> QED
        BY <1>13, <2>1, <2>2, <3>1, <3>2, AssignedAlike
    <2>4. KnownBe'
      <3> SUFFICES ASSUME W'.value # Raise
                   PROVE  /\ \A n \in DOMAIN V : n \in DOMAIN W'.vars /\ W'.vars[n] = V[n]
                          /\ \A n \in DOMAIN W'.vars : n \in DOMAIN V \/ InCode(n)'
        BY <1>4, <1>15 DEF KnownBe
      <3>1. W.value # Raise /\ W'.vars = Over(W.vars, V)
        BY <2>3
      <3>2. /\ DOMAIN W'.vars = DOMAIN W.vars \cup DOMAIN V
            /\ \A n \in DOMAIN V : W'.vars[n] = V[n]
        BY <3>1 DEF Over
      <3>3. \A n \in DOMAIN W.vars : n \in DOMAIN V \/ InCode(n)'
        BY <1>6, <1>11, <2>1, <3>1 DEF KnownBe
      <3> QED
        BY <3>2, <3>3
    <2>5. KeptBe'
      BY <1>1, <1>4, <1>15, <2>3, <2>4 DEF KeptBe
    <2>6. odd' \cap {"stale", "lost"} = {} => ValueBe'
      <3> SUFFICES ASSUME odd' \cap {"stale", "lost"} = {}  PROVE ValueBe'
        OBVIOUS
      <3>1. CASE W'.value = Raise
        BY <1>1, <2>3, <3>1 DEF ValueBe, GivesOnly, Alike
      <3>2. CASE W'.value # Raise /\ NewVars = {}
        <4>1. result' = <<calc[1]>> /\ W'.value = calc[1]
          BY <1>5, <2>3, <3>2 DEF CommandFolded
        <4> QED
          BY <1>1, <4>1 DEF ValueBe
      <3>3. CASE W'.value # Raise /\ NewVars # {}
        <4>1. result' = <<>> /\ W'.value = calc[1]
          BY <1>4, <2>3, <3>3 DEF CommandFolded
        <4>2. Last(Assigned).value = calc[1]
          BY <1>5, <3>3 DEF CommandFolded, Unless
        <4>3. GivesOnly(New', W'.value)
          BY <1>10, <3>3, <4>1, <4>2 DEF Last
        <4> QED
          BY <1>1, <4>1, <4>3 DEF ValueBe
      <3> QED
        BY <3>1, <3>2, <3>3
    <2>7. "left" \notin odd'
      BY <1>17, <1>19
    <2> QED
      BY <1>14, <1>16, <2>5, <2>6, <2>7 DEF Good
  <1> QED
    BY <1>18, <1>19

LEMMA BlockEndsGood ==
    ASSUME Good, Clean', BlockEnds
    PROVE  Good'
  <1> DEFINE last == [i \in DOMAIN result |-> Value(result[i])]
  <1>1. /\ phase = "compile" /\ phase' = "done" /\ at = Len(cmds) /\ nodes' = nodes \o last
        /\ UNCHANGED <<cmds, outer, at, scopes, frames, calc, err, known, result, odd>>
    BY DEF BlockEnds
  <1>2. Base /\ Shape
    BY DEF Good
  <1>3. W' = W /\ V' = V
    <2>1. W' = WrittenTo(at) /\ W = WrittenTo(at)
      BY <1>1, WrittenThen DEF W
    <2> QED
      BY <1>1, <2>1 DEF V
  <1>4. PICK S : nodes \in Seq(S)
    BY <1>2 DEF Base
  <1>5. Fine(New) /\ Fine(W)
    BY <1>2 DEF Base
  <1>6. /\ (\E U : nodes \in Seq(U))' /\ \A n : InCode(n) => InCode(n)'
        /\ New'.calls = New.calls /\ (New.value # Raise => New'.vars = New.vars) /\ Fine(New')
        /\ New'.value = IF result = <<>> \/ New.value = Raise THEN New.value ELSE result[1]
    <2>1. CASE result = <<>>
      <3>1. last = <<>>
        BY <2>1
      <3>2. nodes' = nodes
        BY <1>1, <1>4, <3>1
      <3> HIDE DEF last
      <3>3. New' = New
        BY <1>1, <3>2 DEF New
      <3> QED
        BY <1>4, <1>5, <2>1, <3>2, <3>3 DEF InCode
    <2>2. CASE result # <<>>
      <3>1. PICK v : v = result[1] /\ result = <<v>>
        BY <1>2, <2>2 DEF Base
      <3>2. DOMAIN result = {1} /\ result[1] = v
        BY <3>1
      <3> DEFINE n == Value(v)
      <3>3. last = <<n>>
        <4>1. last = [i \in {1} |-> n]
          BY <3>2
        <4> HIDE DEF n, last
        <4> QED
          BY <4>1
      <3> HIDE DEF last, n
      <3>4. nodes' = Append(nodes, n) /\ <<n>> \in Seq({n})
        BY <1>1, <1>4, <3>3
      <3>5. (\E U : nodes \in Seq(U))' /\ \A m : InCode(m) => InCode(m)'
        BY <1>1, <1>4, <3>3, <3>4, CodeStays
      <3>6. New' = RunNode(outer, New, n)
        <4>1. RunBlock(outer, Append(nodes, n)) = RunNode(outer, RunBlock(outer, nodes), n)
          BY <1>4, RunAppended
        <4> QED
          BY <1>1, <3>4, <4>1 DEF New
      <3>7. New' = IF New.value = Raise THEN New ELSE Stands(New.vars, v, New.calls)
        BY <3>6, ValueRuns DEF n
      <3>8. CASE New.value = Raise
        BY <1>5, <3>5, <3>7, <3>8
      <3>9. CASE New.value # Raise
        <4>1. New'.vars = New.vars /\ New'.value = v /\ New'.calls = New.calls
          BY <3>7, <3>9, StandsAs
        <4>2. Fine(New')
          BY <1>5, <4>1 DEF Fine
        <4> QED
          BY <2>2, <3>1, <3>5, <3>9, <4>1, <4>2
      <3> QED
        BY <3>8, <3>9
    <2> QED
      BY <2>1, <2>2
  <1> HIDE DEF last
  <1>7. New'.value = Raise <=> New.value = Raise
    BY <1>2, <1>6 DEF Base
  <1>8. Base'
    BY <1>1, <1>2, <1>3, <1>5, <1>6 DEF Base
  <1>9. Shape'
    BY <1>1, <1>2, <1>3 DEF Shape
  <1>10. odd' \cap {"stale", "lost"} = {} => ValueBe'
    <2> SUFFICES ASSUME ValueBe  PROVE ValueBe'
      BY <1>1 DEF Good
    <2>1. New'.value = Raise \/ New'.value = W.value
      BY <1>1, <1>6, <1>7 DEF ValueBe, GivesOnly
    <2> QED
      BY <1>1, <1>3, <2>1 DEF ValueBe, GivesOnly
  <1>11. CASE "left" \in odd
    <2>1. Behind(New, W, V, known)
      BY <1>11 DEF Good, LeftBe
    <2>2. Behind(New', W, V, known)
      BY <1>6, <1>7, <2>1 DEF Behind, Alike
    <2>3. LeftBe'
      BY <1>1, <1>3, <2>2 DEF LeftBe
    <2> QED
      BY <1>1, <1>8, <1>9, <1>10, <1>11, <2>3 DEF Good
  <1>12. CASE "left" \notin odd
    <2>1. Alike(New, W) /\ (frames = <<>> => KnownBe)
      BY <1>12 DEF Good, KeptBe
    <2>2. Alike(New', W')
      BY <1>3, <1>6, <1>7, <2>1 DEF Alike
    <2>3. frames' = <<>> => KnownBe'
      BY <1>1, <1>3, <1>6, <2>1 DEF KnownBe
    <2>4. KeptBe'
      BY <1>1, <2>2, <2>3 DEF KeptBe
    <2> QED
      BY <1>1, <1>8, <1>9, <1>10, <1>12, <2>4 DEF Good
  <1> QED
    BY <1>11, <1>12

LEMMA InitGood ==
    ASSUME Init
    PROVE  FoldInv
  <1>1. /\ at = 0 /\ scopes = <<NoVars>> /\ frames = <<>> /\ err = FALSE /\ known = {}
        /\ result = <<>> /\ nodes = <<>> /\ phase = "compile" /\ odd = {}
    BY DEF Init
  <1>2. cmds \in Seq(Commands)
    <2>1. PICK n \in 1..MaxCommands : cmds \in [1..n -> Commands]
      BY DEF Init
    <2>2. MaxCommands \in Nat
      BY ConstFoldAssumption, Zenon
    <2>3. n \in Nat
      BY <2>2
    <2> QED
      BY <2>1, <2>3
  <1>3. DOMAIN outer = DOMAIN Global
    <2>1. DOMAIN Global = {"g"}
      BY DEF Global
    <2> QED
      BY <2>1 DEF Init
  <1> DEFINE start == Stands(NoVars, "null", 0)
  <1>4. New = start /\ W = start
    <2>1. Len(nodes) = 0 /\ Len(Block(0)) = 0
      BY <1>1 DEF Block
    <2>2. New = start
      BY <2>1, NoNodes DEF New
    <2>3. W = WrittenTo(0)
      BY <1>1 DEF W
    <2>4. WrittenTo(0) = start
      BY <2>1, NoNodes DEF WrittenTo
    <2> QED
      BY <2>2, <2>3, <2>4
  <1>5. start.vars = NoVars /\ start.calls = 0 /\ start.value # Raise
    <2>1. "null" # Raise
      BY DEF Raise
    <2>2. start.vars = NoVars /\ start.calls = 0 /\ start.value = "null"
      BY StandsAs
    <2> QED
      BY <2>1, <2>2
  <1> HIDE DEF start
  <1>6. V = NoVars /\ DOMAIN NoVars = {}
    BY <1>1 DEF V, NoVars
  <1>7. Fine(start)
    <2>1. IsFcn(NoVars)
      BY DEF IsFcn, NoVars
    <2>2. Nameless(NoVars)
      BY <1>6, Zenon DEF Nameless
    <2> QED
      BY <1>5, <2>1, <2>2 DEF Fine
  <1>8. Base
    <2>1. \E S : nodes \in Seq(S)
      <3>1. nodes \in Seq({})
        BY <1>1
      <3> QED
        BY <3>1
    <2>2. 0 \in 0..Len(cmds)
      BY <1>2
    <2> QED
      BY <1>1, <1>2, <1>3, <1>4, <1>7, <2>1, <2>2 DEF Base
  <1>9. Shape
    BY <1>1, <1>6 DEF Shape
  <1>10. KeptBe
    <2>1. Alike(New, W)
      BY <1>4 DEF Alike
    <2>2. KnownBe
      BY <1>1, <1>4, <1>5, <1>6 DEF KnownBe
    <2> QED
      BY <1>1, <1>6, <2>1, <2>2 DEF KeptBe
  <1>11. ValueBe
    BY <1>1, <1>4 DEF ValueBe, GivesOnly
  <1> QED
    BY <1>1, <1>8, <1>9, <1>10, <1>11 DEF FoldInv, Good

LEMMA StutterGood ==
    ASSUME FoldInv, UNCHANGED vars
    PROVE  FoldInv'
  <1>1. /\ UNCHANGED <<cmds, outer, at, scopes, frames, calc, err, known, result, nodes, phase, odd>>
    BY DEF vars
  <1>2. W' = W /\ New' = New /\ V' = V /\ K' = K
    BY <1>1 DEF W, WrittenTo, Block, New, V, K
  <1>3. Base' = Base /\ OneValue' = OneValue
    BY <1>1, <1>2, Zenon DEF Base, OneValue
  <1>4. OnFrame' = OnFrame
    BY <1>1, <1>2, <1>3, Zenon DEF OnFrame
  <1>5. Shape' = Shape
    BY <1>1, <1>2, <1>3, <1>4, Zenon DEF Shape
  <1>6. KnownBe' = KnownBe
    BY <1>1, <1>2 DEF KnownBe, InCode
  <1>7. RunBe' = RunBe
    BY <1>1, <1>2, Zenon DEF RunBe, After
  <1>8. KeptBe' = KeptBe /\ LeftBe' = LeftBe /\ ValueBe' = ValueBe
    BY <1>1, <1>2, <1>6, <1>7, Zenon DEF KeptBe, LeftBe, ValueBe
  <1> QED
    BY <1>1, <1>3, <1>5, <1>8, Zenon DEF FoldInv, Clean, Good

\* A command run on top of one given up, or one that has seen another global, is not forgotten.
LEMMA CleanBefore ==
    ASSUME Next, Clean'
    PROVE  Clean
  BY DEF Next, Clean, KeepCommand, BeginCommand, Return, RunsStep, StepFails, StepsDone, GiveUp,
         CommandFailed, CommandFolded, BlockEnds

LEMMA NextGood ==
    ASSUME FoldInv, Next
    PROVE  FoldInv'
  <1> SUFFICES ASSUME Clean'  PROVE Good'
    BY DEF FoldInv
  <1>1. Good
    BY CleanBefore DEF FoldInv
  <1> QED
    BY <1>1, KeepCommandGood, BeginCommandGood, NoReturn, RunsStepGood, StepFailsGood,
       StepsDoneGood, GiveUpGood, CommandFailedGood, CommandFoldedGood, BlockEndsGood DEF Next

-----------------------------------------------------------------------------
(* Theorems.                                                                 *)

\* Whatever block is compiled, and whatever of it is executed, fails or is given up: the
\* invariant that relates the new block, the compiler's machine and the commands holds.
THEOREM FoldInvariant == Spec => []FoldInv
  <1>1. Init => FoldInv
    BY InitGood
  <1>2. FoldInv /\ [Next]_vars => FoldInv'
    BY NextGood, StutterGood
  <1> QED
    BY <1>1, <1>2, PTL DEF Spec

LEMMA DoneIsWritten ==
    ASSUME Base, phase = "done"
    PROVE  W = Written
  <1>1. at = Len(cmds) /\ DOMAIN cmds = 1..Len(cmds)
    BY DEF Base
  <1> QED
    BY <1>1 DEF W, WrittenTo, Block, Written

\* A block that nothing odd has happened to does what its commands do.
THEOREM FoldsFaithfully == Spec => []FoldedSame
  <1>1. ASSUME FoldInv  PROVE FoldedSame
    <2> SUFFICES ASSUME phase = "done", odd = {}  PROVE Same
      BY DEF FoldedSame
    <2>1. Good
      BY <1>1 DEF FoldInv, Clean
    <2>2. Alike(New, W) /\ GivesOnly(New, W.value) /\ Base
      BY <2>1 DEF Good, KeptBe, ValueBe
    <2>3. W = Written
      BY <2>2, DoneIsWritten
    <2> QED
      BY <2>2, <2>3 DEF Same, Alike, GivesOnly
  <1> QED
    BY <1>1, FoldInvariant, PTL

\* A variable left on the compiler's machine makes the block raise at worst.
THEOREM LeftOnlyRaises == Spec => []OnlyRaises
  <1>1. ASSUME FoldInv  PROVE OnlyRaises
    <2> SUFFICES ASSUME phase = "done", odd \subseteq {"left"}
                 PROVE  Same \/ (New.value = Raise /\ New.calls <= Written.calls)
      BY DEF OnlyRaises
    <2>1. Good /\ odd \cap {"stale", "lost"} = {}
      BY <1>1 DEF FoldInv, Clean
    <2>2. GivesOnly(New, W.value) /\ Base
      BY <2>1 DEF Good, ValueBe
    <2>3. W = Written
      BY <2>2, DoneIsWritten
    <2>4. Alike(New, W) \/ (New.value = Raise /\ New.calls <= W.calls)
      BY <2>1 DEF Good, KeptBe, LeftBe, Behind
    <2> QED
      BY <2>2, <2>3, <2>4 DEF Same, Alike, GivesOnly
  <1> QED
    BY <1>1, FoldInvariant, PTL

\* A result that stays or is dropped changes nothing but the value.
THEOREM LostIsOnlyTheValue == Spec => []OnlyValueDiffers
  <1>1. ASSUME FoldInv  PROVE OnlyValueDiffers
    <2> SUFFICES ASSUME phase = "done", odd \subseteq {"stale", "lost"}
                 PROVE  Alike(New, Written)
      BY DEF OnlyValueDiffers
    <2>1. Good /\ "left" \notin odd
      BY <1>1 DEF FoldInv, Clean
    <2>2. Alike(New, W) /\ Base
      BY <2>1 DEF Good, KeptBe
    <2>3. W = Written
      BY <2>2, DoneIsWritten
    <2> QED
      BY <2>2, <2>3
  <1> QED
    BY <1>1, FoldInvariant, PTL
=============================================================================
