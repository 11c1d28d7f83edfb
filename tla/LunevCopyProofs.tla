-------------------------- MODULE LunevCopyProofs --------------------------
(***************************************************************************)
(* Proofs about the two programs of Lunev/ that copy a file by many hands: *)
(* shmem, where any step may be the last one and what a killed run leaves  *)
(* in the segment and the semaphores meets the next, and the chain of      *)
(* select.  At the end, with LunevProofs, what holds of all the programs.  *)
(***************************************************************************)
EXTENDS LunevProofs

-----------------------------------------------------------------------------
(* shmem: the semaphores.  What semop() does with a list of operations, one  *)
(* after the other.                                                          *)

Outcome(x, s, u) == [outcome |-> x, sem |-> s, undo |-> u]

Applied(r, o) ==
    IF r.outcome # "done" THEN r
    ELSE IF \/ o.delta = 0 /\ r.sem[o.sem] # 0
            \/ r.sem[o.sem] + o.delta < 0
    THEN [r EXCEPT !.outcome = IF o.nowait THEN "fails" ELSE "waits"]
    ELSE [r EXCEPT !.sem[o.sem] = @ + o.delta,
                   !.undo[o.sem] = IF o.undo THEN @ - o.delta ELSE @]

After1(a, ops) == Applied(a, ops[1])

After2(a, ops) == Applied(After1(a, ops), ops[2])

After3(a, ops) == Applied(After2(a, ops), ops[3])

After4(a, ops) == Applied(After3(a, ops), ops[4])

After5(a, ops) == Applied(After4(a, ops), ops[5])

LEMMA TryIs ==
  ASSUME NEW p, NEW ops, NEW l \in 0 .. 5, Len(ops) = l
  PROVE  LET a == Outcome("done", sem, undo[p])
         IN /\ l = 1 => Shmem!Try(p, ops) = After1(a, ops)
            /\ l = 2 => Shmem!Try(p, ops) = After2(a, ops)
            /\ l = 3 => Shmem!Try(p, ops) = After3(a, ops)
            /\ l = 5 => Shmem!Try(p, ops) = After5(a, ops)
<1> DEFINE a == Outcome("done", sem, undo[p])
           Body(g) == [n \in 0 .. l |-> IF n = 0 THEN a ELSE Applied(g[n - 1], ops[n])]
           h == CHOOSE g : g = Body(g)
           v1 == After1(a, ops)  v2 == After2(a, ops)  v3 == After3(a, ops)
           v4 == After4(a, ops)  v5 == After5(a, ops)
           f == [n \in 0 .. l |-> IF n = 0 THEN a ELSE IF n = 1 THEN v1 ELSE IF n = 2 THEN v2
                                  ELSE IF n = 3 THEN v3 ELSE IF n = 4 THEN v4 ELSE v5]
<1>1. Shmem!Try(p, ops) = h[l]
  BY DEF Shmem!Try, Applied, Outcome
<1>2. /\ v1 = Applied(a, ops[1]) /\ v2 = Applied(v1, ops[2]) /\ v3 = Applied(v2, ops[3])
      /\ v4 = Applied(v3, ops[4]) /\ v5 = Applied(v4, ops[5])
  BY DEF After1, After2, After3, After4, After5
<1>0. l \in Nat /\ l <= 5
  OBVIOUS
<1> HIDE DEF a, v1, v2, v3, v4, v5
<1>3. f = Body(f)
  <2>1. ASSUME NEW n \in 0 .. l PROVE f[n] = IF n = 0 THEN a ELSE Applied(f[n - 1], ops[n])
    <3>1. n = 0 \/ n = 1 \/ n = 2 \/ n = 3 \/ n = 4 \/ n = 5
      BY <1>0
    <3>2. n # 0 => n - 1 \in 0 .. l
      BY <1>0
    <3>3. CASE n = 0
      BY <3>3
    <3>4. CASE n = 1
      BY <1>2, <3>2, <3>4
    <3>5. CASE n = 2
      BY <1>2, <3>2, <3>5
    <3>6. CASE n = 3
      BY <1>2, <3>2, <3>6
    <3>7. CASE n = 4
      BY <1>2, <3>2, <3>7
    <3>8. CASE n = 5
      BY <1>2, <3>2, <3>8
    <3> QED
      BY <3>1, <3>3, <3>4, <3>5, <3>6, <3>7, <3>8
  <2> QED
    BY <2>1
<1>4. h = Body(h)
  <2> HIDE DEF f, Body
  <2> QED
    BY <1>3
<1> HIDE DEF h, f
<1>5. \A n \in 0 .. l : h[n] = IF n = 0 THEN a ELSE Applied(h[n - 1], ops[n])
  BY <1>4
<1>6. l >= 1 => h[1] = v1
  BY <1>0, <1>2, <1>5
<1>7. l >= 2 => h[2] = v2
  BY <1>0, <1>2, <1>5, <1>6
<1>8. l >= 3 => h[3] = v3
  BY <1>0, <1>2, <1>5, <1>7
<1>9. l >= 4 => h[4] = v4
  BY <1>0, <1>2, <1>5, <1>8
<1>10. l >= 5 => h[5] = v5
  BY <1>0, <1>2, <1>5, <1>9
<1>11. /\ l = 1 => Shmem!Try(p, ops) = v1
       /\ l = 2 => Shmem!Try(p, ops) = v2
       /\ l = 3 => Shmem!Try(p, ops) = v3
       /\ l = 5 => Shmem!Try(p, ops) = v5
  BY <1>1, <1>6, <1>7, <1>8, <1>10
<1> QED
  BY <1>11 DEF a, v1, v2, v3, v5

Replaces(s, u, s2, u2) ==
    Outcome("done", s2, u2) = [Outcome("done", s, u) EXCEPT !.sem = s2, !.undo = u2]

LEMMA Replaced ==
  ASSUME NEW s, NEW u, NEW s2, NEW u2
  PROVE  Replaces(s, u, s2, u2)
<1> DEFINE r == Outcome("done", s2, u2)
           q == [Outcome("done", s, u) EXCEPT !.sem = s2, !.undo = u2]
<1>1. /\ r = [outcome |-> "done", sem |-> s2, undo |-> u2]
      /\ q = [[outcome |-> "done", sem |-> s, undo |-> u] EXCEPT !.sem = s2, !.undo = u2]
  BY DEF Outcome
<1> HIDE DEF r, q
<1>2. r.outcome = q.outcome /\ r.sem = q.sem /\ r.undo = q.undo
  BY <1>1
<1>3. r = q
  BY <1>1, <1>2
<1> QED
  BY <1>3 DEF r, q, Replaces

O(k, d, un, nw) == [sem |-> k, delta |-> d, undo |-> un, nowait |-> nw]

Stops(s, k, d) == (d = 0 /\ s[k] # 0) \/ s[k] + d < 0

OneStep(s, u, k, d, un, nw) ==
    Applied(Outcome("done", s, u), O(k, d, un, nw)) =
        IF Stops(s, k, d) THEN Outcome(IF nw THEN "fails" ELSE "waits", s, u)
        ELSE Outcome("done", [s EXCEPT ![k] = @ + d], IF un THEN [u EXCEPT ![k] = @ - d] ELSE u)

\* An operation goes through, or stops the list.
LEMMA OneOperation ==
  ASSUME NEW s \in [Shmem!Semaphores -> Int], NEW u \in [Shmem!Semaphores -> Int],
         NEW k \in Shmem!Semaphores, NEW d \in Int, NEW un \in BOOLEAN, NEW nw \in BOOLEAN
  PROVE  OneStep(s, u, k, d, un, nw)
<1> DEFINE o == [sem |-> k, delta |-> d, undo |-> un, nowait |-> nw]
      r == Outcome("done", s, u)
<1>1. /\ r.outcome = "done" /\ r.sem = s /\ r.undo = u
      /\ o.sem = k /\ o.delta = d /\ o.undo = un /\ o.nowait = nw
  BY DEF Outcome
<1>2. CASE (d = 0 /\ s[k] # 0) \/ s[k] + d < 0
  <2>1. Applied(r, o) = [r EXCEPT !.outcome = IF nw THEN "fails" ELSE "waits"]
    BY <1>1, <1>2 DEF Applied
  <2> QED
    BY <1>2, <2>1 DEF Outcome, OneStep, O, Stops
<1>3. CASE ~((d = 0 /\ s[k] # 0) \/ s[k] + d < 0)
  <2> DEFINE y == IF un THEN u[k] - d ELSE u[k]
  <2>1. Applied(r, o) = [r EXCEPT !.sem[k] = @ + d, !.undo[k] = IF un THEN @ - d ELSE @]
    BY <1>1, <1>3 DEF Applied
  <2>2. [u EXCEPT ![k] = y] = IF un THEN [u EXCEPT ![k] = @ - d] ELSE u
    OBVIOUS
  <2>3. [r EXCEPT !.sem[k] = @ + d, !.undo[k] = IF un THEN @ - d ELSE @]
        = Outcome("done", [s EXCEPT ![k] = @ + d], [u EXCEPT ![k] = y])
    <3> DEFINE s2 == [s EXCEPT ![k] = s[k] + d]  u2 == [u EXCEPT ![k] = y]
    <3>1. Outcome("done", s2, u2) = [Outcome("done", s, u) EXCEPT !.sem = s2, !.undo = u2]
      <4>1. Replaces(s, u, s2, u2)
        BY Replaced
      <4> QED
        BY <4>1 DEF Replaces
    <3> QED
      BY <1>1, <3>1
  <2> QED
    BY <1>3, <2>1, <2>2, <2>3 DEF OneStep, O, Stops
<1> QED
  BY <1>2, <1>3

LEMMA NoMore ==
  ASSUME NEW s, NEW u, NEW x, x # "done", NEW o
  PROVE  Applied(Outcome(x, s, u), o) = Outcome(x, s, u)
BY DEF Applied, Outcome

-----------------------------------------------------------------------------
(* The lists of operations the two programs use. *)

Plus(s, k, d) == [s EXCEPT ![k] = @ + d]

LEMMA PlusIs ==
  ASSUME NEW K, NEW s \in [K -> Int], NEW k \in K, NEW d \in Int
  PROVE  /\ Plus(s, k, d) \in [K -> Int] /\ Plus(s, k, d)[k] = s[k] + d
         /\ \A j \in K : j # k => Plus(s, k, d)[j] = s[j]
BY DEF Plus

LEMMA PlusBack ==
  ASSUME NEW K, NEW s \in [K -> Int], NEW k \in K, NEW d \in Int, NEW e \in Int, d + e = 0
  PROVE  Plus(Plus(s, k, d), k, e) = s
<1> DEFINE t == Plus(s, k, d)  v == Plus(t, k, e)
<1>1. t \in [K -> Int] /\ t[k] = s[k] + d /\ \A j \in K : j # k => t[j] = s[j]
  BY PlusIs
<1> HIDE DEF t
<1>2. v \in [K -> Int] /\ v[k] = t[k] + e /\ \A j \in K : j # k => v[j] = t[j]
  BY <1>1, PlusIs
<1> HIDE DEF v
<1>3. \A j \in K : v[j] = s[j]
  <2>1. v[k] = s[k]
    BY <1>1, <1>2
  <2> QED
    BY <1>1, <1>2, <2>1
<1>4. v = s
  BY <1>2, <1>3
<1> QED
  BY <1>4 DEF v, t

LEMMA OpStops ==
  ASSUME NEW s \in [Shmem!Semaphores -> Int], NEW u \in [Shmem!Semaphores -> Int],
         NEW k \in Shmem!Semaphores, NEW d \in Int, NEW un \in BOOLEAN, NEW nw \in BOOLEAN,
         Stops(s, k, d)
  PROVE  Applied(Outcome("done", s, u), O(k, d, un, nw))
         = Outcome(IF nw THEN "fails" ELSE "waits", s, u)
<1>1. OneStep(s, u, k, d, un, nw)
  BY OneOperation
<1> QED
  BY <1>1 DEF OneStep

LEMMA OpGoes ==
  ASSUME NEW s \in [Shmem!Semaphores -> Int], NEW u \in [Shmem!Semaphores -> Int],
         NEW k \in Shmem!Semaphores, NEW d \in Int, NEW nw \in BOOLEAN,
         ~Stops(s, k, d)
  PROVE  Applied(Outcome("done", s, u), O(k, d, FALSE, nw)) = Outcome("done", Plus(s, k, d), u)
<1> DEFINE x == Applied(Outcome("done", s, u), O(k, d, FALSE, nw))
<1>1. OneStep(s, u, k, d, FALSE, nw)
  BY OneOperation
<1>2. x = Outcome("done", [s EXCEPT ![k] = @ + d], u)
  BY <1>1 DEF OneStep
<1> QED
  BY <1>2 DEF x, Plus

LEMMA OpGoesUndone ==
  ASSUME NEW s \in [Shmem!Semaphores -> Int], NEW u \in [Shmem!Semaphores -> Int],
         NEW k \in Shmem!Semaphores, NEW d \in Int, NEW e \in Int, d + e = 0,
         ~Stops(s, k, d)
  PROVE  Applied(Outcome("done", s, u), O(k, d, TRUE, FALSE))
         = Outcome("done", Plus(s, k, d), Plus(u, k, e))
<1> DEFINE x == Applied(Outcome("done", s, u), O(k, d, TRUE, FALSE))
<1>1. OneStep(s, u, k, d, TRUE, FALSE)
  BY OneOperation
<1>2. x = Outcome("done", [s EXCEPT ![k] = @ + d], [u EXCEPT ![k] = @ - d])
  BY <1>1 DEF OneStep
<1>3. [u EXCEPT ![k] = @ - d] = [u EXCEPT ![k] = @ + e]
  <2>1. u[k] - d = u[k] + e
    OBVIOUS
  <2> QED
    BY <2>1
<1> QED
  BY <1>2, <1>3 DEF x, Plus

LEMMA Operations ==
  ASSUME NEW k, NEW d
  PROVE  /\ Shmem!Op(k, d) = O(k, d, FALSE, FALSE)
         /\ Shmem!NoWait(Shmem!Op(k, d)) = O(k, d, FALSE, TRUE)
         /\ Shmem!Undone(Shmem!Op(k, d)) = O(k, d, TRUE, FALSE)
<1>1. Shmem!Op(k, d) = O(k, d, FALSE, FALSE)
  BY DEF Shmem!Op, O
<1> DEFINE x == Shmem!NoWait(Shmem!Op(k, d))  y == O(k, d, FALSE, TRUE)
           v == Shmem!Undone(Shmem!Op(k, d))  w == O(k, d, TRUE, FALSE)
<1>2. /\ x = [[sem |-> k, delta |-> d, undo |-> FALSE, nowait |-> FALSE] EXCEPT !.nowait = TRUE]
      /\ y = [sem |-> k, delta |-> d, undo |-> FALSE, nowait |-> TRUE]
      /\ v = [[sem |-> k, delta |-> d, undo |-> FALSE, nowait |-> FALSE] EXCEPT !.undo = TRUE]
      /\ w = [sem |-> k, delta |-> d, undo |-> TRUE, nowait |-> FALSE]
  BY DEF Shmem!NoWait, Shmem!Undone, Shmem!Op, O
<1> HIDE DEF x, y, v, w
<1>3. x.sem = y.sem /\ x.delta = y.delta /\ x.undo = y.undo /\ x.nowait = y.nowait
  BY <1>2
<1>4. v.sem = w.sem /\ v.delta = w.delta /\ v.undo = w.undo /\ v.nowait = w.nowait
  BY <1>2
<1>5. x = y
  BY <1>2, <1>3
<1>6. v = w
  BY <1>2, <1>4
<1> QED
  BY <1>1, <1>5, <1>6 DEF x, y, v, w

LEMMA Five ==
  ASSUME NEW a, NEW b, NEW c
  PROVE  LET l == <<a, b>> \o <<c>> \o <<a, b>>
         IN Len(l) = 5 /\ l[1] = a /\ l[2] = b /\ l[3] = c /\ l[4] = a /\ l[5] = b
<1> DEFINE S == {a, b, c}  x == <<a, b>>  y == <<c>>  l == x \o y \o x
<1>1. x \in Seq(S) /\ y \in Seq(S) /\ Len(x) = 2 /\ Len(y) = 1
      /\ x[1] = a /\ x[2] = b /\ y[1] = c
  OBVIOUS
<1> HIDE DEF x, y, S
<1>2. /\ x \o y \in Seq(S) /\ Len(x \o y) = 3
      /\ (x \o y)[1] = a /\ (x \o y)[2] = b /\ (x \o y)[3] = c
  BY <1>1, ConcatProperties
<1>3. Len(l) = 5 /\ l[1] = a /\ l[2] = b /\ l[3] = c /\ l[4] = a /\ l[5] = b
  BY <1>1, <1>2, ConcatProperties
<1> QED
  BY <1>3 DEF x, y

LEMMA Three ==
  ASSUME NEW a, NEW b, NEW c
  PROVE  LET l == <<a, b>> \o <<c>>
         IN Len(l) = 3 /\ l[1] = a /\ l[2] = b /\ l[3] = c
<1> DEFINE S == {a, b, c}  x == <<a, b>>  y == <<c>>
<1>1. x \in Seq(S) /\ y \in Seq(S) /\ Len(x) = 2 /\ Len(y) = 1
      /\ x[1] = a /\ x[2] = b /\ y[1] = c
  OBVIOUS
<1> HIDE DEF x, y, S
<1>2. Len(x \o y) = 3 /\ (x \o y)[1] = a /\ (x \o y)[2] = b /\ (x \o y)[3] = c
  BY <1>1, ConcatProperties
<1> QED
  BY <1>2 DEF x, y

AliveTest == O(4, -2, FALSE, TRUE)

AliveBack == O(4, 2, FALSE, FALSE)

LEMMA Numbers == /\ 4 \in Shmem!Semaphores /\ 0 \in Shmem!Semaphores /\ 1 \in Shmem!Semaphores
                 /\ 2 \in Shmem!Semaphores /\ 3 \in Shmem!Semaphores
                 /\ \A k \in Shmem!Semaphores : k = 0 \/ k = 1 \/ k = 2 \/ k = 3 \/ k = 4
BY DEF Shmem!Semaphores

LEMMA PlusSem ==
  ASSUME NEW s \in [Shmem!Semaphores -> Int], NEW k \in Shmem!Semaphores, NEW d \in Int
  PROVE  /\ Plus(s, k, d) \in [Shmem!Semaphores -> Int] /\ Plus(s, k, d)[k] = s[k] + d
         /\ \A j \in Shmem!Semaphores : j # k => Plus(s, k, d)[j] = s[j]
BY PlusIs

LEMMA Minus == -2 \in Int /\ -2 # 0 /\ (\A n \in Int : n + -2 < 0 <=> n < 2) /\ -2 + 2 = 0
OBVIOUS

LEMMA BothAliveTest ==
  ASSUME NEW s \in [Shmem!Semaphores -> Int], NEW u \in [Shmem!Semaphores -> Int]
  PROVE  LET a == Outcome("done", s, u)
         IN /\ s[4] < 2 => Applied(a, AliveTest) = Outcome("fails", s, u)
            /\ s[4] >= 2 => Applied(Applied(a, AliveTest), AliveBack) = a
<1> DEFINE a == Outcome("done", s, u)  t == Plus(s, 4, -2)
<1>1. CASE s[4] < 2
  <2>1. Stops(s, 4, -2)
    BY <1>1, Numbers, Minus DEF Stops
  <2>2. Applied(a, O(4, -2, FALSE, TRUE)) = Outcome(IF TRUE THEN "fails" ELSE "waits", s, u)
    <3>1. 4 \in Shmem!Semaphores /\ -2 \in Int /\ TRUE \in BOOLEAN /\ FALSE \in BOOLEAN
      BY Numbers
    <3> QED
      BY <2>1, <3>1, OpStops, Zenon
  <2> QED
    <3>1. Applied(a, AliveTest) = Outcome("fails", s, u)
      BY <2>2 DEF AliveTest
    <3>2. ~(s[4] >= 2)
      BY <1>1, Numbers
    <3> QED
      BY <3>1, <3>2
<1>2. CASE s[4] >= 2
  <2>1. ~Stops(s, 4, -2)
    BY <1>2, Numbers, Minus DEF Stops
  <2>0. 4 \in Shmem!Semaphores /\ -2 \in Int /\ 2 \in Int /\ TRUE \in BOOLEAN /\ FALSE \in BOOLEAN
    BY Numbers
  <2>2. Applied(a, AliveTest) = Outcome("done", t, u)
    BY <2>0, <2>1, OpGoes, Zenon DEF AliveTest
  <2>3. t \in [Shmem!Semaphores -> Int] /\ t[4] = s[4] + -2
    BY <2>0, PlusSem, Zenon
  <2>4. Plus(t, 4, 2) = s
    BY Numbers, PlusBack
  <2> HIDE DEF t
  <2>5. ~Stops(t, 4, 2)
    BY <1>2, <2>3, Numbers DEF Stops
  <2>6. Applied(Outcome("done", t, u), AliveBack) = Outcome("done", Plus(t, 4, 2), u)
    BY <2>0, <2>3, <2>5, OpGoes, Zenon DEF AliveBack
  <2> QED
    BY <1>2, <2>2, <2>4, <2>6, Numbers
<1> QED
  BY <1>1, <1>2

Typed(p) == sem \in [Shmem!Semaphores -> Int] /\ undo[p] \in [Shmem!Semaphores -> Int]

LEMMA TransferTry ==
  ASSUME NEW p, Typed(p), NEW k \in {0, 1}, NEW d \in {-1, 1}
  PROVE  Shmem!Try(p, Shmem!WhileAlive(k, d)) =
            IF sem[4] < 2 THEN Outcome("fails", sem, undo[p])
            ELSE IF sem[k] + d < 0 THEN Outcome("waits", sem, undo[p])
            ELSE Outcome("done", Plus(sem, k, d), undo[p])
<1> DEFINE ops == Shmem!WhileAlive(k, d)  u == undo[p]  a == Outcome("done", sem, u)
           w == Plus(sem, k, d)  c == O(k, d, FALSE, FALSE)
<1>1. ops = <<AliveTest, AliveBack>> \o <<c>> \o <<AliveTest, AliveBack>>
  BY Operations DEF Shmem!WhileAlive, Shmem!BothAlive, Shmem!Alive, AliveTest, AliveBack
<1>2. /\ Len(ops) = 5 /\ ops[1] = AliveTest /\ ops[2] = AliveBack /\ ops[3] = c
      /\ ops[4] = AliveTest /\ ops[5] = AliveBack
  <2> HIDE DEF c, ops
  <2> QED
    BY <1>1, Five
<1>3. Shmem!Try(p, ops) =
         Applied(Applied(Applied(Applied(Applied(a, AliveTest), AliveBack), c), AliveTest), AliveBack)
  <2>1. Shmem!Try(p, ops) = After5(a, ops)
    BY <1>2, TryIs
  <2> HIDE DEF ops, c, a
  <2> QED
    BY <1>2, <2>1 DEF After1, After2, After3, After4, After5
<1>4. /\ k \in Shmem!Semaphores /\ k # 4 /\ d # 0 /\ d \in Int /\ sem[4] \in Int /\ sem[k] \in Int
      /\ u \in [Shmem!Semaphores -> Int] /\ sem \in [Shmem!Semaphores -> Int]
  BY Numbers DEF Typed
<1> HIDE DEF ops, u
<1>5. CASE sem[4] < 2
  <2>1. Applied(a, AliveTest) = Outcome("fails", sem, u)
    BY <1>4, <1>5, BothAliveTest
  <2> HIDE DEF c, a
  <2> QED
    BY <1>3, <1>5, <2>1, NoMore DEF ops, u
<1>6. CASE ~(sem[4] < 2) /\ sem[k] + d < 0
  <2>1. Applied(Applied(a, AliveTest), AliveBack) = a
    BY <1>4, <1>6, BothAliveTest
  <2>2. Stops(sem, k, d)
    BY <1>4, <1>6 DEF Stops
  <2>3. Applied(a, c) = Outcome(IF FALSE THEN "fails" ELSE "waits", sem, u)
    BY <1>4, <2>2, OpStops
  <2> HIDE DEF c, a
  <2> QED
    BY <1>3, <1>6, <2>1, <2>3, NoMore DEF ops, u
<1>7. CASE ~(sem[4] < 2) /\ ~(sem[k] + d < 0)
  <2>1. Applied(Applied(a, AliveTest), AliveBack) = a
    BY <1>4, <1>7, BothAliveTest
  <2>2. ~Stops(sem, k, d)
    BY <1>4, <1>7 DEF Stops
  <2>3. Applied(a, c) = Outcome("done", w, u)
    BY <1>4, <2>2, OpGoes
  <2>4. w \in [Shmem!Semaphores -> Int] /\ w[4] = sem[4]
    <3>1. 4 \in Shmem!Semaphores /\ 4 # k
      BY <1>4, Numbers
    <3>2. w \in [Shmem!Semaphores -> Int] /\ \A j \in Shmem!Semaphores : j # k => w[j] = sem[j]
      BY <1>4, PlusSem, Zenon
    <3> QED
      BY <3>1, <3>2
  <2>5. Applied(Applied(Outcome("done", w, u), AliveTest), AliveBack) = Outcome("done", w, u)
    <3> HIDE DEF w
    <3> QED
      BY <1>4, <1>7, <2>4, BothAliveTest
  <2> HIDE DEF c, a
  <2> QED
    BY <1>3, <1>7, <2>1, <2>3, <2>5 DEF ops, u
<1> QED
  BY <1>5, <1>6, <1>7

\* The receiver's, and the sender's, last list counts the fifth semaphore up.
LEMMA EndTry ==
  ASSUME NEW p, Typed(p)
  PROVE  Shmem!Try(p, Shmem!BothAlive \o <<Shmem!Op(Shmem!Alive, 1)>>) =
            IF sem[4] < 2 THEN Outcome("fails", sem, undo[p])
            ELSE Outcome("done", Plus(sem, 4, 1), undo[p])
<1> DEFINE ops == Shmem!BothAlive \o <<Shmem!Op(Shmem!Alive, 1)>>  u == undo[p]
           a == Outcome("done", sem, u)  c == O(4, 1, FALSE, FALSE)
<1>1. ops = <<AliveTest, AliveBack>> \o <<c>>
  BY Operations DEF Shmem!BothAlive, Shmem!Alive, AliveTest, AliveBack
<1>2. Len(ops) = 3 /\ ops[1] = AliveTest /\ ops[2] = AliveBack /\ ops[3] = c
  <2> HIDE DEF c, ops
  <2> QED
    BY <1>1, Three
<1>3. Shmem!Try(p, ops) = Applied(Applied(Applied(a, AliveTest), AliveBack), c)
  <2>0. 3 \in 0 .. 5
    OBVIOUS
  <2>1. Shmem!Try(p, ops) = After3(a, ops)
    BY <1>2, <2>0, TryIs
  <2> HIDE DEF ops, c, a
  <2> QED
    BY <1>2, <2>1 DEF After1, After2, After3
<1>4. /\ 1 \in Int /\ sem[4] \in Int
      /\ u \in [Shmem!Semaphores -> Int] /\ sem \in [Shmem!Semaphores -> Int]
  BY Numbers DEF Typed
<1> HIDE DEF ops, u
<1>5. CASE sem[4] < 2
  <2>1. Applied(a, AliveTest) = Outcome("fails", sem, u)
    BY <1>4, <1>5, BothAliveTest
  <2> HIDE DEF c, a
  <2> QED
    BY <1>3, <1>5, <2>1, NoMore DEF ops, u
<1>6. CASE ~(sem[4] < 2)
  <2>1. Applied(Applied(a, AliveTest), AliveBack) = a
    BY <1>4, <1>6, BothAliveTest
  <2>2. ~Stops(sem, 4, 1)
    BY <1>4, <1>6 DEF Stops
  <2>3. Applied(a, c) = Outcome("done", Plus(sem, 4, 1), u)
    BY <1>4, <2>2, OpGoes, Numbers
  <2> HIDE DEF c, a
  <2> QED
    BY <1>3, <1>6, <2>1, <2>3 DEF ops, u
<1> QED
  BY <1>5, <1>6

-----------------------------------------------------------------------------
(* What the calls of semop() come to. *)

LEMMA OneList ==
  ASSUME NEW p, NEW c
  PROVE  Shmem!Try(p, <<c>>) = Applied(Outcome("done", sem, undo[p]), c)
<1> DEFINE ops == <<c>>  a == Outcome("done", sem, undo[p])
<1>1. Len(ops) = 1 /\ ops[1] = c /\ 1 \in 0 .. 5
  OBVIOUS
<1> HIDE DEF ops, a
<1>2. Shmem!Try(p, ops) = After1(a, ops)
  BY <1>1, TryIs DEF a
<1> QED
  BY <1>1, <1>2 DEF After1, ops, a

LEMMA TwoList ==
  ASSUME NEW p, NEW c, NEW d
  PROVE  Shmem!Try(p, <<c, d>>) = Applied(Applied(Outcome("done", sem, undo[p]), c), d)
<1> DEFINE ops == <<c, d>>  a == Outcome("done", sem, undo[p])
<1>1. Len(ops) = 2 /\ ops[1] = c /\ ops[2] = d /\ 2 \in 0 .. 5
  OBVIOUS
<1> HIDE DEF ops, a
<1>2. Shmem!Try(p, ops) = After2(a, ops)
  BY <1>1, TryIs DEF a
<1> QED
  BY <1>1, <1>2 DEF After1, After2, ops, a

LEMMA PlusSemBack ==
  ASSUME NEW s \in [Shmem!Semaphores -> Int], NEW k \in Shmem!Semaphores, NEW d \in Int,
         NEW e \in Int, d + e = 0
  PROVE  Plus(Plus(s, k, d), k, e) = s
BY PlusBack

\* An operation and what its end undoes, by one.
LEMMA OneUp ==
  ASSUME NEW s \in [Shmem!Semaphores -> Int], NEW u \in [Shmem!Semaphores -> Int],
         NEW k \in Shmem!Semaphores, s[k] >= 0
  PROVE  Applied(Outcome("done", s, u), O(k, 1, TRUE, FALSE))
         = Outcome("done", Plus(s, k, 1), Plus(u, k, -1))
<1>1. ~Stops(s, k, 1) /\ 1 \in Int /\ -1 \in Int /\ 1 + -1 = 0
  BY DEF Stops
<1> QED
  BY <1>1, OpGoesUndone, Zenon

LEMMA OneDown ==
  ASSUME NEW s \in [Shmem!Semaphores -> Int], NEW u \in [Shmem!Semaphores -> Int],
         NEW k \in Shmem!Semaphores, s[k] >= 1
  PROVE  Applied(Outcome("done", s, u), O(k, -1, TRUE, FALSE))
         = Outcome("done", Plus(s, k, -1), Plus(u, k, 1))
<1>1. ~Stops(s, k, -1) /\ 1 \in Int /\ -1 \in Int /\ -1 + 1 = 0
  BY DEF Stops
<1> QED
  BY <1>1, OpGoesUndone, Zenon

Stepped(p, b) == spc' = [spc EXCEPT ![p] = b]

Fails(p) == /\ UNCHANGED <<sem, undo>> /\ Stepped(p, "reset")
            /\ failed' = [failed EXCEPT ![p] = TRUE]

Others == UNCHANGED <<shmem, block, toReset, sprinted, ghosts>>

Did(p, b, s, u) == /\ sem' = s /\ undo' = [undo EXCEPT ![p] = u]
                    /\ Stepped(p, b) /\ failed' = failed

LEMMA SemopIs ==
  ASSUME NEW p, NEW a, NEW b, NEW ops, Shmem!Semop(p, a, ops, b),
         NEW x, NEW s, NEW u, Shmem!Try(p, ops) = Outcome(x, s, u)
  PROVE  /\ spc[p] = a /\ Others
         /\ \/ x = "done" /\ Did(p, b, s, u)
            \/ x = "fails" /\ Fails(p)
<1>1. /\ Outcome(x, s, u).outcome = x /\ Outcome(x, s, u).sem = s /\ Outcome(x, s, u).undo = u
  BY DEF Outcome
<1> QED
  BY <1>1 DEF Shmem!Semop, Shmem!Goto, Stepped, Fails, Did, Others

LEMMA TransferSemop ==
  ASSUME NEW p, Typed(p), NEW k \in {0, 1}, NEW d \in {-1, 1}, NEW a, NEW b,
         Shmem!Semop(p, a, Shmem!WhileAlive(k, d), b)
  PROVE  /\ spc[p] = a /\ Others
         /\ \/ sem[4] >= 2 /\ sem[k] + d >= 0 /\ Did(p, b, Plus(sem, k, d), undo[p])
            \/ sem[4] < 2 /\ Fails(p)
<1> DEFINE ops == Shmem!WhileAlive(k, d)
<1>0. sem[4] \in Int /\ sem[k] \in Int /\ d \in Int
  BY Numbers DEF Typed
<1>1. Shmem!Try(p, ops) =
            IF sem[4] < 2 THEN Outcome("fails", sem, undo[p])
            ELSE IF sem[k] + d < 0 THEN Outcome("waits", sem, undo[p])
            ELSE Outcome("done", Plus(sem, k, d), undo[p])
  BY TransferTry
<1>2. CASE sem[4] < 2
  BY <1>1, <1>2, SemopIs
<1>3. CASE ~(sem[4] < 2) /\ sem[k] + d < 0
  <2>1. Shmem!Try(p, ops) = Outcome("waits", sem, undo[p])
    BY <1>1, <1>3
  <2> QED
    BY <2>1, SemopIs
<1>4. CASE ~(sem[4] < 2) /\ ~(sem[k] + d < 0)
  <2>1. Shmem!Try(p, ops) = Outcome("done", Plus(sem, k, d), undo[p])
    BY <1>1, <1>4
  <2>2. spc[p] = a /\ Others /\ Did(p, b, Plus(sem, k, d), undo[p])
    BY <2>1, SemopIs
  <2> QED
    BY <1>0, <1>4, <2>2
<1> QED
  BY <1>2, <1>3, <1>4

LEMMA EndSemop ==
  ASSUME NEW p, Typed(p), NEW a, NEW b,
         Shmem!Semop(p, a, Shmem!BothAlive \o <<Shmem!Op(Shmem!Alive, 1)>>, b)
  PROVE  /\ spc[p] = a /\ Others
         /\ \/ sem[4] >= 2 /\ Did(p, b, Plus(sem, 4, 1), undo[p])
            \/ sem[4] < 2 /\ Fails(p)
<1> DEFINE ops == Shmem!BothAlive \o <<Shmem!Op(Shmem!Alive, 1)>>
<1>0. sem[4] \in Int
  BY Numbers DEF Typed
<1>1. Shmem!Try(p, ops) = IF sem[4] < 2 THEN Outcome("fails", sem, undo[p])
                          ELSE Outcome("done", Plus(sem, 4, 1), undo[p])
  BY EndTry
<1> HIDE DEF ops
<1>2. CASE sem[4] < 2
  BY <1>1, <1>2, SemopIs DEF ops
<1>3. CASE ~(sem[4] < 2)
  <2>1. Shmem!Try(p, ops) = Outcome("done", Plus(sem, 4, 1), undo[p])
    BY <1>1, <1>3
  <2>2. spc[p] = a /\ Others /\ Did(p, b, Plus(sem, 4, 1), undo[p])
    BY <2>1, SemopIs DEF ops
  <2> QED
    BY <1>0, <1>3, <2>2
<1> QED
  BY <1>2, <1>3

LEMMA BirthSemop ==
  ASSUME NEW p, Typed(p), sem[4] >= 0, Shmem!Birth(p)
  PROVE  spc[p] = "birth" /\ Others /\ Did(p, "prevent", Plus(sem, 4, 1), Plus(undo[p], 4, -1))
<1> DEFINE c == O(4, 1, TRUE, FALSE)
<1>1. Shmem!Semop(p, "birth", <<c>>, "prevent")
  BY Operations DEF Shmem!Birth, Shmem!Alive
<1>2. 4 \in Shmem!Semaphores /\ 1 \in Int /\ -1 \in Int /\ 1 + -1 = 0
  BY Numbers
<1>3. ~Stops(sem, 4, 1)
  BY <1>2 DEF Stops, Typed
<1>4. Shmem!Try(p, <<c>>) = Outcome("done", Plus(sem, 4, 1), Plus(undo[p], 4, -1))
  <2>1. Applied(Outcome("done", sem, undo[p]), c) = Outcome("done", Plus(sem, 4, 1), Plus(undo[p], 4, -1))
    BY <1>2, <1>3, OpGoesUndone, Zenon DEF Typed
  <2> HIDE DEF c
  <2> QED
    BY <2>1, OneList
<1> HIDE DEF c
<1> QED
  BY <1>1, <1>4, SemopIs

LEMMA PreventSemop ==
  ASSUME NEW p, Typed(p), NEW k \in {0, 1}, sem[k] >= 0, Shmem!Prevent(p, k)
  PROVE  spc[p] = "prevent" /\ Others /\ Did(p, "go", sem, Plus(undo[p], k, 1))
<1> DEFINE c == O(k, 1, FALSE, FALSE)  d == O(k, -1, TRUE, FALSE)  t == Plus(sem, k, 1)
<1>1. Shmem!Semop(p, "prevent", <<c, d>>, "go")
  BY Operations DEF Shmem!Prevent
<1>2. /\ k \in Shmem!Semaphores /\ 1 \in Int /\ -1 \in Int /\ 1 + -1 = 0 /\ -1 + 1 = 0
      /\ sem[k] \in Int /\ FALSE \in BOOLEAN
      /\ sem \in [Shmem!Semaphores -> Int] /\ undo[p] \in [Shmem!Semaphores -> Int]
  BY Numbers DEF Typed
<1>3. ~Stops(sem, k, 1)
  BY <1>2 DEF Stops
<1>4. t \in [Shmem!Semaphores -> Int] /\ t[k] = sem[k] + 1
  BY <1>2, PlusSem, Zenon
<1>5. Plus(t, k, -1) = sem
  BY <1>2, PlusSemBack, Zenon
<1> HIDE DEF t
<1>6. t[k] >= 1
  BY <1>2, <1>4
<1>7. Applied(Outcome("done", sem, undo[p]), c) = Outcome("done", t, undo[p])
  BY <1>2, <1>3, OpGoes, Zenon DEF t
<1>8. Applied(Outcome("done", t, undo[p]), d) = Outcome("done", sem, Plus(undo[p], k, 1))
  <2>1. Applied(Outcome("done", t, undo[p]), d) = Outcome("done", Plus(t, k, -1), Plus(undo[p], k, 1))
    BY <1>2, <1>4, <1>6, OneDown
  <2> QED
    BY <1>5, <2>1
<1> HIDE DEF c, d
<1>9. Shmem!Try(p, <<c, d>>) = Outcome("done", sem, Plus(undo[p], k, 1))
  BY <1>7, <1>8, TwoList
<1> QED
  BY <1>1, <1>9, SemopIs

LEMMA GoSemop ==
  ASSUME NEW p, Typed(p), Shmem!Go(p)
  PROVE  spc[p] = "go" /\ Others /\ sem[4] >= 2 /\ Did(p, "wait", sem, undo[p])
<1> DEFINE c == O(4, -2, FALSE, FALSE)  d == O(4, 2, FALSE, FALSE)  t == Plus(sem, 4, -2)
<1>1. Shmem!Semop(p, "go", <<c, d>>, "wait")
  BY Operations DEF Shmem!Go, Shmem!Alive
<1>2. /\ 4 \in Shmem!Semaphores /\ 2 \in Int /\ -2 \in Int /\ 2 + -2 = 0 /\ -2 + 2 = 0
      /\ sem[4] \in Int /\ FALSE \in BOOLEAN
      /\ sem \in [Shmem!Semaphores -> Int] /\ undo[p] \in [Shmem!Semaphores -> Int]
  BY Numbers DEF Typed
<1>3. CASE sem[4] < 2
  <2>1. Stops(sem, 4, -2)
    BY <1>2, <1>3, Minus DEF Stops
  <2>2. Applied(Outcome("done", sem, undo[p]), c) = Outcome(IF FALSE THEN "fails" ELSE "waits", sem, undo[p])
    BY <1>2, <2>1, OpStops, Zenon
  <2> HIDE DEF c, d
  <2>3. Shmem!Try(p, <<c, d>>) = Outcome("waits", sem, undo[p])
    BY <2>2, TwoList, NoMore
  <2> QED
    BY <1>1, <2>3, SemopIs
<1>4. CASE ~(sem[4] < 2)
  <2>1. ~Stops(sem, 4, -2)
    BY <1>2, <1>4, Minus DEF Stops
  <2>2. t \in [Shmem!Semaphores -> Int] /\ t[4] = sem[4] + -2
    BY <1>2, PlusSem, Zenon
  <2>3. Plus(t, 4, 2) = sem
    BY <1>2, PlusBack
  <2> HIDE DEF t
  <2>4. ~Stops(t, 4, 2)
    BY <1>2, <1>4, <2>2 DEF Stops
  <2>5. Applied(Outcome("done", sem, undo[p]), c) = Outcome("done", t, undo[p])
    BY <1>2, <2>1, OpGoes, Zenon DEF t
  <2>6. Applied(Outcome("done", t, undo[p]), d) = Outcome("done", sem, undo[p])
    <3>1. Applied(Outcome("done", t, undo[p]), d) = Outcome("done", Plus(t, 4, 2), undo[p])
      BY <1>2, <2>2, <2>4, OpGoes, Zenon
    <3> QED
      BY <2>3, <3>1
  <2> HIDE DEF c, d
  <2>7. Shmem!Try(p, <<c, d>>) = Outcome("done", sem, undo[p])
    BY <2>5, <2>6, TwoList
  <2>8. spc[p] = "go" /\ Others /\ Did(p, "wait", sem, undo[p])
    BY <1>1, <2>7, SemopIs
  <2> QED
    BY <1>2, <1>4, <2>8
<1> QED
  BY <1>3, <1>4

LEMMA WaitBothSemop ==
  ASSUME NEW p, Typed(p), Shmem!WaitBoth(p)
  PROVE  /\ spc[p] = "wait_both" /\ Others /\ sem[4] >= 4
         /\ Did(p, "reset", Plus(sem, 4, -4), undo[p])
<1> DEFINE c == O(4, -4, FALSE, FALSE)  ops == <<c>>
<1>1. Shmem!Semop(p, "wait_both", ops, "reset")
  BY Operations DEF Shmem!WaitBoth, Shmem!Alive
<1>2. /\ 4 \in Shmem!Semaphores /\ -4 \in Int /\ -4 # 0 /\ sem[4] \in Int /\ FALSE \in BOOLEAN
      /\ sem \in [Shmem!Semaphores -> Int] /\ undo[p] \in [Shmem!Semaphores -> Int]
  BY Numbers DEF Typed
<1> HIDE DEF ops
<1>3. CASE sem[4] < 4
  <2>1. Stops(sem, 4, -4)
    BY <1>2, <1>3 DEF Stops
  <2>2. Applied(Outcome("done", sem, undo[p]), c) = Outcome(IF FALSE THEN "fails" ELSE "waits", sem, undo[p])
    BY <1>2, <2>1, OpStops, Zenon
  <2>3. Shmem!Try(p, ops) = Outcome("waits", sem, undo[p])
    BY <2>2, OneList DEF ops
  <2> QED
    BY <1>1, <2>3, SemopIs
<1>4. CASE ~(sem[4] < 4)
  <2>1. ~Stops(sem, 4, -4)
    BY <1>2, <1>4 DEF Stops
  <2>2. Applied(Outcome("done", sem, undo[p]), c) = Outcome("done", Plus(sem, 4, -4), undo[p])
    BY <1>2, <2>1, OpGoes, Zenon
  <2>3. Shmem!Try(p, ops) = Outcome("done", Plus(sem, 4, -4), undo[p])
    BY <2>2, OneList DEF ops
  <2>4. spc[p] = "wait_both" /\ Others /\ Did(p, "reset", Plus(sem, 4, -4), undo[p])
    BY <1>1, <2>3, SemopIs
  <2> QED
    BY <1>2, <1>4, <2>4
<1> QED
  BY <1>3, <1>4

LEMMA ChooseStep ==
  ASSUME NEW p, Typed(p), NEW k \in {2, 3}, sem[k] >= 0, Shmem!Choose(p, k)
  PROVE  /\ spc[p] = "sync" /\ Others /\ failed' = failed
         /\ \/ /\ sem[k] = 0
               /\ Did(p, IF p \in {s1} THEN "set_empty" ELSE "birth", Plus(sem, k, 1), Plus(undo[p], k, -1))
            \/ UNCHANGED <<sem, undo>> /\ Stepped(p, "refused")
<1> DEFINE c == O(k, 0, FALSE, TRUE)  d == O(k, 1, TRUE, FALSE)  ops == <<c, d>>  a == Outcome("done", sem, undo[p])
<1>1. /\ spc[p] = "sync" /\ Others /\ failed' = failed
      /\ IF Shmem!Try(p, ops).outcome = "done"
         THEN /\ sem' = Shmem!Try(p, ops).sem
              /\ undo' = [undo EXCEPT ![p] = Shmem!Try(p, ops).undo]
              /\ Stepped(p, IF p \in {s1} THEN "set_empty" ELSE "birth")
         ELSE UNCHANGED <<sem, undo>> /\ Stepped(p, "refused")
  <2>1. ops = <<Shmem!NoWait(Shmem!Op(k, 0)), Shmem!Undone(Shmem!Op(k, 1))>>
    BY Operations
  <2> HIDE DEF ops
  <2> QED
    BY <2>1 DEF Shmem!Choose, Shmem!Goto, Stepped, Others
<1>2. /\ k \in Shmem!Semaphores /\ 0 \in Int /\ 1 \in Int /\ -1 \in Int /\ 1 + -1 = 0
      /\ sem[k] \in Int /\ FALSE \in BOOLEAN /\ TRUE \in BOOLEAN
      /\ sem \in [Shmem!Semaphores -> Int] /\ undo[p] \in [Shmem!Semaphores -> Int]
  BY Numbers DEF Typed
<1>3. CASE sem[k] # 0
  <2>1. Stops(sem, k, 0)
    BY <1>3 DEF Stops
  <2>2. Applied(a, c) = Outcome(IF TRUE THEN "fails" ELSE "waits", sem, undo[p])
    BY <1>2, <2>1, OpStops, Zenon
  <2>3. Shmem!Try(p, ops) = Outcome("fails", sem, undo[p])
    <3> HIDE DEF c, d
    <3> QED
      BY <2>2, TwoList, NoMore
  <2> HIDE DEF ops
  <2>4. Shmem!Try(p, ops).outcome = "fails"
    BY <2>3 DEF Outcome
  <2> QED
    BY <1>1, <2>4
<1>4. CASE sem[k] = 0
  <2>1. ~Stops(sem, k, 0) /\ ~Stops(sem, k, 1)
    BY <1>2, <1>4 DEF Stops
  <2>2. Applied(a, c) = Outcome("done", Plus(sem, k, 0), undo[p])
    BY <1>2, <2>1, OpGoes, Zenon
  <2>3. Plus(sem, k, 0) = sem
    BY <1>2 DEF Plus
  <2>4. Applied(a, d) = Outcome("done", Plus(sem, k, 1), Plus(undo[p], k, -1))
    BY <1>2, OneUp
  <2>5. Shmem!Try(p, ops) = Outcome("done", Plus(sem, k, 1), Plus(undo[p], k, -1))
    <3> HIDE DEF c, d
    <3> QED
      BY <2>2, <2>3, <2>4, TwoList
  <2> HIDE DEF ops
  <2>6. /\ Shmem!Try(p, ops).outcome = "done" /\ Shmem!Try(p, ops).sem = Plus(sem, k, 1)
        /\ Shmem!Try(p, ops).undo = Plus(undo[p], k, -1)
    BY <2>5 DEF Outcome
  <2> QED
    BY <1>1, <1>4, <2>6 DEF Did
<1> QED
  BY <1>3, <1>4

-----------------------------------------------------------------------------
(* shmem: the invariant. *)

\* Neither ended nor on its way to the end.
Out(p) == spc[p] \in {"reset"} \cup Shmem!Over

Plays(p) == ~Out(p)

Born(p) == IF spc[p] \in {"prevent", "go", "wait", "access", "signal", "end", "wait_both"}
           THEN 1 ELSE 0

Extra == IF spc[s1] = "wait_both" THEN 1 ELSE 0

Printed == Len(sprinted[r1])

ShmemTypes ==
    /\ sem \in [Shmem!Semaphores -> Nat]
    /\ undo \in [{r1, s1} -> [Shmem!Semaphores -> -1 .. 1]]
    /\ shmem \in {-1} \cup (1 .. Shmem!Eof)
    /\ spc \in [{r1, s1} -> Shmem!Locations]
    /\ spc[r1] \notin {"set_empty", "set_full", "open", "wait_both"}
    /\ block \in [{s1} -> 0 .. Shmem!Eof]
    /\ toReset \in [{r1, s1} -> 0 .. 5]
    /\ failed \in [{r1, s1} -> BOOLEAN]
    /\ sprinted \in [{r1} -> Seq(1 .. ShmemBlocks)]

\* What the end of a process undoes.
Undoes ==
    /\ undo[r1][Shmem!Full] = 0 /\ undo[r1][Shmem!Snd] = 0
    /\ undo[r1][Shmem!Rcv] <= 0 /\ undo[r1][Shmem!Empty] >= 0 /\ undo[r1][Shmem!Alive] <= 0
    /\ undo[s1][Shmem!Empty] = 0 /\ undo[s1][Shmem!Rcv] = 0
    /\ undo[s1][Shmem!Snd] <= 0 /\ undo[s1][Shmem!Full] >= 0 /\ undo[s1][Shmem!Alive] <= 0
    /\ spc[r1] \in {"sync", "birth", "prevent"} => undo[r1][Shmem!Empty] = 0
    /\ spc[s1] \in {"sync", "set_empty", "set_full", "open", "birth", "prevent"} =>
           undo[s1][Shmem!Full] = 0
    /\ spc[r1] = "sync" => undo[r1][Shmem!Rcv] = 0
    /\ spc[s1] = "sync" => undo[s1][Shmem!Snd] = 0
    /\ \A p \in {r1, s1} : Plays(p) => toReset[p] = 0 /\ (Born(p) = 0 => undo[p][Shmem!Alive] = 0)
    /\ \A p \in {r1, s1} : \A k \in Shmem!Semaphores :
           toReset[p] > k \/ spc[p] \in Shmem!Over => undo[p][k] = 0

\* The two are counted by the fifth semaphore until one of them is out.
Counted ==
    /\ Plays(r1) /\ Plays(s1) => /\ sem[Shmem!Alive] = Born(r1) + Born(s1) + Extra
                                 /\ undo[r1][Shmem!Alive] + Born(r1) = 0
                                 /\ undo[s1][Shmem!Alive] + Born(s1) = 0
    /\ Plays(r1) /\ Out(s1) => \/ sem[Shmem!Alive] <= Born(r1)
                               \/ /\ sem[Shmem!Alive] = 2 /\ shmem = Shmem!Eof
                                  /\ Printed = ShmemBlocks /\ spc[s1] = "killed"
                                  /\ spc[r1] \in {"prevent", "go", "wait", "access", "end"}
    /\ Plays(s1) /\ Out(r1) => \/ sem[Shmem!Alive] <= Born(s1)
                               \/ spc[s1] = "end" /\ sem[Shmem!Alive] <= 3
                               \/ spc[s1] = "wait_both"

\* Once the sender has set them the two semaphores of the buffer are binary, unless killed.
Binary ==
    /\ \/ spc[r1] = "killed" \/ spc[s1] \in {"sync", "refused", "set_empty", "killed"}
       \/ sem[Shmem!Empty] <= 1
    /\ \/ spc[r1] = "killed"
       \/ spc[s1] \in {"sync", "refused", "set_empty", "set_full", "killed"}
       \/ sem[Shmem!Full] <= 1

\* Before the transfer, and then: the block is nobody's, the sender's, in the segment, the
\* receiver's.
Early == /\ spc[r1] \in {"sync", "birth", "prevent", "go"}
         /\ spc[s1] \in {"sync", "set_empty", "set_full", "open", "birth"}
         /\ block[s1] = 0 /\ Printed = 0
         /\ spc[s1] \in {"set_full", "open", "birth"} => sem[Shmem!Empty] = 1
         /\ spc[s1] \in {"open", "birth"} => sem[Shmem!Full] = 0

Waits == spc[r1] \in {"prevent", "go", "wait"}

Free == /\ Waits \/ (spc[r1] \in {"sync", "birth"} /\ spc[s1] # "wait")
        /\ spc[s1] \in {"prevent", "go", "wait"}
        /\ sem[Shmem!Empty] = 1 /\ sem[Shmem!Full] = 0
        /\ block[s1] = Printed
        /\ spc[s1] \in {"prevent", "go"} => Printed = 0

Filling == /\ Waits /\ spc[s1] \in {"access", "signal"}
           /\ sem[Shmem!Empty] = 0 /\ sem[Shmem!Full] = 0
           /\ block[s1] = IF spc[s1] = "access" THEN Printed ELSE Printed + 1
           /\ spc[s1] = "signal" => shmem = block[s1]

SentOf == /\ block[s1] = Shmem!Eof <=> spc[s1] # "wait"
          /\ spc[s1] \in {"wait", "end", "wait_both"}

Filled == /\ Waits /\ SentOf
          /\ sem[Shmem!Empty] = 0 /\ sem[Shmem!Full] = 1
          /\ block[s1] = Printed + 1 /\ shmem = block[s1]

Taking == /\ spc[r1] \in {"access", "signal", "end"} /\ SentOf
          /\ sem[Shmem!Empty] = 0 /\ sem[Shmem!Full] = 0
          /\ spc[r1] = "access" => block[s1] = Printed + 1 /\ shmem = block[s1]
          /\ spc[r1] = "signal" => block[s1] = Printed /\ spc[s1] = "wait"
          /\ spc[r1] = "end" => block[s1] = Shmem!Eof /\ shmem = Shmem!Eof

InStep == /\ Plays(r1) /\ Plays(s1) => Early \/ Free \/ Filling \/ Filled \/ Taking
          /\ spc[s1] \in {"sync", "set_empty", "set_full", "open", "birth", "prevent", "go",
                          "wait", "access"} => block[s1] <= ShmemBlocks

SoFar == /\ Printed <= ShmemBlocks
         /\ sprinted[r1] = [k \in 1 .. Printed |-> k]
         /\ spc[r1] = "access" => shmem = Printed + 1
         /\ spc[r1] \in {"end", "done"} => Printed = ShmemBlocks
         /\ spc[r1] = "reset" /\ ~failed[r1] => Printed = ShmemBlocks

CleanInv == ShmemTypes /\ Undoes /\ Counted /\ Binary /\ InStep /\ SoFar

LEMMA ShmemConstants ==
  /\ ShmemBlocks \in Nat /\ r1 # s1 /\ Shmem!Eof = ShmemBlocks + 1
  /\ Shmem!Semaphores = {0, 1, 2, 3, 4} /\ Shmem!Process = {r1, s1}
  /\ Shmem!Empty = 0 /\ Shmem!Full = 1 /\ Shmem!Snd = 2 /\ Shmem!Rcv = 3 /\ Shmem!Alive = 4
<1>1. Shmem!Semaphores = {0, 1, 2, 3, 4}
  BY DEF Shmem!Semaphores
<1> QED
  BY <1>1, ProgramsAssumption
     DEF Shmem!BoundAssumption, Shmem!SideAssumption, Shmem!Eof, Shmem!Process,
         Shmem!Empty, Shmem!Full, Shmem!Snd, Shmem!Rcv, Shmem!Alive

LEMMA ShmemTyped ==
  ASSUME ShmemTypes, NEW p \in {r1, s1}
  PROVE  Typed(p)
<1>1. sem \in [Shmem!Semaphores -> Nat] /\ undo[p] \in [Shmem!Semaphores -> -1 .. 1]
  BY DEF ShmemTypes
<1>2. \A k \in Shmem!Semaphores : sem[k] \in Int /\ undo[p][k] \in Int
  BY <1>1
<1> QED
  BY <1>1, <1>2 DEF Typed

\* The values after a step of p.
LEMMA StepValues ==
  ASSUME ShmemTypes, NEW p \in {r1, s1}, NEW b \in Shmem!Locations, Stepped(p, b)
  PROVE  /\ spc' \in [{r1, s1} -> Shmem!Locations] /\ spc'[p] = b
         /\ \A q \in {r1, s1} : q # p => spc'[q] = spc[q]
BY DEF ShmemTypes, Stepped

LEMMA UndoValues ==
  ASSUME ShmemTypes, NEW p \in {r1, s1}, NEW u \in [Shmem!Semaphores -> -1 .. 1],
         undo' = [undo EXCEPT ![p] = u]
  PROVE  /\ undo' \in [{r1, s1} -> [Shmem!Semaphores -> -1 .. 1]] /\ undo'[p] = u
         /\ \A q \in {r1, s1} : q # p => undo'[q] = undo[q]
BY DEF ShmemTypes

LEMMA PlusValues ==
  ASSUME NEW lo \in Int, NEW hi \in Int, NEW s \in [Shmem!Semaphores -> lo .. hi],
         NEW k \in Shmem!Semaphores, NEW d \in Int, s[k] + d \in lo .. hi
  PROVE  /\ Plus(s, k, d) \in [Shmem!Semaphores -> lo .. hi] /\ Plus(s, k, d)[k] = s[k] + d
         /\ \A j \in Shmem!Semaphores : j # k => Plus(s, k, d)[j] = s[j]
BY DEF Plus

LEMMA SemValues ==
  ASSUME ShmemTypes, NEW k \in Shmem!Semaphores, NEW d \in Int, sem[k] + d \in Nat,
         sem' = Plus(sem, k, d)
  PROVE  /\ sem' \in [Shmem!Semaphores -> Nat] /\ sem'[k] = sem[k] + d
         /\ \A j \in Shmem!Semaphores : j # k => sem'[j] = sem[j]
<1>1. sem \in [Shmem!Semaphores -> Nat]
  BY DEF ShmemTypes
<1>2. sem' = [sem EXCEPT ![k] = @ + d]
  BY DEF Plus
<1> QED
  BY <1>1, <1>2

LEMMA UndoPlusValues ==
  ASSUME ShmemTypes, NEW p \in {r1, s1}, NEW k \in Shmem!Semaphores, NEW d \in Int,
         undo[p][k] + d \in -1 .. 1, undo' = [undo EXCEPT ![p] = Plus(undo[p], k, d)]
  PROVE  /\ undo' \in [{r1, s1} -> [Shmem!Semaphores -> -1 .. 1]]
         /\ undo'[p][k] = undo[p][k] + d
         /\ \A j \in Shmem!Semaphores : j # k => undo'[p][j] = undo[p][j]
         /\ \A q \in {r1, s1} : q # p => undo'[q] = undo[q]
<1> DEFINE u == Plus(undo[p], k, d)
<1>1. undo[p] \in [Shmem!Semaphores -> -1 .. 1]
  BY DEF ShmemTypes
<1>2. u = [undo[p] EXCEPT ![k] = @ + d]
  BY DEF Plus
<1>3. /\ u \in [Shmem!Semaphores -> -1 .. 1] /\ u[k] = undo[p][k] + d
      /\ \A j \in Shmem!Semaphores : j # k => u[j] = undo[p][j]
  BY <1>1, <1>2
<1> HIDE DEF u
<1>4. undo' = [undo EXCEPT ![p] = u]
  BY DEF u
<1>5. /\ undo' \in [{r1, s1} -> [Shmem!Semaphores -> -1 .. 1]] /\ undo'[p] = u
      /\ \A q \in {r1, s1} : q # p => undo'[q] = undo[q]
  BY <1>3, <1>4, UndoValues
<1> QED
  BY <1>3, <1>5

\* SETVAL, and the end of a process.
LEMMA SetValues ==
  ASSUME ShmemTypes, NEW k \in Shmem!Semaphores, NEW v \in {0, 1}, Shmem!SetVal(k, v)
  PROVE  /\ sem' \in [Shmem!Semaphores -> Nat]
         /\ undo' \in [{r1, s1} -> [Shmem!Semaphores -> -1 .. 1]]
         /\ \A j \in Shmem!Semaphores : sem'[j] = IF j = k THEN v ELSE sem[j]
         /\ \A p \in {r1, s1} : \A j \in Shmem!Semaphores :
                undo'[p][j] = IF j = k THEN 0 ELSE undo[p][j]
<1>1. /\ sem \in [Shmem!Semaphores -> Nat]
      /\ undo \in [{r1, s1} -> [Shmem!Semaphores -> -1 .. 1]]
  BY DEF ShmemTypes
<1>2. sem' = [sem EXCEPT ![k] = v] /\ undo' = [p \in {r1, s1} |-> [undo[p] EXCEPT ![k] = 0]]
  BY ShmemConstants DEF Shmem!SetVal
<1>3. ASSUME NEW p \in {r1, s1}
      PROVE  /\ undo'[p] \in [Shmem!Semaphores -> -1 .. 1]
             /\ \A j \in Shmem!Semaphores : undo'[p][j] = IF j = k THEN 0 ELSE undo[p][j]
  <2>1. undo'[p] = [undo[p] EXCEPT ![k] = 0] /\ undo[p] \in [Shmem!Semaphores -> -1 .. 1]
    BY <1>1, <1>2
  <2>2. 0 \in -1 .. 1
    OBVIOUS
  <2> QED
    BY <2>1, <2>2
<1>4. undo' \in [{r1, s1} -> [Shmem!Semaphores -> -1 .. 1]]
  BY <1>2, <1>3
<1>5. v \in Nat
  OBVIOUS
<1>6. /\ sem' \in [Shmem!Semaphores -> Nat]
      /\ \A j \in Shmem!Semaphores : sem'[j] = IF j = k THEN v ELSE sem[j]
  BY <1>1, <1>2, <1>5
<1> QED
  BY <1>3, <1>4, <1>6

LEMMA ExitValues ==
  ASSUME ShmemTypes, NEW p \in {r1, s1}, Shmem!ExitSem(p)
  PROVE  /\ sem' \in [Shmem!Semaphores -> Nat]
         /\ undo' \in [{r1, s1} -> [Shmem!Semaphores -> -1 .. 1]]
         /\ \A k \in Shmem!Semaphores :
                sem'[k] = IF sem[k] + undo[p][k] < 0 THEN 0 ELSE sem[k] + undo[p][k]
         /\ \A k \in Shmem!Semaphores : undo'[p][k] = 0
         /\ \A q \in {r1, s1} : q # p => undo'[q] = undo[q]
<1>1. /\ sem \in [Shmem!Semaphores -> Nat]
      /\ undo \in [{r1, s1} -> [Shmem!Semaphores -> -1 .. 1]]
  BY DEF ShmemTypes
<1> DEFINE e(k) == IF sem[k] + undo[p][k] < 0 THEN 0 ELSE sem[k] + undo[p][k]
           z == [k \in Shmem!Semaphores |-> 0]
<1>2. sem' = [k \in Shmem!Semaphores |-> e(k)] /\ undo' = [undo EXCEPT ![p] = z]
  BY DEF Shmem!ExitSem
<1>3. ASSUME NEW k \in Shmem!Semaphores PROVE e(k) \in Nat
  <2>1. sem[k] \in Nat /\ undo[p][k] \in -1 .. 1
    BY <1>1
  <2> QED
    BY <2>1
<1>4. z \in [Shmem!Semaphores -> -1 .. 1] /\ \A k \in Shmem!Semaphores : z[k] = 0
  <2>1. 0 \in -1 .. 1
    OBVIOUS
  <2> QED
    BY <2>1
<1> HIDE DEF z
<1>5. /\ undo' \in [{r1, s1} -> [Shmem!Semaphores -> -1 .. 1]] /\ undo'[p] = z
      /\ \A q \in {r1, s1} : q # p => undo'[q] = undo[q]
  BY <1>2, <1>4, UndoValues
<1>6. sem' \in [Shmem!Semaphores -> Nat] /\ \A k \in Shmem!Semaphores : sem'[k] = e(k)
  <2> HIDE DEF e
  <2> QED
    BY <1>2, <1>3
<1> QED
  BY <1>4, <1>5, <1>6

LEMMA PrintedIsNat == ShmemTypes => Printed \in Nat
BY LenProperties DEF ShmemTypes, Printed

LEMMA WaitFullHolds ==
  ASSUME CleanInv, Shmem!WaitFull(r1)
  PROVE  CleanInv'
<1> USE ShmemConstants
<1>0. ShmemTypes /\ Undoes /\ Counted /\ Binary /\ InStep /\ SoFar
  BY DEF CleanInv
<1> USE <1>0
<1>1. /\ spc[r1] = "wait" /\ Others
      /\ \/ sem[4] >= 2 /\ sem[1] + -1 >= 0 /\ Did(r1, "access", Plus(sem, 1, -1), undo[r1])
         \/ sem[4] < 2 /\ Fails(r1)
  <2>1. Typed(r1)
    BY ShmemTyped
  <2> QED
    BY <2>1, TransferSemop DEF Shmem!WaitFull, Shmem!Full
<1>2. CASE sem[4] >= 2 /\ sem[1] + -1 >= 0 /\ Did(r1, "access", Plus(sem, 1, -1), undo[r1])
  <2>1. /\ spc' \in [{r1, s1} -> Shmem!Locations] /\ spc'[r1] = "access" /\ spc'[s1] = spc[s1]
    <3>1. "access" \in Shmem!Locations /\ Stepped(r1, "access")
      BY <1>1, <1>2 DEF Did, Fails, Shmem!Locations, Shmem!Over
    <3> QED
      BY <3>1, StepValues
  <2>2. /\ sem' \in [Shmem!Semaphores -> Nat] /\ sem'[1] = sem[1] + -1
        /\ sem'[0] = sem[0] /\ sem'[2] = sem[2] /\ sem'[3] = sem[3] /\ sem'[4] = sem[4]
    <3>1. sem[1] \in Nat /\ sem' = Plus(sem, 1, -1)
      BY <1>1, <1>2 DEF Did, ShmemTypes
    <3>2. sem[1] + -1 \in Nat
      BY <1>1, <1>2, <3>1 DEF Binary
    <3>3. -1 \in Int /\ 1 \in Shmem!Semaphores
      OBVIOUS
    <3>4. /\ sem' \in [Shmem!Semaphores -> Nat] /\ sem'[1] = sem[1] + -1
          /\ \A j \in Shmem!Semaphores : j # 1 => sem'[j] = sem[j]
      BY <3>1, <3>2, <3>3, SemValues, Zenon
    <3> QED
      BY <3>4
  <2>3. undo' = undo
    BY <1>1, <1>2 DEF Did, Fails, ShmemTypes
  <2>4. UNCHANGED <<shmem, block, toReset, sprinted>> /\ failed' = failed
    BY <1>1, <1>2 DEF Did, Fails, Others
  <2>5. ShmemTypes'
    BY <1>1, <1>2, <2>1, <2>2, <2>3, <2>4 DEF ShmemTypes
  <2>6. Undoes'
    BY <1>1, <1>2, <2>1, <2>2, <2>3, <2>4 DEF Undoes, Plays, Out, Born, Shmem!Over
  <2>7. Binary'
    BY <1>1, <1>2, <2>1, <2>2, <2>3, <2>4 DEF Binary, ShmemTypes, InStep, Early, Free, Waits, Filling, SentOf, Filled, Taking, Plays, Out, Born, Extra, Counted, Shmem!Over
  <2>8. SoFar' /\ Printed' = Printed
    <3>1. Printed' = Printed
      BY <2>4 DEF Printed
    <3>2. shmem = Printed + 1
      BY <1>1, <1>2 DEF InStep, Early, Free, Waits, Filling, SentOf, Filled, Taking, Plays, Out, Born, Extra, Counted, Shmem!Over, ShmemTypes
    <3> QED
      BY <1>1, <2>1, <2>4, <3>1, <3>2 DEF SoFar
  <2>9. Counted'
    BY <1>1, <1>2, <2>1, <2>2, <2>3, <2>4, <2>8 DEF Counted, Plays, Out, Born, Extra, Shmem!Over
  <2>10. InStep'
    BY <1>1, <1>2, <2>1, <2>2, <2>3, <2>4, <2>8 DEF InStep, Early, Free, Waits, Filling, SentOf, Filled, Taking, Plays, Out, Shmem!Over
  <2> QED
    BY <2>5, <2>6, <2>7, <2>8, <2>9, <2>10 DEF CleanInv
<1>3. CASE sem[4] < 2 /\ Fails(r1)
  <2>1. /\ spc' \in [{r1, s1} -> Shmem!Locations] /\ spc'[r1] = "reset" /\ spc'[s1] = spc[s1]
    <3>1. "reset" \in Shmem!Locations /\ Stepped(r1, "reset")
      BY <1>1, <1>3 DEF Did, Fails, Shmem!Locations, Shmem!Over
    <3> QED
      BY <3>1, StepValues
  <2>2. sem' = sem /\ sem' \in [Shmem!Semaphores -> Nat]
    BY <1>1, <1>3 DEF Did, Fails, ShmemTypes
  <2>3. undo' = undo
    BY <1>1, <1>3 DEF Did, Fails, ShmemTypes
  <2>4. UNCHANGED <<shmem, block, toReset, sprinted>> /\ failed' = [failed EXCEPT ![r1] = TRUE]
    BY <1>1, <1>3 DEF Did, Fails, Others
  <2>5. ShmemTypes'
    BY <1>1, <1>3, <2>1, <2>2, <2>3, <2>4 DEF ShmemTypes
  <2>6. Undoes'
    BY <1>1, <1>3, <2>1, <2>2, <2>3, <2>4 DEF Undoes, Plays, Out, Born, Shmem!Over
  <2>7. Binary'
    BY <1>1, <1>3, <2>1, <2>2, <2>3, <2>4 DEF Binary
  <2>8. SoFar' /\ Printed' = Printed
    <3>1. failed'[r1] = TRUE
      BY <2>4 DEF ShmemTypes
    <3> QED
      BY <1>1, <2>1, <2>4, <3>1 DEF SoFar, Printed
  <2>9. Counted'
    BY <1>1, <1>3, <2>1, <2>2, <2>3, <2>4, <2>8 DEF InStep, Early, Free, Waits, Filling, SentOf, Filled, Taking, Plays, Out, Born, Extra, Counted, Shmem!Over
  <2>10. InStep'
    BY <1>1, <1>3, <2>1, <2>2, <2>3, <2>4, <2>8 DEF InStep, Plays, Out, Shmem!Over
  <2> QED
    BY <2>5, <2>6, <2>7, <2>8, <2>9, <2>10 DEF CleanInv
<1> QED
  BY <1>1, <1>2, <1>3

LEMMA SignalEmptyHolds ==
  ASSUME CleanInv, Shmem!SignalEmpty(r1)
  PROVE  CleanInv'
<1> USE ShmemConstants
<1>0. ShmemTypes /\ Undoes /\ Counted /\ Binary /\ InStep /\ SoFar
  BY DEF CleanInv
<1> USE <1>0
<1>1. /\ spc[r1] = "signal" /\ Others
      /\ \/ sem[4] >= 2 /\ sem[0] + 1 >= 0 /\ Did(r1, "wait", Plus(sem, 0, 1), undo[r1])
         \/ sem[4] < 2 /\ Fails(r1)
  <2>1. Typed(r1)
    BY ShmemTyped
  <2> QED
    BY <2>1, TransferSemop DEF Shmem!SignalEmpty, Shmem!Empty
<1>2. CASE sem[4] >= 2 /\ sem[0] + 1 >= 0 /\ Did(r1, "wait", Plus(sem, 0, 1), undo[r1])
  <2>1. /\ spc' \in [{r1, s1} -> Shmem!Locations] /\ spc'[r1] = "wait" /\ spc'[s1] = spc[s1]
    <3>1. "wait" \in Shmem!Locations /\ Stepped(r1, "wait")
      BY <1>1, <1>2 DEF Did, Fails, Shmem!Locations, Shmem!Over
    <3> QED
      BY <3>1, StepValues
  <2>2. /\ sem' \in [Shmem!Semaphores -> Nat] /\ sem'[0] = sem[0] + 1
        /\ sem'[1] = sem[1] /\ sem'[2] = sem[2] /\ sem'[3] = sem[3] /\ sem'[4] = sem[4]
    <3>1. sem[0] \in Nat /\ sem' = Plus(sem, 0, 1)
      BY <1>1, <1>2 DEF Did, ShmemTypes
    <3>2. sem[0] + 1 \in Nat
      BY <1>1, <1>2, <3>1 DEF Binary
    <3>3. 1 \in Int /\ 0 \in Shmem!Semaphores
      OBVIOUS
    <3>4. /\ sem' \in [Shmem!Semaphores -> Nat] /\ sem'[0] = sem[0] + 1
          /\ \A j \in Shmem!Semaphores : j # 0 => sem'[j] = sem[j]
      BY <3>1, <3>2, <3>3, SemValues, Zenon
    <3> QED
      BY <3>4
  <2>3. undo' = undo
    BY <1>1, <1>2 DEF Did, Fails, ShmemTypes
  <2>4. UNCHANGED <<shmem, block, toReset, sprinted>> /\ failed' = failed
    BY <1>1, <1>2 DEF Did, Fails, Others
  <2>5. ShmemTypes'
    BY <1>1, <1>2, <2>1, <2>2, <2>3, <2>4 DEF ShmemTypes
  <2>6. Undoes'
    BY <1>1, <1>2, <2>1, <2>2, <2>3, <2>4 DEF Undoes, Plays, Out, Born, Shmem!Over
  <2>7. Binary'
    BY <1>1, <1>2, <2>1, <2>2, <2>3, <2>4 DEF Binary, ShmemTypes, InStep, Early, Free, Waits, Filling, SentOf, Filled, Taking, Plays, Out, Born, Extra, Counted, Shmem!Over
  <2>8. SoFar' /\ Printed' = Printed
    BY <1>1, <1>2, <2>1, <2>2, <2>3, <2>4 DEF SoFar, Printed
  <2>9. Counted'
    BY <1>1, <1>2, <2>1, <2>2, <2>3, <2>4, <2>8 DEF Counted, Plays, Out, Born, Extra, Shmem!Over
  <2>10. InStep'
    BY <1>1, <1>2, <2>1, <2>2, <2>3, <2>4, <2>8 DEF InStep, Early, Free, Waits, Filling, SentOf, Filled, Taking, Plays, Out, Shmem!Over
  <2> QED
    BY <2>5, <2>6, <2>7, <2>8, <2>9, <2>10 DEF CleanInv
<1>3. CASE sem[4] < 2 /\ Fails(r1)
  <2>1. /\ spc' \in [{r1, s1} -> Shmem!Locations] /\ spc'[r1] = "reset" /\ spc'[s1] = spc[s1]
    <3>1. "reset" \in Shmem!Locations /\ Stepped(r1, "reset")
      BY <1>1, <1>3 DEF Did, Fails, Shmem!Locations, Shmem!Over
    <3> QED
      BY <3>1, StepValues
  <2>2. sem' = sem /\ sem' \in [Shmem!Semaphores -> Nat]
    BY <1>1, <1>3 DEF Did, Fails, ShmemTypes
  <2>3. undo' = undo
    BY <1>1, <1>3 DEF Did, Fails, ShmemTypes
  <2>4. UNCHANGED <<shmem, block, toReset, sprinted>> /\ failed' = [failed EXCEPT ![r1] = TRUE]
    BY <1>1, <1>3 DEF Did, Fails, Others
  <2>5. ShmemTypes'
    BY <1>1, <1>3, <2>1, <2>2, <2>3, <2>4 DEF ShmemTypes
  <2>6. Undoes'
    BY <1>1, <1>3, <2>1, <2>2, <2>3, <2>4 DEF Undoes, Plays, Out, Born, Shmem!Over
  <2>7. Binary'
    BY <1>1, <1>3, <2>1, <2>2, <2>3, <2>4 DEF Binary
  <2>8. SoFar' /\ Printed' = Printed
    <3>1. failed'[r1] = TRUE
      BY <2>4 DEF ShmemTypes
    <3> QED
      BY <1>1, <2>1, <2>4, <3>1 DEF SoFar, Printed
  <2>9. Counted'
    BY <1>1, <1>3, <2>1, <2>2, <2>3, <2>4, <2>8 DEF InStep, Early, Free, Waits, Filling, SentOf, Filled, Taking, Plays, Out, Born, Extra, Counted, Shmem!Over
  <2>10. InStep'
    BY <1>1, <1>3, <2>1, <2>2, <2>3, <2>4, <2>8 DEF InStep, Plays, Out, Shmem!Over
  <2> QED
    BY <2>5, <2>6, <2>7, <2>8, <2>9, <2>10 DEF CleanInv
<1> QED
  BY <1>1, <1>2, <1>3

LEMMA ReceiverEndHolds ==
  ASSUME CleanInv, Shmem!ReceiverEnd(r1)
  PROVE  CleanInv'
<1> USE ShmemConstants
<1>0. ShmemTypes /\ Undoes /\ Counted /\ Binary /\ InStep /\ SoFar
  BY DEF CleanInv
<1> USE <1>0
<1>1. /\ spc[r1] = "end" /\ Others
      /\ \/ sem[4] >= 2 /\ Did(r1, "reset", Plus(sem, 4, 1), undo[r1])
         \/ sem[4] < 2 /\ Fails(r1)
  <2>1. Typed(r1)
    BY ShmemTyped
  <2> QED
    BY <2>1, EndSemop DEF Shmem!ReceiverEnd
<1>2. CASE sem[4] >= 2 /\ Did(r1, "reset", Plus(sem, 4, 1), undo[r1])
  <2>1. /\ spc' \in [{r1, s1} -> Shmem!Locations] /\ spc'[r1] = "reset" /\ spc'[s1] = spc[s1]
    <3>1. "reset" \in Shmem!Locations /\ Stepped(r1, "reset")
      BY <1>1, <1>2 DEF Did, Fails, Shmem!Locations, Shmem!Over
    <3> QED
      BY <3>1, StepValues
  <2>2. /\ sem' \in [Shmem!Semaphores -> Nat] /\ sem'[4] = sem[4] + 1
        /\ sem'[0] = sem[0] /\ sem'[1] = sem[1] /\ sem'[2] = sem[2] /\ sem'[3] = sem[3]
    <3>1. sem[4] \in Nat /\ sem' = Plus(sem, 4, 1)
      BY <1>1, <1>2 DEF Did, ShmemTypes
    <3>2. sem[4] + 1 \in Nat
      BY <1>1, <1>2, <3>1 DEF Counted, Plays, Out, Born, Extra, Shmem!Over
    <3>3. 1 \in Int /\ 4 \in Shmem!Semaphores
      OBVIOUS
    <3>4. /\ sem' \in [Shmem!Semaphores -> Nat] /\ sem'[4] = sem[4] + 1
          /\ \A j \in Shmem!Semaphores : j # 4 => sem'[j] = sem[j]
      BY <3>1, <3>2, <3>3, SemValues, Zenon
    <3> QED
      BY <3>4
  <2>3. undo' = undo
    BY <1>1, <1>2 DEF Did, Fails, ShmemTypes
  <2>4. UNCHANGED <<shmem, block, toReset, sprinted>> /\ failed' = failed
    BY <1>1, <1>2 DEF Did, Fails, Others
  <2>5. ShmemTypes'
    BY <1>1, <1>2, <2>1, <2>2, <2>3, <2>4 DEF ShmemTypes
  <2>6. Undoes'
    BY <1>1, <1>2, <2>1, <2>2, <2>3, <2>4 DEF Undoes, Plays, Out, Born, Shmem!Over
  <2>7. Binary'
    BY <1>1, <1>2, <2>1, <2>2, <2>3, <2>4 DEF Binary
  <2>8. SoFar' /\ Printed' = Printed
    BY <1>1, <1>2, <2>1, <2>2, <2>3, <2>4 DEF SoFar, Printed
  <2>9. Counted'
    BY <1>1, <1>2, <2>1, <2>2, <2>3, <2>4, <2>8 DEF InStep, Early, Free, Waits, Filling, SentOf, Filled, Taking, Plays, Out, Born, Extra, Counted, Shmem!Over
  <2>10. InStep'
    BY <1>1, <1>2, <2>1, <2>2, <2>3, <2>4, <2>8 DEF InStep, Plays, Out, Shmem!Over
  <2> QED
    BY <2>5, <2>6, <2>7, <2>8, <2>9, <2>10 DEF CleanInv
<1>3. CASE sem[4] < 2 /\ Fails(r1)
  <2>1. /\ spc' \in [{r1, s1} -> Shmem!Locations] /\ spc'[r1] = "reset" /\ spc'[s1] = spc[s1]
    <3>1. "reset" \in Shmem!Locations /\ Stepped(r1, "reset")
      BY <1>1, <1>3 DEF Did, Fails, Shmem!Locations, Shmem!Over
    <3> QED
      BY <3>1, StepValues
  <2>2. sem' = sem /\ sem' \in [Shmem!Semaphores -> Nat]
    BY <1>1, <1>3 DEF Did, Fails, ShmemTypes
  <2>3. undo' = undo
    BY <1>1, <1>3 DEF Did, Fails, ShmemTypes
  <2>4. UNCHANGED <<shmem, block, toReset, sprinted>> /\ failed' = [failed EXCEPT ![r1] = TRUE]
    BY <1>1, <1>3 DEF Did, Fails, Others
  <2>5. ShmemTypes'
    BY <1>1, <1>3, <2>1, <2>2, <2>3, <2>4 DEF ShmemTypes
  <2>6. Undoes'
    BY <1>1, <1>3, <2>1, <2>2, <2>3, <2>4 DEF Undoes, Plays, Out, Born, Shmem!Over
  <2>7. Binary'
    BY <1>1, <1>3, <2>1, <2>2, <2>3, <2>4 DEF Binary
  <2>8. SoFar' /\ Printed' = Printed
    BY <1>1, <1>3, <2>1, <2>2, <2>3, <2>4 DEF SoFar, Printed
  <2>9. Counted'
    BY <1>1, <1>3, <2>1, <2>2, <2>3, <2>4, <2>8 DEF InStep, Early, Free, Waits, Filling, SentOf, Filled, Taking, Plays, Out, Born, Extra, Counted, Shmem!Over
  <2>10. InStep'
    BY <1>1, <1>3, <2>1, <2>2, <2>3, <2>4, <2>8 DEF InStep, Plays, Out, Shmem!Over
  <2> QED
    BY <2>5, <2>6, <2>7, <2>8, <2>9, <2>10 DEF CleanInv
<1> QED
  BY <1>1, <1>2, <1>3

LEMMA WaitEmptyHolds ==
  ASSUME CleanInv, Shmem!WaitEmpty(s1)
  PROVE  CleanInv'
<1> USE ShmemConstants
<1>0. ShmemTypes /\ Undoes /\ Counted /\ Binary /\ InStep /\ SoFar
  BY DEF CleanInv
<1> USE <1>0
<1>1. /\ spc[s1] = "wait" /\ Others
      /\ \/ sem[4] >= 2 /\ sem[0] + -1 >= 0 /\ Did(s1, "access", Plus(sem, 0, -1), undo[s1])
         \/ sem[4] < 2 /\ Fails(s1)
  <2>1. Typed(s1)
    BY ShmemTyped
  <2> QED
    BY <2>1, TransferSemop DEF Shmem!WaitEmpty, Shmem!Empty
<1>2. CASE sem[4] >= 2 /\ sem[0] + -1 >= 0 /\ Did(s1, "access", Plus(sem, 0, -1), undo[s1])
  <2>1. /\ spc' \in [{r1, s1} -> Shmem!Locations] /\ spc'[s1] = "access" /\ spc'[r1] = spc[r1]
    <3>1. "access" \in Shmem!Locations /\ Stepped(s1, "access")
      BY <1>1, <1>2 DEF Did, Fails, Shmem!Locations, Shmem!Over
    <3> QED
      BY <3>1, StepValues
  <2>2. /\ sem' \in [Shmem!Semaphores -> Nat] /\ sem'[0] = sem[0] + -1
        /\ sem'[1] = sem[1] /\ sem'[2] = sem[2] /\ sem'[3] = sem[3] /\ sem'[4] = sem[4]
    <3>1. sem[0] \in Nat /\ sem' = Plus(sem, 0, -1)
      BY <1>1, <1>2 DEF Did, ShmemTypes
    <3>2. sem[0] + -1 \in Nat
      BY <1>1, <1>2, <3>1 DEF Binary
    <3>3. -1 \in Int /\ 0 \in Shmem!Semaphores
      OBVIOUS
    <3>4. /\ sem' \in [Shmem!Semaphores -> Nat] /\ sem'[0] = sem[0] + -1
          /\ \A j \in Shmem!Semaphores : j # 0 => sem'[j] = sem[j]
      BY <3>1, <3>2, <3>3, SemValues, Zenon
    <3> QED
      BY <3>4
  <2>3. undo' = undo
    BY <1>1, <1>2 DEF Did, Fails, ShmemTypes
  <2>4. UNCHANGED <<shmem, block, toReset, sprinted>> /\ failed' = failed
    BY <1>1, <1>2 DEF Did, Fails, Others
  <2>5. ShmemTypes'
    BY <1>1, <1>2, <2>1, <2>2, <2>3, <2>4 DEF ShmemTypes
  <2>6. Undoes'
    BY <1>1, <1>2, <2>1, <2>2, <2>3, <2>4 DEF Undoes, Plays, Out, Born, Shmem!Over
  <2>7. Binary'
    BY <1>1, <1>2, <2>1, <2>2, <2>3, <2>4 DEF Binary, ShmemTypes, InStep, Early, Free, Waits, Filling, SentOf, Filled, Taking, Plays, Out, Born, Extra, Counted, Shmem!Over
  <2>8. SoFar' /\ Printed' = Printed
    BY <1>1, <1>2, <2>1, <2>2, <2>3, <2>4 DEF SoFar, Printed
  <2>9. Counted'
    BY <1>1, <1>2, <2>1, <2>2, <2>3, <2>4, <2>8 DEF Counted, Plays, Out, Born, Extra, Shmem!Over
  <2>10. InStep'
    BY <1>1, <1>2, <2>1, <2>2, <2>3, <2>4, <2>8 DEF InStep, Early, Free, Waits, Filling, SentOf, Filled, Taking, Plays, Out, Shmem!Over
  <2> QED
    BY <2>5, <2>6, <2>7, <2>8, <2>9, <2>10 DEF CleanInv
<1>3. CASE sem[4] < 2 /\ Fails(s1)
  <2>1. /\ spc' \in [{r1, s1} -> Shmem!Locations] /\ spc'[s1] = "reset" /\ spc'[r1] = spc[r1]
    <3>1. "reset" \in Shmem!Locations /\ Stepped(s1, "reset")
      BY <1>1, <1>3 DEF Did, Fails, Shmem!Locations, Shmem!Over
    <3> QED
      BY <3>1, StepValues
  <2>2. sem' = sem /\ sem' \in [Shmem!Semaphores -> Nat]
    BY <1>1, <1>3 DEF Did, Fails, ShmemTypes
  <2>3. undo' = undo
    BY <1>1, <1>3 DEF Did, Fails, ShmemTypes
  <2>4. UNCHANGED <<shmem, block, toReset, sprinted>> /\ failed' = [failed EXCEPT ![s1] = TRUE]
    BY <1>1, <1>3 DEF Did, Fails, Others
  <2>5. ShmemTypes'
    BY <1>1, <1>3, <2>1, <2>2, <2>3, <2>4 DEF ShmemTypes
  <2>6. Undoes'
    BY <1>1, <1>3, <2>1, <2>2, <2>3, <2>4 DEF Undoes, Plays, Out, Born, Shmem!Over
  <2>7. Binary'
    BY <1>1, <1>3, <2>1, <2>2, <2>3, <2>4 DEF Binary
  <2>8. SoFar' /\ Printed' = Printed
    BY <1>1, <1>3, <2>1, <2>2, <2>3, <2>4 DEF SoFar, Printed
  <2>9. Counted'
    BY <1>1, <1>3, <2>1, <2>2, <2>3, <2>4, <2>8 DEF InStep, Early, Free, Waits, Filling, SentOf, Filled, Taking, Plays, Out, Born, Extra, Counted, Shmem!Over
  <2>10. InStep'
    BY <1>1, <1>3, <2>1, <2>2, <2>3, <2>4, <2>8 DEF InStep, Plays, Out, Shmem!Over
  <2> QED
    BY <2>5, <2>6, <2>7, <2>8, <2>9, <2>10 DEF CleanInv
<1> QED
  BY <1>1, <1>2, <1>3

LEMMA SignalFullHolds ==
  ASSUME CleanInv, Shmem!SignalFull(s1)
  PROVE  CleanInv'
<1> USE ShmemConstants
<1>0. ShmemTypes /\ Undoes /\ Counted /\ Binary /\ InStep /\ SoFar
  BY DEF CleanInv
<1> USE <1>0
<1>1. /\ spc[s1] = "signal" /\ Others
      /\ \/ sem[4] >= 2 /\ sem[1] + 1 >= 0 /\ Did(s1, (IF block[s1] = Shmem!Eof THEN "end" ELSE "wait"), Plus(sem, 1, 1), undo[s1])
         \/ sem[4] < 2 /\ Fails(s1)
  <2>1. Typed(s1)
    BY ShmemTyped
  <2> QED
    BY <2>1, TransferSemop DEF Shmem!SignalFull, Shmem!Full
<1>2. CASE sem[4] >= 2 /\ sem[1] + 1 >= 0 /\ Did(s1, (IF block[s1] = Shmem!Eof THEN "end" ELSE "wait"), Plus(sem, 1, 1), undo[s1])
  <2>1. /\ spc' \in [{r1, s1} -> Shmem!Locations] /\ spc'[s1] = (IF block[s1] = Shmem!Eof THEN "end" ELSE "wait") /\ spc'[r1] = spc[r1]
    <3>1. (IF block[s1] = Shmem!Eof THEN "end" ELSE "wait") \in Shmem!Locations /\ Stepped(s1, (IF block[s1] = Shmem!Eof THEN "end" ELSE "wait"))
      BY <1>1, <1>2 DEF Did, Fails, Shmem!Locations, Shmem!Over
    <3> QED
      BY <3>1, StepValues
  <2>2. /\ sem' \in [Shmem!Semaphores -> Nat] /\ sem'[1] = sem[1] + 1
        /\ sem'[0] = sem[0] /\ sem'[2] = sem[2] /\ sem'[3] = sem[3] /\ sem'[4] = sem[4]
    <3>1. sem[1] \in Nat /\ sem' = Plus(sem, 1, 1)
      BY <1>1, <1>2 DEF Did, ShmemTypes
    <3>2. sem[1] + 1 \in Nat
      BY <1>1, <1>2, <3>1 DEF Binary
    <3>3. 1 \in Int /\ 1 \in Shmem!Semaphores
      OBVIOUS
    <3>4. /\ sem' \in [Shmem!Semaphores -> Nat] /\ sem'[1] = sem[1] + 1
          /\ \A j \in Shmem!Semaphores : j # 1 => sem'[j] = sem[j]
      BY <3>1, <3>2, <3>3, SemValues, Zenon
    <3> QED
      BY <3>4
  <2>3. undo' = undo
    BY <1>1, <1>2 DEF Did, Fails, ShmemTypes
  <2>4. UNCHANGED <<shmem, block, toReset, sprinted>> /\ failed' = failed
    BY <1>1, <1>2 DEF Did, Fails, Others
  <2>5. ShmemTypes'
    BY <1>1, <1>2, <2>1, <2>2, <2>3, <2>4 DEF ShmemTypes
  <2>6. Undoes'
    BY <1>1, <1>2, <2>1, <2>2, <2>3, <2>4 DEF Undoes, Plays, Out, Born, Shmem!Over
  <2>7. Binary'
    BY <1>1, <1>2, <2>1, <2>2, <2>3, <2>4 DEF Binary, ShmemTypes, InStep, Early, Free, Waits, Filling, SentOf, Filled, Taking, Plays, Out, Born, Extra, Counted, Shmem!Over
  <2>8. SoFar' /\ Printed' = Printed
    BY <1>1, <1>2, <2>1, <2>2, <2>3, <2>4 DEF SoFar, Printed
  <2>9. Counted'
    BY <1>1, <1>2, <2>1, <2>2, <2>3, <2>4, <2>8 DEF Counted, Plays, Out, Born, Extra, Shmem!Over
  <2>10. InStep'
    <3>1. block[s1] \in 0 .. ShmemBlocks + 1
      BY DEF ShmemTypes
    <3>2. Plays(r1) => Filling /\ Printed + 1 = block[s1]
      BY <1>1, <3>1 DEF InStep, Early, Free, Waits, Filling, SentOf, Filled, Taking, Plays, Out, Shmem!Over
    <3>3. Plays(r1)' /\ Plays(s1)' => Filled'
      BY <1>1, <1>2, <2>1, <2>2, <2>3, <2>4, <2>8, <3>1, <3>2 DEF Filling, Filled, Waits, SentOf, Plays, Out, Shmem!Over
    <3> QED
      BY <1>1, <1>2, <2>1, <2>2, <2>3, <2>4, <3>1, <3>3 DEF InStep
  <2> QED
    BY <2>5, <2>6, <2>7, <2>8, <2>9, <2>10 DEF CleanInv
<1>3. CASE sem[4] < 2 /\ Fails(s1)
  <2>1. /\ spc' \in [{r1, s1} -> Shmem!Locations] /\ spc'[s1] = "reset" /\ spc'[r1] = spc[r1]
    <3>1. "reset" \in Shmem!Locations /\ Stepped(s1, "reset")
      BY <1>1, <1>3 DEF Did, Fails, Shmem!Locations, Shmem!Over
    <3> QED
      BY <3>1, StepValues
  <2>2. sem' = sem /\ sem' \in [Shmem!Semaphores -> Nat]
    BY <1>1, <1>3 DEF Did, Fails, ShmemTypes
  <2>3. undo' = undo
    BY <1>1, <1>3 DEF Did, Fails, ShmemTypes
  <2>4. UNCHANGED <<shmem, block, toReset, sprinted>> /\ failed' = [failed EXCEPT ![s1] = TRUE]
    BY <1>1, <1>3 DEF Did, Fails, Others
  <2>5. ShmemTypes'
    BY <1>1, <1>3, <2>1, <2>2, <2>3, <2>4 DEF ShmemTypes
  <2>6. Undoes'
    BY <1>1, <1>3, <2>1, <2>2, <2>3, <2>4 DEF Undoes, Plays, Out, Born, Shmem!Over
  <2>7. Binary'
    BY <1>1, <1>3, <2>1, <2>2, <2>3, <2>4 DEF Binary
  <2>8. SoFar' /\ Printed' = Printed
    BY <1>1, <1>3, <2>1, <2>2, <2>3, <2>4 DEF SoFar, Printed
  <2>9. Counted'
    BY <1>1, <1>3, <2>1, <2>2, <2>3, <2>4, <2>8 DEF InStep, Early, Free, Waits, Filling, SentOf, Filled, Taking, Plays, Out, Born, Extra, Counted, Shmem!Over
  <2>10. InStep'
    BY <1>1, <1>3, <2>1, <2>2, <2>3, <2>4, <2>8 DEF InStep, Plays, Out, Shmem!Over
  <2> QED
    BY <2>5, <2>6, <2>7, <2>8, <2>9, <2>10 DEF CleanInv
<1> QED
  BY <1>1, <1>2, <1>3

LEMMA SenderEndHolds ==
  ASSUME CleanInv, Shmem!SenderEnd(s1)
  PROVE  CleanInv'
<1> USE ShmemConstants
<1>0. ShmemTypes /\ Undoes /\ Counted /\ Binary /\ InStep /\ SoFar
  BY DEF CleanInv
<1> USE <1>0
<1>1. /\ spc[s1] = "end" /\ Others
      /\ \/ sem[4] >= 2 /\ Did(s1, "wait_both", Plus(sem, 4, 1), undo[s1])
         \/ sem[4] < 2 /\ Fails(s1)
  <2>1. Typed(s1)
    BY ShmemTyped
  <2> QED
    BY <2>1, EndSemop DEF Shmem!SenderEnd
<1>2. CASE sem[4] >= 2 /\ Did(s1, "wait_both", Plus(sem, 4, 1), undo[s1])
  <2>1. /\ spc' \in [{r1, s1} -> Shmem!Locations] /\ spc'[s1] = "wait_both" /\ spc'[r1] = spc[r1]
    <3>1. "wait_both" \in Shmem!Locations /\ Stepped(s1, "wait_both")
      BY <1>1, <1>2 DEF Did, Fails, Shmem!Locations, Shmem!Over
    <3> QED
      BY <3>1, StepValues
  <2>2. /\ sem' \in [Shmem!Semaphores -> Nat] /\ sem'[4] = sem[4] + 1
        /\ sem'[0] = sem[0] /\ sem'[1] = sem[1] /\ sem'[2] = sem[2] /\ sem'[3] = sem[3]
    <3>1. sem[4] \in Nat /\ sem' = Plus(sem, 4, 1)
      BY <1>1, <1>2 DEF Did, ShmemTypes
    <3>2. sem[4] + 1 \in Nat
      BY <1>1, <1>2, <3>1 DEF Counted, Plays, Out, Born, Extra, Shmem!Over
    <3>3. 1 \in Int /\ 4 \in Shmem!Semaphores
      OBVIOUS
    <3>4. /\ sem' \in [Shmem!Semaphores -> Nat] /\ sem'[4] = sem[4] + 1
          /\ \A j \in Shmem!Semaphores : j # 4 => sem'[j] = sem[j]
      BY <3>1, <3>2, <3>3, SemValues, Zenon
    <3> QED
      BY <3>4
  <2>3. undo' = undo
    BY <1>1, <1>2 DEF Did, Fails, ShmemTypes
  <2>4. UNCHANGED <<shmem, block, toReset, sprinted>> /\ failed' = failed
    BY <1>1, <1>2 DEF Did, Fails, Others
  <2>5. ShmemTypes'
    BY <1>1, <1>2, <2>1, <2>2, <2>3, <2>4 DEF ShmemTypes
  <2>6. Undoes'
    BY <1>1, <1>2, <2>1, <2>2, <2>3, <2>4 DEF Undoes, Plays, Out, Born, Shmem!Over
  <2>7. Binary'
    BY <1>1, <1>2, <2>1, <2>2, <2>3, <2>4 DEF Binary
  <2>8. SoFar' /\ Printed' = Printed
    BY <1>1, <1>2, <2>1, <2>2, <2>3, <2>4 DEF SoFar, Printed
  <2>9. Counted'
    BY <1>1, <1>2, <2>1, <2>2, <2>3, <2>4, <2>8 DEF Counted, Plays, Out, Born, Extra, Shmem!Over
  <2>10. InStep'
    BY <1>1, <1>2, <2>1, <2>2, <2>3, <2>4, <2>8 DEF InStep, Early, Free, Waits, Filling, SentOf, Filled, Taking, Plays, Out, Shmem!Over
  <2> QED
    BY <2>5, <2>6, <2>7, <2>8, <2>9, <2>10 DEF CleanInv
<1>3. CASE sem[4] < 2 /\ Fails(s1)
  <2>1. /\ spc' \in [{r1, s1} -> Shmem!Locations] /\ spc'[s1] = "reset" /\ spc'[r1] = spc[r1]
    <3>1. "reset" \in Shmem!Locations /\ Stepped(s1, "reset")
      BY <1>1, <1>3 DEF Did, Fails, Shmem!Locations, Shmem!Over
    <3> QED
      BY <3>1, StepValues
  <2>2. sem' = sem /\ sem' \in [Shmem!Semaphores -> Nat]
    BY <1>1, <1>3 DEF Did, Fails, ShmemTypes
  <2>3. undo' = undo
    BY <1>1, <1>3 DEF Did, Fails, ShmemTypes
  <2>4. UNCHANGED <<shmem, block, toReset, sprinted>> /\ failed' = [failed EXCEPT ![s1] = TRUE]
    BY <1>1, <1>3 DEF Did, Fails, Others
  <2>5. ShmemTypes'
    BY <1>1, <1>3, <2>1, <2>2, <2>3, <2>4 DEF ShmemTypes
  <2>6. Undoes'
    BY <1>1, <1>3, <2>1, <2>2, <2>3, <2>4 DEF Undoes, Plays, Out, Born, Shmem!Over
  <2>7. Binary'
    BY <1>1, <1>3, <2>1, <2>2, <2>3, <2>4 DEF Binary
  <2>8. SoFar' /\ Printed' = Printed
    BY <1>1, <1>3, <2>1, <2>2, <2>3, <2>4 DEF SoFar, Printed
  <2>9. Counted'
    BY <1>1, <1>3, <2>1, <2>2, <2>3, <2>4, <2>8 DEF InStep, Early, Free, Waits, Filling, SentOf, Filled, Taking, Plays, Out, Born, Extra, Counted, Shmem!Over
  <2>10. InStep'
    BY <1>1, <1>3, <2>1, <2>2, <2>3, <2>4, <2>8 DEF InStep, Plays, Out, Shmem!Over
  <2> QED
    BY <2>5, <2>6, <2>7, <2>8, <2>9, <2>10 DEF CleanInv
<1> QED
  BY <1>1, <1>2, <1>3

LEMMA ReceiverBirthHolds ==
  ASSUME CleanInv, Shmem!Birth(r1)
  PROVE  CleanInv'
<1> USE ShmemConstants
<1>0. ShmemTypes /\ Undoes /\ Counted /\ Binary /\ InStep /\ SoFar
  BY DEF CleanInv
<1> USE <1>0
<1>1. spc[r1] = "birth" /\ Others /\ Did(r1, "prevent", Plus(sem, 4, 1), Plus(undo[r1], 4, -1))
  <2>1. Typed(r1) /\ sem[4] >= 0
    BY ShmemTyped DEF ShmemTypes
  <2> QED
    BY <2>1, BirthSemop
<1>2. CASE TRUE
  <2>1. /\ spc' \in [{r1, s1} -> Shmem!Locations] /\ spc'[r1] = "prevent" /\ spc'[s1] = spc[s1]
    <3>1. "prevent" \in Shmem!Locations /\ Stepped(r1, "prevent")
      BY <1>1, <1>2 DEF Did, Fails, Shmem!Locations, Shmem!Over
    <3> QED
      BY <3>1, StepValues
  <2>2. /\ sem' \in [Shmem!Semaphores -> Nat] /\ sem'[4] = sem[4] + 1
        /\ sem'[0] = sem[0] /\ sem'[1] = sem[1] /\ sem'[2] = sem[2] /\ sem'[3] = sem[3]
    <3>1. sem[4] \in Nat /\ sem' = Plus(sem, 4, 1)
      BY <1>1, <1>2 DEF Did, ShmemTypes
    <3>2. sem[4] + 1 \in Nat
      BY <1>1, <1>2, <3>1 DEF Counted, Plays, Out, Born, Extra, Shmem!Over
    <3>3. 1 \in Int /\ 4 \in Shmem!Semaphores
      OBVIOUS
    <3>4. /\ sem' \in [Shmem!Semaphores -> Nat] /\ sem'[4] = sem[4] + 1
          /\ \A j \in Shmem!Semaphores : j # 4 => sem'[j] = sem[j]
      BY <3>1, <3>2, <3>3, SemValues, Zenon
    <3> QED
      BY <3>4
  <2>3. /\ undo' \in [{r1, s1} -> [Shmem!Semaphores -> -1 .. 1]] /\ undo'[r1][4] = undo[r1][4] + -1
        /\ undo'[r1][0] = undo[r1][0] /\ undo'[r1][1] = undo[r1][1] /\ undo'[r1][2] = undo[r1][2] /\ undo'[r1][3] = undo[r1][3]
        /\ undo'[s1] = undo[s1]
    <3>1. undo' = [undo EXCEPT ![r1] = Plus(undo[r1], 4, -1)]
      BY <1>1, <1>2 DEF Did
    <3>2. undo[r1][4] + -1 \in -1 .. 1
      BY <1>1, <1>2 DEF Undoes, Plays, Out, Born, Shmem!Over
    <3>3. -1 \in Int /\ 4 \in Shmem!Semaphores
      OBVIOUS
    <3>4. /\ undo' \in [{r1, s1} -> [Shmem!Semaphores -> -1 .. 1]] /\ undo'[r1][4] = undo[r1][4] + -1
          /\ \A j \in Shmem!Semaphores : j # 4 => undo'[r1][j] = undo[r1][j]
          /\ \A j \in {r1, s1} : j # r1 => undo'[j] = undo[j]
      BY <3>1, <3>2, <3>3, UndoPlusValues
    <3> QED
      BY <3>4
  <2>4. UNCHANGED <<shmem, block, toReset, sprinted>> /\ failed' = failed
    BY <1>1, <1>2 DEF Did, Fails, Others
  <2>5. ShmemTypes'
    BY <1>1, <1>2, <2>1, <2>2, <2>3, <2>4 DEF ShmemTypes
  <2>6. Undoes'
    BY <1>1, <1>2, <2>1, <2>2, <2>3, <2>4 DEF Undoes, Plays, Out, Born, Shmem!Over
  <2>7. Binary'
    BY <1>1, <1>2, <2>1, <2>2, <2>3, <2>4 DEF Binary
  <2>8. SoFar' /\ Printed' = Printed
    BY <1>1, <1>2, <2>1, <2>2, <2>3, <2>4 DEF SoFar, Printed
  <2>9. Counted'
    <3>1. sem[4] \in Nat /\ undo[r1][4] \in -1 .. 1 /\ undo[s1][4] \in -1 .. 1
      BY DEF ShmemTypes
    <3> QED
      BY <1>1, <2>1, <2>2, <2>3, <2>4, <2>8, <3>1 DEF Counted, Plays, Out, Born, Extra, Shmem!Over
  <2>10. InStep'
    BY <1>1, <1>2, <2>1, <2>2, <2>3, <2>4, <2>8 DEF InStep, Early, Free, Waits, Filling, SentOf, Filled, Taking, Plays, Out, Shmem!Over
  <2> QED
    BY <2>5, <2>6, <2>7, <2>8, <2>9, <2>10 DEF CleanInv
<1> QED
  BY <1>1, <1>2

LEMMA ReceiverPreventHolds ==
  ASSUME CleanInv, Shmem!Prevent(r1, 0)
  PROVE  CleanInv'
<1> USE ShmemConstants
<1>0. ShmemTypes /\ Undoes /\ Counted /\ Binary /\ InStep /\ SoFar
  BY DEF CleanInv
<1> USE <1>0
<1>1. spc[r1] = "prevent" /\ Others /\ Did(r1, "go", sem, Plus(undo[r1], 0, 1))
  <2>1. Typed(r1) /\ sem[0] >= 0
    BY ShmemTyped DEF ShmemTypes
  <2> QED
    BY <2>1, PreventSemop
<1>2. CASE TRUE
  <2>1. /\ spc' \in [{r1, s1} -> Shmem!Locations] /\ spc'[r1] = "go" /\ spc'[s1] = spc[s1]
    <3>1. "go" \in Shmem!Locations /\ Stepped(r1, "go")
      BY <1>1, <1>2 DEF Did, Fails, Shmem!Locations, Shmem!Over
    <3> QED
      BY <3>1, StepValues
  <2>2. sem' = sem /\ sem' \in [Shmem!Semaphores -> Nat]
    BY <1>1, <1>2 DEF Did, Fails, ShmemTypes
  <2>3. /\ undo' \in [{r1, s1} -> [Shmem!Semaphores -> -1 .. 1]] /\ undo'[r1][0] = undo[r1][0] + 1
        /\ undo'[r1][1] = undo[r1][1] /\ undo'[r1][2] = undo[r1][2] /\ undo'[r1][3] = undo[r1][3] /\ undo'[r1][4] = undo[r1][4]
        /\ undo'[s1] = undo[s1]
    <3>1. undo' = [undo EXCEPT ![r1] = Plus(undo[r1], 0, 1)]
      BY <1>1, <1>2 DEF Did
    <3>2. undo[r1][0] + 1 \in -1 .. 1
      BY <1>1, <1>2 DEF Undoes, Plays, Out, Born, Shmem!Over
    <3>3. 1 \in Int /\ 0 \in Shmem!Semaphores
      OBVIOUS
    <3>4. /\ undo' \in [{r1, s1} -> [Shmem!Semaphores -> -1 .. 1]] /\ undo'[r1][0] = undo[r1][0] + 1
          /\ \A j \in Shmem!Semaphores : j # 0 => undo'[r1][j] = undo[r1][j]
          /\ \A j \in {r1, s1} : j # r1 => undo'[j] = undo[j]
      BY <3>1, <3>2, <3>3, UndoPlusValues
    <3> QED
      BY <3>4
  <2>4. UNCHANGED <<shmem, block, toReset, sprinted>> /\ failed' = failed
    BY <1>1, <1>2 DEF Did, Fails, Others
  <2>5. ShmemTypes'
    BY <1>1, <1>2, <2>1, <2>2, <2>3, <2>4 DEF ShmemTypes
  <2>6. Undoes'
    BY <1>1, <1>2, <2>1, <2>2, <2>3, <2>4 DEF Undoes, Plays, Out, Born, Shmem!Over
  <2>7. Binary'
    BY <1>1, <1>2, <2>1, <2>2, <2>3, <2>4 DEF Binary
  <2>8. SoFar' /\ Printed' = Printed
    BY <1>1, <1>2, <2>1, <2>2, <2>3, <2>4 DEF SoFar, Printed
  <2>9. Counted'
    BY <1>1, <1>2, <2>1, <2>2, <2>3, <2>4, <2>8 DEF Counted, Plays, Out, Born, Extra, Shmem!Over
  <2>10. InStep'
    BY <1>1, <1>2, <2>1, <2>2, <2>3, <2>4, <2>8 DEF InStep, Early, Free, Waits, Filling, SentOf, Filled, Taking, Plays, Out, Shmem!Over
  <2> QED
    BY <2>5, <2>6, <2>7, <2>8, <2>9, <2>10 DEF CleanInv
<1> QED
  BY <1>1, <1>2

LEMMA ReceiverGoHolds ==
  ASSUME CleanInv, Shmem!Go(r1)
  PROVE  CleanInv'
<1> USE ShmemConstants
<1>0. ShmemTypes /\ Undoes /\ Counted /\ Binary /\ InStep /\ SoFar
  BY DEF CleanInv
<1> USE <1>0
<1>1. spc[r1] = "go" /\ Others /\ sem[4] >= 2 /\ Did(r1, "wait", sem, undo[r1])
  <2>1. Typed(r1)
    BY ShmemTyped
  <2> QED
    BY <2>1, GoSemop
<1>2. CASE TRUE
  <2>1. /\ spc' \in [{r1, s1} -> Shmem!Locations] /\ spc'[r1] = "wait" /\ spc'[s1] = spc[s1]
    <3>1. "wait" \in Shmem!Locations /\ Stepped(r1, "wait")
      BY <1>1, <1>2 DEF Did, Fails, Shmem!Locations, Shmem!Over
    <3> QED
      BY <3>1, StepValues
  <2>2. sem' = sem /\ sem' \in [Shmem!Semaphores -> Nat]
    BY <1>1, <1>2 DEF Did, Fails, ShmemTypes
  <2>3. undo' = undo
    BY <1>1, <1>2 DEF Did, Fails, ShmemTypes
  <2>4. UNCHANGED <<shmem, block, toReset, sprinted>> /\ failed' = failed
    BY <1>1, <1>2 DEF Did, Fails, Others
  <2>5. ShmemTypes'
    BY <1>1, <1>2, <2>1, <2>2, <2>3, <2>4 DEF ShmemTypes
  <2>6. Undoes'
    BY <1>1, <1>2, <2>1, <2>2, <2>3, <2>4 DEF Undoes, Plays, Out, Born, Shmem!Over
  <2>7. Binary'
    BY <1>1, <1>2, <2>1, <2>2, <2>3, <2>4 DEF Binary
  <2>8. SoFar' /\ Printed' = Printed
    BY <1>1, <1>2, <2>1, <2>2, <2>3, <2>4 DEF SoFar, Printed
  <2>9. Counted'
    BY <1>1, <1>2, <2>1, <2>2, <2>3, <2>4, <2>8 DEF Counted, Plays, Out, Born, Extra, Shmem!Over
  <2>10. InStep'
    BY <1>1, <1>2, <2>1, <2>2, <2>3, <2>4, <2>8 DEF InStep, Early, Free, Waits, Filling, SentOf, Filled, Taking, Plays, Out, Born, Extra, Counted, Shmem!Over
  <2> QED
    BY <2>5, <2>6, <2>7, <2>8, <2>9, <2>10 DEF CleanInv
<1> QED
  BY <1>1, <1>2

LEMMA ReceiverChooseHolds ==
  ASSUME CleanInv, Shmem!Choose(r1, 3)
  PROVE  CleanInv'
<1> USE ShmemConstants
<1>0. ShmemTypes /\ Undoes /\ Counted /\ Binary /\ InStep /\ SoFar
  BY DEF CleanInv
<1> USE <1>0
<1>1. /\ spc[r1] = "sync" /\ Others /\ failed' = failed
      /\ \/ sem[3] = 0 /\ Did(r1, "birth", Plus(sem, 3, 1), Plus(undo[r1], 3, -1))
         \/ UNCHANGED <<sem, undo>> /\ Stepped(r1, "refused")
  <2>1. Typed(r1) /\ sem[3] >= 0
    BY ShmemTyped DEF ShmemTypes
  <2> QED
    BY <2>1, ChooseStep
<1>2. CASE sem[3] = 0 /\ Did(r1, "birth", Plus(sem, 3, 1), Plus(undo[r1], 3, -1))
  <2>1. /\ spc' \in [{r1, s1} -> Shmem!Locations] /\ spc'[r1] = "birth" /\ spc'[s1] = spc[s1]
    <3>1. "birth" \in Shmem!Locations /\ Stepped(r1, "birth")
      BY <1>1, <1>2 DEF Did, Fails, Shmem!Locations, Shmem!Over
    <3> QED
      BY <3>1, StepValues
  <2>2. /\ sem' \in [Shmem!Semaphores -> Nat] /\ sem'[3] = sem[3] + 1
        /\ sem'[0] = sem[0] /\ sem'[1] = sem[1] /\ sem'[2] = sem[2] /\ sem'[4] = sem[4]
    <3>1. sem[3] \in Nat /\ sem' = Plus(sem, 3, 1)
      BY <1>1, <1>2 DEF Did, ShmemTypes
    <3>2. sem[3] + 1 \in Nat
      BY <1>1, <1>2, <3>1 DEF Binary
    <3>3. 1 \in Int /\ 3 \in Shmem!Semaphores
      OBVIOUS
    <3>4. /\ sem' \in [Shmem!Semaphores -> Nat] /\ sem'[3] = sem[3] + 1
          /\ \A j \in Shmem!Semaphores : j # 3 => sem'[j] = sem[j]
      BY <3>1, <3>2, <3>3, SemValues, Zenon
    <3> QED
      BY <3>4
  <2>3. /\ undo' \in [{r1, s1} -> [Shmem!Semaphores -> -1 .. 1]] /\ undo'[r1][3] = undo[r1][3] + -1
        /\ undo'[r1][0] = undo[r1][0] /\ undo'[r1][1] = undo[r1][1] /\ undo'[r1][2] = undo[r1][2] /\ undo'[r1][4] = undo[r1][4]
        /\ undo'[s1] = undo[s1]
    <3>1. undo' = [undo EXCEPT ![r1] = Plus(undo[r1], 3, -1)]
      BY <1>1, <1>2 DEF Did
    <3>2. undo[r1][3] + -1 \in -1 .. 1
      BY <1>1, <1>2 DEF Undoes, Plays, Out, Born, Shmem!Over
    <3>3. -1 \in Int /\ 3 \in Shmem!Semaphores
      OBVIOUS
    <3>4. /\ undo' \in [{r1, s1} -> [Shmem!Semaphores -> -1 .. 1]] /\ undo'[r1][3] = undo[r1][3] + -1
          /\ \A j \in Shmem!Semaphores : j # 3 => undo'[r1][j] = undo[r1][j]
          /\ \A j \in {r1, s1} : j # r1 => undo'[j] = undo[j]
      BY <3>1, <3>2, <3>3, UndoPlusValues
    <3> QED
      BY <3>4
  <2>4. UNCHANGED <<shmem, block, toReset, sprinted>> /\ failed' = failed
    BY <1>1, <1>2 DEF Did, Fails, Others
  <2>5. ShmemTypes'
    BY <1>1, <1>2, <2>1, <2>2, <2>3, <2>4 DEF ShmemTypes
  <2>6. Undoes'
    BY <1>1, <1>2, <2>1, <2>2, <2>3, <2>4 DEF Undoes, Plays, Out, Born, Shmem!Over
  <2>7. Binary'
    BY <1>1, <1>2, <2>1, <2>2, <2>3, <2>4 DEF Binary
  <2>8. SoFar' /\ Printed' = Printed
    BY <1>1, <1>2, <2>1, <2>2, <2>3, <2>4 DEF SoFar, Printed
  <2>9. Counted'
    BY <1>1, <1>2, <2>1, <2>2, <2>3, <2>4, <2>8 DEF Counted, Plays, Out, Born, Extra, Shmem!Over
  <2>10. InStep'
    BY <1>1, <1>2, <2>1, <2>2, <2>3, <2>4, <2>8 DEF InStep, Early, Free, Waits, Filling, SentOf, Filled, Taking, Plays, Out, Shmem!Over
  <2> QED
    BY <2>5, <2>6, <2>7, <2>8, <2>9, <2>10 DEF CleanInv
<1>3. CASE UNCHANGED <<sem, undo>> /\ Stepped(r1, "refused")
  <2>1. /\ spc' \in [{r1, s1} -> Shmem!Locations] /\ spc'[r1] = "refused" /\ spc'[s1] = spc[s1]
    <3>1. "refused" \in Shmem!Locations /\ Stepped(r1, "refused")
      BY <1>1, <1>3 DEF Did, Fails, Shmem!Locations, Shmem!Over
    <3> QED
      BY <3>1, StepValues
  <2>2. sem' = sem /\ sem' \in [Shmem!Semaphores -> Nat]
    BY <1>1, <1>3 DEF Did, Fails, ShmemTypes
  <2>3. undo' = undo
    BY <1>1, <1>3 DEF Did, Fails, ShmemTypes
  <2>4. UNCHANGED <<shmem, block, toReset, sprinted>> /\ failed' = failed
    BY <1>1, <1>3 DEF Did, Fails, Others
  <2>5. ShmemTypes'
    BY <1>1, <1>3, <2>1, <2>2, <2>3, <2>4 DEF ShmemTypes
  <2>6. Undoes'
    BY <1>1, <1>3, <2>1, <2>2, <2>3, <2>4 DEF Undoes, Plays, Out, Born, Shmem!Over
  <2>7. Binary'
    BY <1>1, <1>3, <2>1, <2>2, <2>3, <2>4 DEF Binary
  <2>8. SoFar' /\ Printed' = Printed
    BY <1>1, <1>3, <2>1, <2>2, <2>3, <2>4 DEF SoFar, Printed
  <2>9. Counted'
    BY <1>1, <1>3, <2>1, <2>2, <2>3, <2>4, <2>8 DEF Counted, Plays, Out, Born, Extra, Shmem!Over
  <2>10. InStep'
    BY <1>1, <1>3, <2>1, <2>2, <2>3, <2>4, <2>8 DEF InStep, Plays, Out, Shmem!Over
  <2> QED
    BY <2>5, <2>6, <2>7, <2>8, <2>9, <2>10 DEF CleanInv
<1> QED
  BY <1>1, <1>2, <1>3

LEMMA SenderBirthHolds ==
  ASSUME CleanInv, Shmem!Birth(s1)
  PROVE  CleanInv'
<1> USE ShmemConstants
<1>0. ShmemTypes /\ Undoes /\ Counted /\ Binary /\ InStep /\ SoFar
  BY DEF CleanInv
<1> USE <1>0
<1>1. spc[s1] = "birth" /\ Others /\ Did(s1, "prevent", Plus(sem, 4, 1), Plus(undo[s1], 4, -1))
  <2>1. Typed(s1) /\ sem[4] >= 0
    BY ShmemTyped DEF ShmemTypes
  <2> QED
    BY <2>1, BirthSemop
<1>2. CASE TRUE
  <2>1. /\ spc' \in [{r1, s1} -> Shmem!Locations] /\ spc'[s1] = "prevent" /\ spc'[r1] = spc[r1]
    <3>1. "prevent" \in Shmem!Locations /\ Stepped(s1, "prevent")
      BY <1>1, <1>2 DEF Did, Fails, Shmem!Locations, Shmem!Over
    <3> QED
      BY <3>1, StepValues
  <2>2. /\ sem' \in [Shmem!Semaphores -> Nat] /\ sem'[4] = sem[4] + 1
        /\ sem'[0] = sem[0] /\ sem'[1] = sem[1] /\ sem'[2] = sem[2] /\ sem'[3] = sem[3]
    <3>1. sem[4] \in Nat /\ sem' = Plus(sem, 4, 1)
      BY <1>1, <1>2 DEF Did, ShmemTypes
    <3>2. sem[4] + 1 \in Nat
      BY <1>1, <1>2, <3>1 DEF Counted, Plays, Out, Born, Extra, Shmem!Over
    <3>3. 1 \in Int /\ 4 \in Shmem!Semaphores
      OBVIOUS
    <3>4. /\ sem' \in [Shmem!Semaphores -> Nat] /\ sem'[4] = sem[4] + 1
          /\ \A j \in Shmem!Semaphores : j # 4 => sem'[j] = sem[j]
      BY <3>1, <3>2, <3>3, SemValues, Zenon
    <3> QED
      BY <3>4
  <2>3. /\ undo' \in [{r1, s1} -> [Shmem!Semaphores -> -1 .. 1]] /\ undo'[s1][4] = undo[s1][4] + -1
        /\ undo'[s1][0] = undo[s1][0] /\ undo'[s1][1] = undo[s1][1] /\ undo'[s1][2] = undo[s1][2] /\ undo'[s1][3] = undo[s1][3]
        /\ undo'[r1] = undo[r1]
    <3>1. undo' = [undo EXCEPT ![s1] = Plus(undo[s1], 4, -1)]
      BY <1>1, <1>2 DEF Did
    <3>2. undo[s1][4] + -1 \in -1 .. 1
      BY <1>1, <1>2 DEF Undoes, Plays, Out, Born, Shmem!Over
    <3>3. -1 \in Int /\ 4 \in Shmem!Semaphores
      OBVIOUS
    <3>4. /\ undo' \in [{r1, s1} -> [Shmem!Semaphores -> -1 .. 1]] /\ undo'[s1][4] = undo[s1][4] + -1
          /\ \A j \in Shmem!Semaphores : j # 4 => undo'[s1][j] = undo[s1][j]
          /\ \A j \in {r1, s1} : j # s1 => undo'[j] = undo[j]
      BY <3>1, <3>2, <3>3, UndoPlusValues
    <3> QED
      BY <3>4
  <2>4. UNCHANGED <<shmem, block, toReset, sprinted>> /\ failed' = failed
    BY <1>1, <1>2 DEF Did, Fails, Others
  <2>5. ShmemTypes'
    BY <1>1, <1>2, <2>1, <2>2, <2>3, <2>4 DEF ShmemTypes
  <2>6. Undoes'
    BY <1>1, <1>2, <2>1, <2>2, <2>3, <2>4 DEF Undoes, Plays, Out, Born, Shmem!Over
  <2>7. Binary'
    BY <1>1, <1>2, <2>1, <2>2, <2>3, <2>4 DEF Binary
  <2>8. SoFar' /\ Printed' = Printed
    BY <1>1, <1>2, <2>1, <2>2, <2>3, <2>4 DEF SoFar, Printed
  <2>9. Counted'
    <3>1. sem[4] \in Nat /\ undo[r1][4] \in -1 .. 1 /\ undo[s1][4] \in -1 .. 1
      BY DEF ShmemTypes
    <3> QED
      BY <1>1, <2>1, <2>2, <2>3, <2>4, <2>8, <3>1 DEF Counted, Plays, Out, Born, Extra, Shmem!Over
  <2>10. InStep'
    BY <1>1, <1>2, <2>1, <2>2, <2>3, <2>4, <2>8 DEF InStep, Early, Free, Waits, Filling, SentOf, Filled, Taking, Plays, Out, Shmem!Over
  <2> QED
    BY <2>5, <2>6, <2>7, <2>8, <2>9, <2>10 DEF CleanInv
<1> QED
  BY <1>1, <1>2

LEMMA SenderPreventHolds ==
  ASSUME CleanInv, Shmem!Prevent(s1, 1)
  PROVE  CleanInv'
<1> USE ShmemConstants
<1>0. ShmemTypes /\ Undoes /\ Counted /\ Binary /\ InStep /\ SoFar
  BY DEF CleanInv
<1> USE <1>0
<1>1. spc[s1] = "prevent" /\ Others /\ Did(s1, "go", sem, Plus(undo[s1], 1, 1))
  <2>1. Typed(s1) /\ sem[1] >= 0
    BY ShmemTyped DEF ShmemTypes
  <2> QED
    BY <2>1, PreventSemop
<1>2. CASE TRUE
  <2>1. /\ spc' \in [{r1, s1} -> Shmem!Locations] /\ spc'[s1] = "go" /\ spc'[r1] = spc[r1]
    <3>1. "go" \in Shmem!Locations /\ Stepped(s1, "go")
      BY <1>1, <1>2 DEF Did, Fails, Shmem!Locations, Shmem!Over
    <3> QED
      BY <3>1, StepValues
  <2>2. sem' = sem /\ sem' \in [Shmem!Semaphores -> Nat]
    BY <1>1, <1>2 DEF Did, Fails, ShmemTypes
  <2>3. /\ undo' \in [{r1, s1} -> [Shmem!Semaphores -> -1 .. 1]] /\ undo'[s1][1] = undo[s1][1] + 1
        /\ undo'[s1][0] = undo[s1][0] /\ undo'[s1][2] = undo[s1][2] /\ undo'[s1][3] = undo[s1][3] /\ undo'[s1][4] = undo[s1][4]
        /\ undo'[r1] = undo[r1]
    <3>1. undo' = [undo EXCEPT ![s1] = Plus(undo[s1], 1, 1)]
      BY <1>1, <1>2 DEF Did
    <3>2. undo[s1][1] + 1 \in -1 .. 1
      BY <1>1, <1>2 DEF Undoes, Plays, Out, Born, Shmem!Over
    <3>3. 1 \in Int /\ 1 \in Shmem!Semaphores
      OBVIOUS
    <3>4. /\ undo' \in [{r1, s1} -> [Shmem!Semaphores -> -1 .. 1]] /\ undo'[s1][1] = undo[s1][1] + 1
          /\ \A j \in Shmem!Semaphores : j # 1 => undo'[s1][j] = undo[s1][j]
          /\ \A j \in {r1, s1} : j # s1 => undo'[j] = undo[j]
      BY <3>1, <3>2, <3>3, UndoPlusValues
    <3> QED
      BY <3>4
  <2>4. UNCHANGED <<shmem, block, toReset, sprinted>> /\ failed' = failed
    BY <1>1, <1>2 DEF Did, Fails, Others
  <2>5. ShmemTypes'
    BY <1>1, <1>2, <2>1, <2>2, <2>3, <2>4 DEF ShmemTypes
  <2>6. Undoes'
    BY <1>1, <1>2, <2>1, <2>2, <2>3, <2>4 DEF Undoes, Plays, Out, Born, Shmem!Over
  <2>7. Binary'
    BY <1>1, <1>2, <2>1, <2>2, <2>3, <2>4 DEF Binary
  <2>8. SoFar' /\ Printed' = Printed
    BY <1>1, <1>2, <2>1, <2>2, <2>3, <2>4 DEF SoFar, Printed
  <2>9. Counted'
    BY <1>1, <1>2, <2>1, <2>2, <2>3, <2>4, <2>8 DEF Counted, Plays, Out, Born, Extra, Shmem!Over
  <2>10. InStep'
    BY <1>1, <1>2, <2>1, <2>2, <2>3, <2>4, <2>8 DEF InStep, Early, Free, Waits, Filling, SentOf, Filled, Taking, Plays, Out, Shmem!Over
  <2> QED
    BY <2>5, <2>6, <2>7, <2>8, <2>9, <2>10 DEF CleanInv
<1> QED
  BY <1>1, <1>2

LEMMA SenderGoHolds ==
  ASSUME CleanInv, Shmem!Go(s1)
  PROVE  CleanInv'
<1> USE ShmemConstants
<1>0. ShmemTypes /\ Undoes /\ Counted /\ Binary /\ InStep /\ SoFar
  BY DEF CleanInv
<1> USE <1>0
<1>1. spc[s1] = "go" /\ Others /\ sem[4] >= 2 /\ Did(s1, "wait", sem, undo[s1])
  <2>1. Typed(s1)
    BY ShmemTyped
  <2> QED
    BY <2>1, GoSemop
<1>2. CASE TRUE
  <2>1. /\ spc' \in [{r1, s1} -> Shmem!Locations] /\ spc'[s1] = "wait" /\ spc'[r1] = spc[r1]
    <3>1. "wait" \in Shmem!Locations /\ Stepped(s1, "wait")
      BY <1>1, <1>2 DEF Did, Fails, Shmem!Locations, Shmem!Over
    <3> QED
      BY <3>1, StepValues
  <2>2. sem' = sem /\ sem' \in [Shmem!Semaphores -> Nat]
    BY <1>1, <1>2 DEF Did, Fails, ShmemTypes
  <2>3. undo' = undo
    BY <1>1, <1>2 DEF Did, Fails, ShmemTypes
  <2>4. UNCHANGED <<shmem, block, toReset, sprinted>> /\ failed' = failed
    BY <1>1, <1>2 DEF Did, Fails, Others
  <2>5. ShmemTypes'
    BY <1>1, <1>2, <2>1, <2>2, <2>3, <2>4 DEF ShmemTypes
  <2>6. Undoes'
    BY <1>1, <1>2, <2>1, <2>2, <2>3, <2>4 DEF Undoes, Plays, Out, Born, Shmem!Over
  <2>7. Binary'
    BY <1>1, <1>2, <2>1, <2>2, <2>3, <2>4 DEF Binary
  <2>8. SoFar' /\ Printed' = Printed
    BY <1>1, <1>2, <2>1, <2>2, <2>3, <2>4 DEF SoFar, Printed
  <2>9. Counted'
    BY <1>1, <1>2, <2>1, <2>2, <2>3, <2>4, <2>8 DEF Counted, Plays, Out, Born, Extra, Shmem!Over
  <2>10. InStep'
    BY <1>1, <1>2, <2>1, <2>2, <2>3, <2>4, <2>8 DEF InStep, Early, Free, Waits, Filling, SentOf, Filled, Taking, Plays, Out, Born, Extra, Counted, Shmem!Over
  <2> QED
    BY <2>5, <2>6, <2>7, <2>8, <2>9, <2>10 DEF CleanInv
<1> QED
  BY <1>1, <1>2

LEMMA SenderChooseHolds ==
  ASSUME CleanInv, Shmem!Choose(s1, 2)
  PROVE  CleanInv'
<1> USE ShmemConstants
<1>0. ShmemTypes /\ Undoes /\ Counted /\ Binary /\ InStep /\ SoFar
  BY DEF CleanInv
<1> USE <1>0
<1>1. /\ spc[s1] = "sync" /\ Others /\ failed' = failed
      /\ \/ sem[2] = 0 /\ Did(s1, "set_empty", Plus(sem, 2, 1), Plus(undo[s1], 2, -1))
         \/ UNCHANGED <<sem, undo>> /\ Stepped(s1, "refused")
  <2>1. Typed(s1) /\ sem[2] >= 0
    BY ShmemTyped DEF ShmemTypes
  <2> QED
    BY <2>1, ChooseStep
<1>2. CASE sem[2] = 0 /\ Did(s1, "set_empty", Plus(sem, 2, 1), Plus(undo[s1], 2, -1))
  <2>1. /\ spc' \in [{r1, s1} -> Shmem!Locations] /\ spc'[s1] = "set_empty" /\ spc'[r1] = spc[r1]
    <3>1. "set_empty" \in Shmem!Locations /\ Stepped(s1, "set_empty")
      BY <1>1, <1>2 DEF Did, Fails, Shmem!Locations, Shmem!Over
    <3> QED
      BY <3>1, StepValues
  <2>2. /\ sem' \in [Shmem!Semaphores -> Nat] /\ sem'[2] = sem[2] + 1
        /\ sem'[0] = sem[0] /\ sem'[1] = sem[1] /\ sem'[3] = sem[3] /\ sem'[4] = sem[4]
    <3>1. sem[2] \in Nat /\ sem' = Plus(sem, 2, 1)
      BY <1>1, <1>2 DEF Did, ShmemTypes
    <3>2. sem[2] + 1 \in Nat
      BY <1>1, <1>2, <3>1 DEF Binary
    <3>3. 1 \in Int /\ 2 \in Shmem!Semaphores
      OBVIOUS
    <3>4. /\ sem' \in [Shmem!Semaphores -> Nat] /\ sem'[2] = sem[2] + 1
          /\ \A j \in Shmem!Semaphores : j # 2 => sem'[j] = sem[j]
      BY <3>1, <3>2, <3>3, SemValues, Zenon
    <3> QED
      BY <3>4
  <2>3. /\ undo' \in [{r1, s1} -> [Shmem!Semaphores -> -1 .. 1]] /\ undo'[s1][2] = undo[s1][2] + -1
        /\ undo'[s1][0] = undo[s1][0] /\ undo'[s1][1] = undo[s1][1] /\ undo'[s1][3] = undo[s1][3] /\ undo'[s1][4] = undo[s1][4]
        /\ undo'[r1] = undo[r1]
    <3>1. undo' = [undo EXCEPT ![s1] = Plus(undo[s1], 2, -1)]
      BY <1>1, <1>2 DEF Did
    <3>2. undo[s1][2] + -1 \in -1 .. 1
      BY <1>1, <1>2 DEF Undoes, Plays, Out, Born, Shmem!Over
    <3>3. -1 \in Int /\ 2 \in Shmem!Semaphores
      OBVIOUS
    <3>4. /\ undo' \in [{r1, s1} -> [Shmem!Semaphores -> -1 .. 1]] /\ undo'[s1][2] = undo[s1][2] + -1
          /\ \A j \in Shmem!Semaphores : j # 2 => undo'[s1][j] = undo[s1][j]
          /\ \A j \in {r1, s1} : j # s1 => undo'[j] = undo[j]
      BY <3>1, <3>2, <3>3, UndoPlusValues
    <3> QED
      BY <3>4
  <2>4. UNCHANGED <<shmem, block, toReset, sprinted>> /\ failed' = failed
    BY <1>1, <1>2 DEF Did, Fails, Others
  <2>5. ShmemTypes'
    BY <1>1, <1>2, <2>1, <2>2, <2>3, <2>4 DEF ShmemTypes
  <2>6. Undoes'
    BY <1>1, <1>2, <2>1, <2>2, <2>3, <2>4 DEF Undoes, Plays, Out, Born, Shmem!Over
  <2>7. Binary'
    BY <1>1, <1>2, <2>1, <2>2, <2>3, <2>4 DEF Binary
  <2>8. SoFar' /\ Printed' = Printed
    BY <1>1, <1>2, <2>1, <2>2, <2>3, <2>4 DEF SoFar, Printed
  <2>9. Counted'
    BY <1>1, <1>2, <2>1, <2>2, <2>3, <2>4, <2>8 DEF Counted, Plays, Out, Born, Extra, Shmem!Over
  <2>10. InStep'
    BY <1>1, <1>2, <2>1, <2>2, <2>3, <2>4, <2>8 DEF InStep, Early, Free, Waits, Filling, SentOf, Filled, Taking, Plays, Out, Shmem!Over
  <2> QED
    BY <2>5, <2>6, <2>7, <2>8, <2>9, <2>10 DEF CleanInv
<1>3. CASE UNCHANGED <<sem, undo>> /\ Stepped(s1, "refused")
  <2>1. /\ spc' \in [{r1, s1} -> Shmem!Locations] /\ spc'[s1] = "refused" /\ spc'[r1] = spc[r1]
    <3>1. "refused" \in Shmem!Locations /\ Stepped(s1, "refused")
      BY <1>1, <1>3 DEF Did, Fails, Shmem!Locations, Shmem!Over
    <3> QED
      BY <3>1, StepValues
  <2>2. sem' = sem /\ sem' \in [Shmem!Semaphores -> Nat]
    BY <1>1, <1>3 DEF Did, Fails, ShmemTypes
  <2>3. undo' = undo
    BY <1>1, <1>3 DEF Did, Fails, ShmemTypes
  <2>4. UNCHANGED <<shmem, block, toReset, sprinted>> /\ failed' = failed
    BY <1>1, <1>3 DEF Did, Fails, Others
  <2>5. ShmemTypes'
    BY <1>1, <1>3, <2>1, <2>2, <2>3, <2>4 DEF ShmemTypes
  <2>6. Undoes'
    BY <1>1, <1>3, <2>1, <2>2, <2>3, <2>4 DEF Undoes, Plays, Out, Born, Shmem!Over
  <2>7. Binary'
    BY <1>1, <1>3, <2>1, <2>2, <2>3, <2>4 DEF Binary
  <2>8. SoFar' /\ Printed' = Printed
    BY <1>1, <1>3, <2>1, <2>2, <2>3, <2>4 DEF SoFar, Printed
  <2>9. Counted'
    BY <1>1, <1>3, <2>1, <2>2, <2>3, <2>4, <2>8 DEF Counted, Plays, Out, Born, Extra, Shmem!Over
  <2>10. InStep'
    BY <1>1, <1>3, <2>1, <2>2, <2>3, <2>4, <2>8 DEF InStep, Plays, Out, Shmem!Over
  <2> QED
    BY <2>5, <2>6, <2>7, <2>8, <2>9, <2>10 DEF CleanInv
<1> QED
  BY <1>1, <1>2, <1>3

LEMMA WaitBothHolds ==
  ASSUME CleanInv, Shmem!WaitBoth(s1)
  PROVE  CleanInv'
<1> USE ShmemConstants
<1>0. ShmemTypes /\ Undoes /\ Counted /\ Binary /\ InStep /\ SoFar
  BY DEF CleanInv
<1> USE <1>0
<1>1. spc[s1] = "wait_both" /\ Others /\ sem[4] >= 4 /\ Did(s1, "reset", Plus(sem, 4, -4), undo[s1])
  <2>1. Typed(s1)
    BY ShmemTyped
  <2> QED
    BY <2>1, WaitBothSemop
<1>2. CASE TRUE
  <2>1. /\ spc' \in [{r1, s1} -> Shmem!Locations] /\ spc'[s1] = "reset" /\ spc'[r1] = spc[r1]
    <3>1. "reset" \in Shmem!Locations /\ Stepped(s1, "reset")
      BY <1>1, <1>2 DEF Did, Fails, Shmem!Locations, Shmem!Over
    <3> QED
      BY <3>1, StepValues
  <2>2. /\ sem' \in [Shmem!Semaphores -> Nat] /\ sem'[4] = sem[4] + -4
        /\ sem'[0] = sem[0] /\ sem'[1] = sem[1] /\ sem'[2] = sem[2] /\ sem'[3] = sem[3]
    <3>1. sem[4] \in Nat /\ sem' = Plus(sem, 4, -4)
      BY <1>1, <1>2 DEF Did, ShmemTypes
    <3>2. sem[4] + -4 \in Nat
      BY <1>1, <1>2, <3>1 DEF Binary
    <3>3. -4 \in Int /\ 4 \in Shmem!Semaphores
      OBVIOUS
    <3>4. /\ sem' \in [Shmem!Semaphores -> Nat] /\ sem'[4] = sem[4] + -4
          /\ \A j \in Shmem!Semaphores : j # 4 => sem'[j] = sem[j]
      BY <3>1, <3>2, <3>3, SemValues, Zenon
    <3> QED
      BY <3>4
  <2>3. undo' = undo
    BY <1>1, <1>2 DEF Did, Fails, ShmemTypes
  <2>4. UNCHANGED <<shmem, block, toReset, sprinted>> /\ failed' = failed
    BY <1>1, <1>2 DEF Did, Fails, Others
  <2>5. ShmemTypes'
    BY <1>1, <1>2, <2>1, <2>2, <2>3, <2>4 DEF ShmemTypes
  <2>6. Undoes'
    BY <1>1, <1>2, <2>1, <2>2, <2>3, <2>4 DEF Undoes, Plays, Out, Born, Shmem!Over
  <2>7. Binary'
    BY <1>1, <1>2, <2>1, <2>2, <2>3, <2>4 DEF Binary
  <2>8. SoFar' /\ Printed' = Printed
    BY <1>1, <1>2, <2>1, <2>2, <2>3, <2>4 DEF SoFar, Printed
  <2>9. Counted'
    BY <1>1, <1>2, <2>1, <2>2, <2>3, <2>4, <2>8 DEF Counted, Plays, Out, Born, Extra, Shmem!Over
  <2>10. InStep'
    BY <1>1, <1>2, <2>1, <2>2, <2>3, <2>4, <2>8 DEF InStep, Plays, Out, Shmem!Over
  <2> QED
    BY <2>5, <2>6, <2>7, <2>8, <2>9, <2>10 DEF CleanInv
<1> QED
  BY <1>1, <1>2

LEMMA TakeHolds ==
  ASSUME CleanInv, Shmem!Take(r1)
  PROVE  CleanInv'
<1> USE ShmemConstants
<1>0. ShmemTypes /\ Undoes /\ Counted /\ Binary /\ InStep /\ SoFar
  BY DEF CleanInv
<1> USE <1>0
<1>1. /\ spc[r1] = "access" /\ UNCHANGED <<sem, undo, block, toReset, failed>>
      /\ \/ shmem = Shmem!Eof /\ Stepped(r1, "end") /\ UNCHANGED <<shmem, sprinted>>
         \/ shmem # Shmem!Eof /\ Stepped(r1, "signal") /\ shmem' = -1 /\ sprinted' = [sprinted EXCEPT ![r1] = Append(@, shmem)]
  <2>1. spc[r1] = "access"
    BY DEF Shmem!Take
  <2>2. shmem = Printed + 1 /\ Printed \in Nat
    BY <2>1, PrintedIsNat DEF SoFar
  <2>3. shmem # -1 /\ (shmem \in 1 .. ShmemBlocks => shmem # Shmem!Eof)
    BY <2>2
  <2> QED
    BY <2>1, <2>3 DEF Shmem!Take, Shmem!Goto, Stepped
<1>2. CASE shmem = Shmem!Eof /\ Stepped(r1, "end") /\ UNCHANGED <<shmem, sprinted>>
  <2>1. /\ spc' \in [{r1, s1} -> Shmem!Locations] /\ spc'[r1] = "end" /\ spc'[s1] = spc[s1]
    <3>1. "end" \in Shmem!Locations /\ Stepped(r1, "end")
      BY <1>1, <1>2 DEF Did, Fails, Shmem!Locations, Shmem!Over
    <3> QED
      BY <3>1, StepValues
  <2>2. sem' = sem /\ sem' \in [Shmem!Semaphores -> Nat]
    BY <1>1, <1>2 DEF Did, Fails, ShmemTypes
  <2>3. undo' = undo
    BY <1>1, <1>2 DEF Did, Fails, ShmemTypes
  <2>4. UNCHANGED <<shmem, block, toReset, sprinted>> /\ failed' = failed
    BY <1>1, <1>2 DEF Did, Fails, Others
  <2>5. ShmemTypes'
    BY <1>1, <1>2, <2>1, <2>2, <2>3, <2>4 DEF ShmemTypes
  <2>6. Undoes'
    BY <1>1, <1>2, <2>1, <2>2, <2>3, <2>4 DEF Undoes, Plays, Out, Born, Shmem!Over
  <2>7. Binary'
    BY <1>1, <1>2, <2>1, <2>2, <2>3, <2>4 DEF Binary
  <2>8. SoFar' /\ Printed' = Printed
    <3>1. Printed' = Printed /\ Printed \in Nat
      BY <2>4, PrintedIsNat DEF Printed
    <3>2. Printed = ShmemBlocks
      BY <1>1, <1>2, <3>1 DEF SoFar
    <3> QED
      BY <1>1, <2>1, <2>4, <3>1, <3>2 DEF SoFar
  <2>9. Counted'
    BY <1>1, <1>2, <2>1, <2>2, <2>3, <2>4, <2>8 DEF Counted, Plays, Out, Born, Extra, Shmem!Over
  <2>10. InStep'
    BY <1>1, <1>2, <2>1, <2>2, <2>3, <2>4, <2>8 DEF InStep, Early, Free, Waits, Filling, SentOf, Filled, Taking, Plays, Out, Shmem!Over
  <2> QED
    BY <2>5, <2>6, <2>7, <2>8, <2>9, <2>10 DEF CleanInv
<1>3. CASE shmem # Shmem!Eof /\ Stepped(r1, "signal") /\ shmem' = -1 /\ sprinted' = [sprinted EXCEPT ![r1] = Append(@, shmem)]
  <2>1. /\ spc' \in [{r1, s1} -> Shmem!Locations] /\ spc'[r1] = "signal" /\ spc'[s1] = spc[s1]
    <3>1. "signal" \in Shmem!Locations /\ Stepped(r1, "signal")
      BY <1>1, <1>3 DEF Did, Fails, Shmem!Locations, Shmem!Over
    <3> QED
      BY <3>1, StepValues
  <2>2. sem' = sem /\ sem' \in [Shmem!Semaphores -> Nat]
    BY <1>1, <1>3 DEF Did, Fails, ShmemTypes
  <2>3. undo' = undo
    BY <1>1, <1>3 DEF Did, Fails, ShmemTypes
  <2>4. UNCHANGED <<block, toReset>> /\ failed' = failed
    BY <1>1, <1>3 DEF Did, Fails, Others
  <2>11. /\ Printed' = Printed + 1 /\ sprinted' \in [{r1} -> Seq(1 .. ShmemBlocks)]
         /\ sprinted'[r1] = [k \in 1 .. Printed' |-> k] /\ Printed' <= ShmemBlocks /\ Printed \in Nat
    <3>1. /\ sprinted[r1] \in Seq(1 .. ShmemBlocks) /\ Printed \in Nat /\ Printed = Len(sprinted[r1])
          /\ sprinted[r1] = [k \in 1 .. Printed |-> k]
          /\ shmem = Printed + 1 /\ shmem \in 1 .. ShmemBlocks
      <4>1. sprinted[r1] \in Seq(1 .. ShmemBlocks) /\ shmem \in {-1} \cup (1 .. ShmemBlocks + 1)
        BY DEF ShmemTypes
      <4>2. Printed \in Nat /\ Printed = Len(sprinted[r1])
        BY PrintedIsNat DEF Printed
      <4>3. shmem = Printed + 1 /\ sprinted[r1] = [k \in 1 .. Printed |-> k]
        BY <1>1 DEF SoFar
      <4> QED
        BY <1>3, <4>1, <4>2, <4>3
    <3>2. /\ sprinted'[r1] = Append(sprinted[r1], shmem)
          /\ sprinted' = [r \in {r1} |-> Append(sprinted[r1], shmem)]
      BY <1>3 DEF ShmemTypes
    <3> DEFINE sq == sprinted[r1]
    <3> HIDE DEF sq
    <3>3. /\ Append(sq, shmem) \in Seq(1 .. ShmemBlocks) /\ Len(Append(sq, shmem)) = Printed + 1
          /\ \A k \in 1 .. Printed + 1 : Append(sq, shmem)[k] = k
      BY <3>1 DEF sq
    <3>4. Append(sq, shmem) = [k \in 1 .. Printed + 1 |-> k]
      <4> DEFINE w == Append(sq, shmem)
      <4>1. w \in Seq(1 .. ShmemBlocks) /\ Len(w) = Printed + 1 /\ \A k \in 1 .. Printed + 1 : w[k] = k
        BY <3>3
      <4> HIDE DEF w
      <4>2. w = [k \in 1 .. Printed + 1 |-> k]
        BY <3>1, <4>1
      <4> QED
        BY <4>2 DEF w
    <3>5. Printed' = Printed + 1
      BY <3>2, <3>3 DEF Printed, sq
    <3>6. sprinted' \in [{r1} -> Seq(1 .. ShmemBlocks)]
      BY <3>2, <3>3 DEF sq
    <3> QED
      BY <3>1, <3>2, <3>4, <3>5, <3>6 DEF sq
  <2>5. ShmemTypes'
    BY <1>1, <1>3, <2>1, <2>2, <2>3, <2>4, <2>11 DEF ShmemTypes
  <2>6. Undoes'
    BY <1>1, <1>3, <2>1, <2>2, <2>3, <2>4, <2>11 DEF Undoes, Plays, Out, Born, Shmem!Over
  <2>7. Binary'
    BY <1>1, <1>3, <2>1, <2>2, <2>3, <2>4, <2>11 DEF Binary
  <2>8. SoFar'
    BY <1>1, <1>3, <2>1, <2>2, <2>3, <2>4, <2>11 DEF SoFar
  <2>9. Counted'
    BY <1>1, <1>3, <2>1, <2>2, <2>3, <2>4, <2>11, <2>8 DEF Counted, Plays, Out, Born, Extra, Shmem!Over
  <2>10. InStep'
    BY <1>1, <1>3, <2>1, <2>2, <2>3, <2>4, <2>11, <2>8 DEF InStep, Early, Free, Waits, Filling, SentOf, Filled, Taking, Plays, Out, Shmem!Over
  <2> QED
    BY <2>5, <2>6, <2>7, <2>8, <2>9, <2>10 DEF CleanInv
<1> QED
  BY <1>1, <1>2, <1>3

LEMMA FillHolds ==
  ASSUME CleanInv, Shmem!Fill(s1)
  PROVE  CleanInv'
<1> USE ShmemConstants
<1>0. ShmemTypes /\ Undoes /\ Counted /\ Binary /\ InStep /\ SoFar
  BY DEF CleanInv
<1> USE <1>0
<1>1. /\ spc[s1] = "access" /\ UNCHANGED <<sem, undo, toReset, failed, sprinted>> /\ Stepped(s1, "signal")
      /\ block' = [block EXCEPT ![s1] = @ + 1] /\ shmem' = block[s1] + 1
  BY DEF Shmem!Fill, Shmem!Goto, Stepped
<1>2. CASE TRUE
  <2>1. /\ spc' \in [{r1, s1} -> Shmem!Locations] /\ spc'[s1] = "signal" /\ spc'[r1] = spc[r1]
    <3>1. "signal" \in Shmem!Locations /\ Stepped(s1, "signal")
      BY <1>1, <1>2 DEF Did, Fails, Shmem!Locations, Shmem!Over
    <3> QED
      BY <3>1, StepValues
  <2>2. sem' = sem /\ sem' \in [Shmem!Semaphores -> Nat]
    BY <1>1, <1>2 DEF Did, Fails, ShmemTypes
  <2>3. undo' = undo
    BY <1>1, <1>2 DEF Did, Fails, ShmemTypes
  <2>4. UNCHANGED <<toReset, sprinted>> /\ failed' = failed
    BY <1>1, <1>2 DEF Did, Fails, Others
  <2>11. /\ block' \in [{s1} -> 0 .. Shmem!Eof] /\ block'[s1] = block[s1] + 1
         /\ shmem' = block[s1] + 1 /\ shmem' \in {-1} \cup (1 .. Shmem!Eof)
    <3>1. block \in [{s1} -> 0 .. Shmem!Eof] /\ block[s1] <= ShmemBlocks /\ block[s1] \in 0 .. Shmem!Eof
      BY <1>1 DEF ShmemTypes, InStep
    <3>2. block[s1] + 1 \in 0 .. Shmem!Eof /\ block[s1] + 1 \in 1 .. Shmem!Eof
      BY <3>1
    <3> QED
      BY <1>1, <3>1, <3>2
  <2>5. ShmemTypes'
    BY <1>1, <1>2, <2>1, <2>2, <2>3, <2>4, <2>11 DEF ShmemTypes
  <2>6. Undoes'
    BY <1>1, <1>2, <2>1, <2>2, <2>3, <2>4, <2>11 DEF Undoes, Plays, Out, Born, Shmem!Over
  <2>7. Binary'
    BY <1>1, <1>2, <2>1, <2>2, <2>3, <2>4, <2>11 DEF Binary
  <2>8. SoFar' /\ Printed' = Printed
    <3>1. Printed' = Printed
      BY <2>4 DEF Printed
    <3>2. spc[r1] # "access"
      BY <1>1 DEF InStep, Early, Free, Waits, Filling, SentOf, Filled, Taking, Plays, Out, Shmem!Over
    <3> QED
      BY <1>1, <2>1, <2>4, <3>1, <3>2 DEF SoFar
  <2>9. Counted'
    BY <1>1, <1>2, <2>1, <2>2, <2>3, <2>4, <2>11, <2>8 DEF Counted, Plays, Out, Born, Extra, Shmem!Over
  <2>10. InStep'
    BY <1>1, <1>2, <2>1, <2>2, <2>3, <2>4, <2>11, <2>8 DEF InStep, Early, Free, Waits, Filling, SentOf, Filled, Taking, Plays, Out, Shmem!Over
  <2> QED
    BY <2>5, <2>6, <2>7, <2>8, <2>9, <2>10 DEF CleanInv
<1> QED
  BY <1>1, <1>2

LEMMA OpenHolds ==
  ASSUME CleanInv, Shmem!Open(s1)
  PROVE  CleanInv'
<1> USE ShmemConstants
<1>0. ShmemTypes /\ Undoes /\ Counted /\ Binary /\ InStep /\ SoFar
  BY DEF CleanInv
<1> USE <1>0
<1>1. /\ spc[s1] = "open" /\ UNCHANGED <<sem, undo, shmem, block, toReset, sprinted>>
      /\ \/ Stepped(s1, "birth") /\ failed' = failed
         \/ Stepped(s1, "reset") /\ failed' = [failed EXCEPT ![s1] = TRUE]
  BY DEF Shmem!Open, Shmem!Goto, Stepped
<1>2. CASE Stepped(s1, "birth") /\ failed' = failed
  <2>1. /\ spc' \in [{r1, s1} -> Shmem!Locations] /\ spc'[s1] = "birth" /\ spc'[r1] = spc[r1]
    <3>1. "birth" \in Shmem!Locations /\ Stepped(s1, "birth")
      BY <1>1, <1>2 DEF Did, Fails, Shmem!Locations, Shmem!Over
    <3> QED
      BY <3>1, StepValues
  <2>2. sem' = sem /\ sem' \in [Shmem!Semaphores -> Nat]
    BY <1>1, <1>2 DEF Did, Fails, ShmemTypes
  <2>3. undo' = undo
    BY <1>1, <1>2 DEF Did, Fails, ShmemTypes
  <2>4. UNCHANGED <<shmem, block, toReset, sprinted>> /\ failed' = failed
    BY <1>1, <1>2 DEF Did, Fails, Others
  <2>5. ShmemTypes'
    BY <1>1, <1>2, <2>1, <2>2, <2>3, <2>4 DEF ShmemTypes
  <2>6. Undoes'
    BY <1>1, <1>2, <2>1, <2>2, <2>3, <2>4 DEF Undoes, Plays, Out, Born, Shmem!Over
  <2>7. Binary'
    BY <1>1, <1>2, <2>1, <2>2, <2>3, <2>4 DEF Binary
  <2>8. SoFar' /\ Printed' = Printed
    BY <1>1, <1>2, <2>1, <2>2, <2>3, <2>4 DEF SoFar, Printed
  <2>9. Counted'
    BY <1>1, <1>2, <2>1, <2>2, <2>3, <2>4, <2>8 DEF Counted, Plays, Out, Born, Extra, Shmem!Over
  <2>10. InStep'
    BY <1>1, <1>2, <2>1, <2>2, <2>3, <2>4, <2>8 DEF InStep, Early, Free, Waits, Filling, SentOf, Filled, Taking, Plays, Out, Shmem!Over
  <2> QED
    BY <2>5, <2>6, <2>7, <2>8, <2>9, <2>10 DEF CleanInv
<1>3. CASE Stepped(s1, "reset") /\ failed' = [failed EXCEPT ![s1] = TRUE]
  <2>1. /\ spc' \in [{r1, s1} -> Shmem!Locations] /\ spc'[s1] = "reset" /\ spc'[r1] = spc[r1]
    <3>1. "reset" \in Shmem!Locations /\ Stepped(s1, "reset")
      BY <1>1, <1>3 DEF Did, Fails, Shmem!Locations, Shmem!Over
    <3> QED
      BY <3>1, StepValues
  <2>2. sem' = sem /\ sem' \in [Shmem!Semaphores -> Nat]
    BY <1>1, <1>3 DEF Did, Fails, ShmemTypes
  <2>3. undo' = undo
    BY <1>1, <1>3 DEF Did, Fails, ShmemTypes
  <2>4. UNCHANGED <<shmem, block, toReset, sprinted>> /\ failed' = [failed EXCEPT ![s1] = TRUE]
    BY <1>1, <1>3 DEF Did, Fails, Others
  <2>5. ShmemTypes'
    BY <1>1, <1>3, <2>1, <2>2, <2>3, <2>4 DEF ShmemTypes
  <2>6. Undoes'
    BY <1>1, <1>3, <2>1, <2>2, <2>3, <2>4 DEF Undoes, Plays, Out, Born, Shmem!Over
  <2>7. Binary'
    BY <1>1, <1>3, <2>1, <2>2, <2>3, <2>4 DEF Binary
  <2>8. SoFar' /\ Printed' = Printed
    BY <1>1, <1>3, <2>1, <2>2, <2>3, <2>4 DEF SoFar, Printed
  <2>9. Counted'
    BY <1>1, <1>3, <2>1, <2>2, <2>3, <2>4, <2>8 DEF Counted, Plays, Out, Born, Extra, Shmem!Over
  <2>10. InStep'
    BY <1>1, <1>3, <2>1, <2>2, <2>3, <2>4, <2>8 DEF InStep, Plays, Out, Shmem!Over
  <2> QED
    BY <2>5, <2>6, <2>7, <2>8, <2>9, <2>10 DEF CleanInv
<1> QED
  BY <1>1, <1>2, <1>3

LEMMA SetEmptyHolds ==
  ASSUME CleanInv, Shmem!SetEmpty(s1)
  PROVE  CleanInv'
<1> USE ShmemConstants
<1>0. ShmemTypes /\ Undoes /\ Counted /\ Binary /\ InStep /\ SoFar
  BY DEF CleanInv
<1> USE <1>0
<1>1. /\ spc[s1] = "set_empty" /\ UNCHANGED <<shmem, block, toReset, failed, sprinted>>
      /\ Stepped(s1, "set_full") /\ Shmem!SetVal(0, 1)
  BY DEF Shmem!SetEmpty, Shmem!Goto, Stepped
<1>2. /\ spc' \in [{r1, s1} -> Shmem!Locations] /\ spc'[s1] = "set_full" /\ spc'[r1] = spc[r1]
  <2>1. "set_full" \in Shmem!Locations
    BY DEF Shmem!Locations
  <2> QED
    BY <1>1, <2>1, StepValues
<1>3. /\ sem' \in [Shmem!Semaphores -> Nat]
      /\ undo' \in [{r1, s1} -> [Shmem!Semaphores -> -1 .. 1]]
      /\ \A j \in Shmem!Semaphores : sem'[j] = IF j = 0 THEN 1 ELSE sem[j]
      /\ \A p \in {r1, s1} : \A j \in Shmem!Semaphores :
             undo'[p][j] = IF j = 0 THEN 0 ELSE undo[p][j]
  BY <1>1, SetValues
<1>4. ShmemTypes'
  BY <1>1, <1>2, <1>3 DEF ShmemTypes
<1>5. Undoes'
  BY <1>1, <1>2, <1>3 DEF Undoes, Plays, Out, Born, Shmem!Over
<1>6. Binary'
  BY <1>1, <1>2, <1>3 DEF Binary
<1>7. SoFar' /\ Printed' = Printed
  BY <1>1, <1>2 DEF SoFar, Printed
<1>8. Counted'
  BY <1>1, <1>2, <1>3, <1>7 DEF Counted, Plays, Out, Born, Extra, Shmem!Over
<1>9. InStep'
  BY <1>1, <1>2, <1>3, <1>7 DEF InStep, Early, Free, Waits, Filling, SentOf, Filled, Taking, Plays, Out, Shmem!Over
<1> QED
  BY <1>4, <1>5, <1>6, <1>7, <1>8, <1>9 DEF CleanInv

LEMMA SetFullHolds ==
  ASSUME CleanInv, Shmem!SetFull(s1)
  PROVE  CleanInv'
<1> USE ShmemConstants
<1>0. ShmemTypes /\ Undoes /\ Counted /\ Binary /\ InStep /\ SoFar
  BY DEF CleanInv
<1> USE <1>0
<1>1. /\ spc[s1] = "set_full" /\ UNCHANGED <<shmem, block, toReset, failed, sprinted>>
      /\ Stepped(s1, "open") /\ Shmem!SetVal(1, 0)
  BY DEF Shmem!SetFull, Shmem!Goto, Stepped
<1>2. /\ spc' \in [{r1, s1} -> Shmem!Locations] /\ spc'[s1] = "open" /\ spc'[r1] = spc[r1]
  <2>1. "open" \in Shmem!Locations
    BY DEF Shmem!Locations
  <2> QED
    BY <1>1, <2>1, StepValues
<1>3. /\ sem' \in [Shmem!Semaphores -> Nat]
      /\ undo' \in [{r1, s1} -> [Shmem!Semaphores -> -1 .. 1]]
      /\ \A j \in Shmem!Semaphores : sem'[j] = IF j = 1 THEN 0 ELSE sem[j]
      /\ \A p \in {r1, s1} : \A j \in Shmem!Semaphores :
             undo'[p][j] = IF j = 1 THEN 0 ELSE undo[p][j]
  BY <1>1, SetValues
<1>4. ShmemTypes'
  BY <1>1, <1>2, <1>3 DEF ShmemTypes
<1>5. Undoes'
  BY <1>1, <1>2, <1>3 DEF Undoes, Plays, Out, Born, Shmem!Over
<1>6. Binary'
  BY <1>1, <1>2, <1>3 DEF Binary
<1>7. SoFar' /\ Printed' = Printed
  BY <1>1, <1>2 DEF SoFar, Printed
<1>8. Counted'
  BY <1>1, <1>2, <1>3, <1>7 DEF Counted, Plays, Out, Born, Extra, Shmem!Over
<1>9. InStep'
  BY <1>1, <1>2, <1>3, <1>7 DEF InStep, Early, Free, Waits, Filling, SentOf, Filled, Taking, Plays, Out, Shmem!Over
<1> QED
  BY <1>4, <1>5, <1>6, <1>7, <1>8, <1>9 DEF CleanInv

LEMMA ReceiverResetHolds ==
  ASSUME CleanInv, Shmem!Reset(r1)
  PROVE  CleanInv'
<1> USE ShmemConstants
<1>0. ShmemTypes /\ Undoes /\ Counted /\ Binary /\ InStep /\ SoFar
  BY DEF CleanInv
<1> USE <1>0
<1> DEFINE k == toReset[r1]
<1>1. /\ spc[r1] = "reset" /\ k \in Shmem!Semaphores /\ toReset' = [toReset EXCEPT ![r1] = k + 1]
      /\ UNCHANGED <<shmem, spc, block, failed, sprinted>> /\ Shmem!SetVal(k, 0)
  BY DEF Shmem!Reset
<1>2. /\ toReset' \in [{r1, s1} -> 0 .. 5] /\ toReset'[r1] = k + 1 /\ toReset'[s1] = toReset[s1]
  <2>1. k + 1 \in 0 .. 5
    BY <1>1
  <2> HIDE DEF k
  <2> QED
    BY <1>1, <2>1 DEF ShmemTypes
<1> HIDE DEF k
<1>3. /\ sem' \in [Shmem!Semaphores -> Nat]
      /\ undo' \in [{r1, s1} -> [Shmem!Semaphores -> -1 .. 1]]
      /\ \A j \in Shmem!Semaphores : sem'[j] = IF j = k THEN 0 ELSE sem[j]
      /\ \A p \in {r1, s1} : \A j \in Shmem!Semaphores :
             undo'[p][j] = IF j = k THEN 0 ELSE undo[p][j]
  BY <1>1, SetValues
<1>4. ShmemTypes'
  BY <1>1, <1>2, <1>3 DEF ShmemTypes
<1>5. Undoes'
  <2>1. \A j \in Shmem!Semaphores : toReset'[r1] > j => undo'[r1][j] = 0
    <3>1. ASSUME NEW j \in Shmem!Semaphores, k + 1 > j PROVE undo'[r1][j] = 0
      <4>1. CASE j = k
        BY <1>3, <4>1
      <4>2. CASE j # k
        <5>1. k > j
          BY <1>1, <3>1, <4>2
        <5> QED
          BY <1>1, <1>3, <4>2, <5>1 DEF Undoes, k
      <4> QED
        BY <4>1, <4>2
    <3> QED
      BY <1>2, <3>1
  <2>2. \A j \in Shmem!Semaphores : toReset'[s1] > j \/ spc'[s1] \in Shmem!Over => undo'[s1][j] = 0
    BY <1>1, <1>2, <1>3 DEF Undoes
  <2>3. spc'[r1] \notin Shmem!Over /\ ~Plays(r1)'
    BY <1>1 DEF Shmem!Over, Plays, Out
  <2>4. Plays(s1)' => toReset'[s1] = 0 /\ (Born(s1)' = 0 => undo'[s1][4] = 0)
    BY <1>1, <1>2, <1>3 DEF Undoes, Plays, Out, Born
  <2>5. /\ \A p \in {r1, s1} : Plays(p)' => toReset'[p] = 0 /\ (Born(p)' = 0 => undo'[p][4] = 0)
        /\ \A p \in {r1, s1} : \A j \in Shmem!Semaphores :
               toReset'[p] > j \/ spc'[p] \in Shmem!Over => undo'[p][j] = 0
    BY <2>1, <2>2, <2>3, <2>4
  <2> QED
    BY <1>1, <1>3, <2>5 DEF Undoes
<1>6. Binary'
  BY <1>1, <1>3 DEF Binary
<1>7. SoFar' /\ Printed' = Printed
  BY <1>1 DEF SoFar, Printed
<1>8. Counted'
  <2>1. sem'[4] = 0 \/ sem'[4] = sem[4]
    BY <1>3
  <2> QED
    BY <1>1, <1>7, <2>1 DEF Counted, Plays, Out, Born, Extra, Shmem!Over
<1>9. InStep'
  BY <1>1 DEF InStep, Plays, Out
<1> QED
  BY <1>4, <1>5, <1>6, <1>7, <1>8, <1>9 DEF CleanInv

LEMMA ReceiverExitHolds ==
  ASSUME CleanInv, Shmem!Exit(r1)
  PROVE  CleanInv'
<1> USE ShmemConstants
<1>0. ShmemTypes /\ Undoes /\ Counted /\ Binary /\ InStep /\ SoFar
  BY DEF CleanInv
<1> USE <1>0
<1> DEFINE b == IF failed[r1] THEN "failed" ELSE "done"
<1>1. /\ spc[r1] = "reset" /\ toReset[r1] \notin Shmem!Semaphores /\ Stepped(r1, b)
      /\ UNCHANGED <<shmem, block, toReset, failed, sprinted>> /\ Shmem!ExitSem(r1)
  BY DEF Shmem!Exit, Shmem!Goto, Stepped
<1>2. \A k \in Shmem!Semaphores : undo[r1][k] = 0 /\ sem[k] \in Nat
  <2>1. toReset[r1] \in 0 .. 5
    BY DEF ShmemTypes
  <2>2. toReset[r1] = 5
    BY <1>1, <2>1
  <2>3. \A k \in Shmem!Semaphores : toReset[r1] > k
    BY <2>2
  <2> QED
    BY <2>3 DEF Undoes, ShmemTypes
<1>3. /\ spc' \in [{r1, s1} -> Shmem!Locations] /\ spc'[r1] = b /\ spc'[s1] = spc[s1]
  <2>1. b \in Shmem!Locations
    BY DEF Shmem!Locations, Shmem!Over
  <2> HIDE DEF b
  <2> QED
    BY <1>1, <2>1, StepValues
<1>4. /\ sem' \in [Shmem!Semaphores -> Nat]
      /\ undo' \in [{r1, s1} -> [Shmem!Semaphores -> -1 .. 1]]
      /\ \A k \in Shmem!Semaphores : sem'[k] = sem[k] /\ undo'[r1][k] = 0
      /\ undo'[s1] = undo[s1]
  <2>1. \A k \in Shmem!Semaphores : sem[k] + undo[r1][k] = sem[k] /\ ~(sem[k] < 0)
    BY <1>2
  <2>2. /\ sem' \in [Shmem!Semaphores -> Nat]
        /\ undo' \in [{r1, s1} -> [Shmem!Semaphores -> -1 .. 1]]
        /\ \A k \in Shmem!Semaphores :
               sem'[k] = IF sem[k] + undo[r1][k] < 0 THEN 0 ELSE sem[k] + undo[r1][k]
        /\ \A k \in Shmem!Semaphores : undo'[r1][k] = 0
        /\ \A j \in {r1, s1} : j # r1 => undo'[j] = undo[j]
    BY <1>1, <2>1, ExitValues
  <2> QED
    BY <2>1, <2>2
<1>5. ShmemTypes'
  BY <1>1, <1>3, <1>4 DEF ShmemTypes
<1>6. Undoes'
  BY <1>1, <1>3, <1>4 DEF Undoes, Plays, Out, Born, Shmem!Over
<1>7. Binary'
  BY <1>1, <1>3, <1>4 DEF Binary, ShmemTypes
<1>8. SoFar' /\ Printed' = Printed
  BY <1>1, <1>3 DEF SoFar, Printed
<1>9. Counted'
  BY <1>1, <1>3, <1>4, <1>8 DEF Counted, Plays, Out, Born, Extra, Shmem!Over
<1>10. InStep'
  BY <1>1, <1>3 DEF InStep, Plays, Out, Shmem!Over
<1> QED
  BY <1>5, <1>6, <1>7, <1>8, <1>9, <1>10 DEF CleanInv

LEMMA ReceiverKillHolds ==
  ASSUME CleanInv, Shmem!Kill(r1)
  PROVE  CleanInv'
<1> USE ShmemConstants
<1>0. ShmemTypes /\ Undoes /\ Counted /\ Binary /\ InStep /\ SoFar
  BY DEF CleanInv
<1> USE <1>0
<1>1. /\ spc[r1] \notin Shmem!Over \cup {"sync"} /\ Stepped(r1, "killed")
      /\ UNCHANGED <<shmem, block, toReset, failed, sprinted>> /\ Shmem!ExitSem(r1)
  BY DEF Shmem!Kill, Shmem!Goto, Stepped
<1>2. /\ spc' \in [{r1, s1} -> Shmem!Locations] /\ spc'[r1] = "killed" /\ spc'[s1] = spc[s1]
  <2>1. "killed" \in Shmem!Locations
    BY DEF Shmem!Locations, Shmem!Over
  <2> QED
    BY <1>1, <2>1, StepValues
<1>3. /\ \A k \in Shmem!Semaphores : sem[k] \in Nat /\ undo[r1][k] \in -1 .. 1
      /\ \A k \in Shmem!Semaphores \ {0} : undo[r1][k] <= 0
  <2>1. \A k \in Shmem!Semaphores : sem[k] \in Nat /\ undo[r1][k] \in -1 .. 1
    BY DEF ShmemTypes
  <2>2. \A k \in Shmem!Semaphores \ {0} : undo[r1][k] <= 0
    BY <2>1 DEF Undoes
  <2> QED
    BY <2>1, <2>2
<1>4. /\ sem' \in [Shmem!Semaphores -> Nat]
      /\ undo' \in [{r1, s1} -> [Shmem!Semaphores -> -1 .. 1]]
      /\ \A k \in Shmem!Semaphores :
             sem'[k] = IF sem[k] + undo[r1][k] < 0 THEN 0 ELSE sem[k] + undo[r1][k]
      /\ \A k \in Shmem!Semaphores : undo'[r1][k] = 0
      /\ undo'[s1] = undo[s1]
  BY <1>1, ExitValues
<1>5. ShmemTypes'
  BY <1>1, <1>2, <1>4 DEF ShmemTypes
<1>6. Undoes'
  BY <1>1, <1>2, <1>4 DEF Undoes, Plays, Out, Born, Shmem!Over
<1>7. \A k \in Shmem!Semaphores \ {0} : sem'[k] <= sem[k]
  BY <1>3, <1>4
<1>8. Binary'
  BY <1>2 DEF Binary
<1>9. SoFar' /\ Printed' = Printed
  BY <1>1, <1>2 DEF SoFar, Printed
<1>10. Counted'
  <2>1. ~Plays(r1)' /\ (Plays(s1)' <=> Plays(s1)) /\ Born(s1)' = Born(s1)
    BY <1>2 DEF Plays, Out, Born, Shmem!Over
  <2>5. /\ Born(s1) \in {0, 1} /\ Born(r1) \in {0, 1} /\ Extra \in {0, 1} /\ Printed \in Nat
        /\ sem[4] \in Nat /\ sem'[4] \in Nat /\ sem'[4] <= sem[4]
    BY <1>4, <1>7, PrintedIsNat DEF Born, Extra, ShmemTypes
  <2>2. CASE Plays(r1) /\ Plays(s1)
    <3>1. sem'[4] = Born(s1) + Extra
      <4>1. sem[4] = Born(s1) + Born(r1) + Extra /\ undo[r1][4] + Born(r1) = 0
        BY <2>2, <2>5 DEF Counted
      <4> QED
        BY <1>3, <1>4, <4>1, <2>5
    <3>2. Plays(s1)' /\ ~Plays(r1)'
      BY <2>1, <2>2
    <3>3. Extra = 0 \/ spc[s1] = "wait_both"
      BY DEF Extra
    <3>4. spc[s1] = "wait_both" => /\ Extra = 1 /\ spc[r1] \in {"prevent", "go", "wait", "access", "end"}
                                   /\ shmem = Shmem!Eof /\ Printed = ShmemBlocks /\ Born(r1) = 1
      BY <2>2, <2>5 DEF InStep, Early, Free, Waits, Filling, SentOf, Filled, Taking, Extra, Born, SoFar
    <3> QED
      BY <1>1, <1>2, <1>9, <2>1, <2>5, <3>1, <3>2, <3>3, <3>4 DEF Counted, Plays, Out, Shmem!Over
  <2>3. CASE ~Plays(r1) /\ Plays(s1)
    <3>1. spc[r1] = "reset"
      BY <1>1, <2>3 DEF Plays, Out
    <3> QED
      BY <1>1, <1>2, <1>9, <2>1, <2>3, <2>5, <3>1 DEF Counted, Plays, Out, Shmem!Over
  <2>4. CASE ~Plays(s1)
    BY <2>1, <2>4 DEF Counted, Plays
  <2> QED
    BY <2>2, <2>3, <2>4
<1>11. InStep'
  BY <1>1, <1>2 DEF InStep, Plays, Out, Shmem!Over
<1> QED
  BY <1>5, <1>6, <1>8, <1>9, <1>10, <1>11 DEF CleanInv

LEMMA SenderResetHolds ==
  ASSUME CleanInv, Shmem!Reset(s1)
  PROVE  CleanInv'
<1> USE ShmemConstants
<1>0. ShmemTypes /\ Undoes /\ Counted /\ Binary /\ InStep /\ SoFar
  BY DEF CleanInv
<1> USE <1>0
<1> DEFINE k == toReset[s1]
<1>1. /\ spc[s1] = "reset" /\ k \in Shmem!Semaphores /\ toReset' = [toReset EXCEPT ![s1] = k + 1]
      /\ UNCHANGED <<shmem, spc, block, failed, sprinted>> /\ Shmem!SetVal(k, 0)
  BY DEF Shmem!Reset
<1>2. /\ toReset' \in [{r1, s1} -> 0 .. 5] /\ toReset'[s1] = k + 1 /\ toReset'[r1] = toReset[r1]
  <2>1. k + 1 \in 0 .. 5
    BY <1>1
  <2> HIDE DEF k
  <2> QED
    BY <1>1, <2>1 DEF ShmemTypes
<1> HIDE DEF k
<1>3. /\ sem' \in [Shmem!Semaphores -> Nat]
      /\ undo' \in [{r1, s1} -> [Shmem!Semaphores -> -1 .. 1]]
      /\ \A j \in Shmem!Semaphores : sem'[j] = IF j = k THEN 0 ELSE sem[j]
      /\ \A p \in {r1, s1} : \A j \in Shmem!Semaphores :
             undo'[p][j] = IF j = k THEN 0 ELSE undo[p][j]
  BY <1>1, SetValues
<1>4. ShmemTypes'
  BY <1>1, <1>2, <1>3 DEF ShmemTypes
<1>5. Undoes'
  <2>1. \A j \in Shmem!Semaphores : toReset'[s1] > j => undo'[s1][j] = 0
    <3>1. ASSUME NEW j \in Shmem!Semaphores, k + 1 > j PROVE undo'[s1][j] = 0
      <4>1. CASE j = k
        BY <1>3, <4>1
      <4>2. CASE j # k
        <5>1. k > j
          BY <1>1, <3>1, <4>2
        <5> QED
          BY <1>1, <1>3, <4>2, <5>1 DEF Undoes, k
      <4> QED
        BY <4>1, <4>2
    <3> QED
      BY <1>2, <3>1
  <2>2. \A j \in Shmem!Semaphores : toReset'[r1] > j \/ spc'[r1] \in Shmem!Over => undo'[r1][j] = 0
    BY <1>1, <1>2, <1>3 DEF Undoes
  <2>3. spc'[s1] \notin Shmem!Over /\ ~Plays(s1)'
    BY <1>1 DEF Shmem!Over, Plays, Out
  <2>4. Plays(r1)' => toReset'[r1] = 0 /\ (Born(r1)' = 0 => undo'[r1][4] = 0)
    BY <1>1, <1>2, <1>3 DEF Undoes, Plays, Out, Born
  <2>5. /\ \A p \in {r1, s1} : Plays(p)' => toReset'[p] = 0 /\ (Born(p)' = 0 => undo'[p][4] = 0)
        /\ \A p \in {r1, s1} : \A j \in Shmem!Semaphores :
               toReset'[p] > j \/ spc'[p] \in Shmem!Over => undo'[p][j] = 0
    BY <2>1, <2>2, <2>3, <2>4
  <2> QED
    BY <1>1, <1>3, <2>5 DEF Undoes
<1>6. Binary'
  BY <1>1, <1>3 DEF Binary
<1>7. SoFar' /\ Printed' = Printed
  BY <1>1 DEF SoFar, Printed
<1>8. Counted'
  <2>1. sem'[4] = 0 \/ sem'[4] = sem[4]
    BY <1>3
  <2> QED
    BY <1>1, <1>7, <2>1 DEF Counted, Plays, Out, Born, Extra, Shmem!Over
<1>9. InStep'
  BY <1>1 DEF InStep, Plays, Out
<1> QED
  BY <1>4, <1>5, <1>6, <1>7, <1>8, <1>9 DEF CleanInv

LEMMA SenderExitHolds ==
  ASSUME CleanInv, Shmem!Exit(s1)
  PROVE  CleanInv'
<1> USE ShmemConstants
<1>0. ShmemTypes /\ Undoes /\ Counted /\ Binary /\ InStep /\ SoFar
  BY DEF CleanInv
<1> USE <1>0
<1> DEFINE b == IF failed[s1] THEN "failed" ELSE "done"
<1>1. /\ spc[s1] = "reset" /\ toReset[s1] \notin Shmem!Semaphores /\ Stepped(s1, b)
      /\ UNCHANGED <<shmem, block, toReset, failed, sprinted>> /\ Shmem!ExitSem(s1)
  BY DEF Shmem!Exit, Shmem!Goto, Stepped
<1>2. \A k \in Shmem!Semaphores : undo[s1][k] = 0 /\ sem[k] \in Nat
  <2>1. toReset[s1] \in 0 .. 5
    BY DEF ShmemTypes
  <2>2. toReset[s1] = 5
    BY <1>1, <2>1
  <2>3. \A k \in Shmem!Semaphores : toReset[s1] > k
    BY <2>2
  <2> QED
    BY <2>3 DEF Undoes, ShmemTypes
<1>3. /\ spc' \in [{r1, s1} -> Shmem!Locations] /\ spc'[s1] = b /\ spc'[r1] = spc[r1]
  <2>1. b \in Shmem!Locations
    BY DEF Shmem!Locations, Shmem!Over
  <2> HIDE DEF b
  <2> QED
    BY <1>1, <2>1, StepValues
<1>4. /\ sem' \in [Shmem!Semaphores -> Nat]
      /\ undo' \in [{r1, s1} -> [Shmem!Semaphores -> -1 .. 1]]
      /\ \A k \in Shmem!Semaphores : sem'[k] = sem[k] /\ undo'[s1][k] = 0
      /\ undo'[r1] = undo[r1]
  <2>1. \A k \in Shmem!Semaphores : sem[k] + undo[s1][k] = sem[k] /\ ~(sem[k] < 0)
    BY <1>2
  <2>2. /\ sem' \in [Shmem!Semaphores -> Nat]
        /\ undo' \in [{r1, s1} -> [Shmem!Semaphores -> -1 .. 1]]
        /\ \A k \in Shmem!Semaphores :
               sem'[k] = IF sem[k] + undo[s1][k] < 0 THEN 0 ELSE sem[k] + undo[s1][k]
        /\ \A k \in Shmem!Semaphores : undo'[s1][k] = 0
        /\ \A j \in {r1, s1} : j # s1 => undo'[j] = undo[j]
    BY <1>1, <2>1, ExitValues
  <2> QED
    BY <2>1, <2>2
<1>5. ShmemTypes'
  BY <1>1, <1>3, <1>4 DEF ShmemTypes
<1>6. Undoes'
  BY <1>1, <1>3, <1>4 DEF Undoes, Plays, Out, Born, Shmem!Over
<1>7. Binary'
  BY <1>1, <1>3, <1>4 DEF Binary, ShmemTypes
<1>8. SoFar' /\ Printed' = Printed
  BY <1>1, <1>3 DEF SoFar, Printed
<1>9. Counted'
  BY <1>1, <1>3, <1>4, <1>8 DEF Counted, Plays, Out, Born, Extra, Shmem!Over
<1>10. InStep'
  BY <1>1, <1>3 DEF InStep, Plays, Out, Shmem!Over
<1> QED
  BY <1>5, <1>6, <1>7, <1>8, <1>9, <1>10 DEF CleanInv

LEMMA SenderKillHolds ==
  ASSUME CleanInv, Shmem!Kill(s1)
  PROVE  CleanInv'
<1> USE ShmemConstants
<1>0. ShmemTypes /\ Undoes /\ Counted /\ Binary /\ InStep /\ SoFar
  BY DEF CleanInv
<1> USE <1>0
<1>1. /\ spc[s1] \notin Shmem!Over \cup {"sync"} /\ Stepped(s1, "killed")
      /\ UNCHANGED <<shmem, block, toReset, failed, sprinted>> /\ Shmem!ExitSem(s1)
  BY DEF Shmem!Kill, Shmem!Goto, Stepped
<1>2. /\ spc' \in [{r1, s1} -> Shmem!Locations] /\ spc'[s1] = "killed" /\ spc'[r1] = spc[r1]
  <2>1. "killed" \in Shmem!Locations
    BY DEF Shmem!Locations, Shmem!Over
  <2> QED
    BY <1>1, <2>1, StepValues
<1>3. /\ \A k \in Shmem!Semaphores : sem[k] \in Nat /\ undo[s1][k] \in -1 .. 1
      /\ \A k \in Shmem!Semaphores \ {1} : undo[s1][k] <= 0
  <2>1. \A k \in Shmem!Semaphores : sem[k] \in Nat /\ undo[s1][k] \in -1 .. 1
    BY DEF ShmemTypes
  <2>2. \A k \in Shmem!Semaphores \ {1} : undo[s1][k] <= 0
    BY <2>1 DEF Undoes
  <2> QED
    BY <2>1, <2>2
<1>4. /\ sem' \in [Shmem!Semaphores -> Nat]
      /\ undo' \in [{r1, s1} -> [Shmem!Semaphores -> -1 .. 1]]
      /\ \A k \in Shmem!Semaphores :
             sem'[k] = IF sem[k] + undo[s1][k] < 0 THEN 0 ELSE sem[k] + undo[s1][k]
      /\ \A k \in Shmem!Semaphores : undo'[s1][k] = 0
      /\ undo'[r1] = undo[r1]
  BY <1>1, ExitValues
<1>5. ShmemTypes'
  BY <1>1, <1>2, <1>4 DEF ShmemTypes
<1>6. Undoes'
  BY <1>1, <1>2, <1>4 DEF Undoes, Plays, Out, Born, Shmem!Over
<1>7. \A k \in Shmem!Semaphores \ {1} : sem'[k] <= sem[k]
  BY <1>3, <1>4
<1>8. Binary'
  BY <1>2 DEF Binary
<1>9. SoFar' /\ Printed' = Printed
  BY <1>1, <1>2 DEF SoFar, Printed
<1>10. Counted'
  <2>1. ~Plays(s1)' /\ (Plays(r1)' <=> Plays(r1)) /\ Born(r1)' = Born(r1)
    BY <1>2 DEF Plays, Out, Born, Shmem!Over
  <2>5. /\ Born(r1) \in {0, 1} /\ Born(s1) \in {0, 1} /\ Extra \in {0, 1} /\ Printed \in Nat
        /\ sem[4] \in Nat /\ sem'[4] \in Nat /\ sem'[4] <= sem[4]
    BY <1>4, <1>7, PrintedIsNat DEF Born, Extra, ShmemTypes
  <2>2. CASE Plays(s1) /\ Plays(r1)
    <3>1. sem'[4] = Born(r1) + Extra
      <4>1. sem[4] = Born(r1) + Born(s1) + Extra /\ undo[s1][4] + Born(s1) = 0
        BY <2>2, <2>5 DEF Counted
      <4> QED
        BY <1>3, <1>4, <4>1, <2>5
    <3>2. Plays(r1)' /\ ~Plays(s1)'
      BY <2>1, <2>2
    <3>3. Extra = 0 \/ spc[s1] = "wait_both"
      BY DEF Extra
    <3>4. spc[s1] = "wait_both" => /\ Extra = 1 /\ spc[r1] \in {"prevent", "go", "wait", "access", "end"}
                                   /\ shmem = Shmem!Eof /\ Printed = ShmemBlocks /\ Born(r1) = 1
      BY <2>2, <2>5 DEF InStep, Early, Free, Waits, Filling, SentOf, Filled, Taking, Extra, Born, SoFar
    <3> QED
      BY <1>1, <1>2, <1>9, <2>1, <2>5, <3>1, <3>2, <3>3, <3>4 DEF Counted, Plays, Out, Shmem!Over
  <2>3. CASE ~Plays(s1) /\ Plays(r1)
    <3>1. spc[s1] = "reset"
      BY <1>1, <2>3 DEF Plays, Out
    <3> QED
      BY <1>1, <1>2, <1>9, <2>1, <2>3, <2>5, <3>1 DEF Counted, Plays, Out, Shmem!Over
  <2>4. CASE ~Plays(r1)
    BY <2>1, <2>4 DEF Counted, Plays
  <2> QED
    BY <2>2, <2>3, <2>4
<1>11. InStep'
  BY <1>1, <1>2 DEF InStep, Plays, Out, Shmem!Over
<1> QED
  BY <1>5, <1>6, <1>8, <1>9, <1>10, <1>11 DEF CleanInv

LEMMA CleanInit == Shmem!Init /\ ghosts = 0 => CleanInv
<1> SUFFICES ASSUME Shmem!Init, ghosts = 0 PROVE CleanInv
  OBVIOUS
<1> USE ShmemConstants
<1>1. /\ sem \in [Shmem!Semaphores -> 0 .. ShmemLeft] /\ sem[2] = 0 /\ sem[3] = 0 /\ sem[4] = 0
      /\ undo = [p \in {r1, s1} |-> [k \in Shmem!Semaphores |-> 0]]
      /\ shmem \in {-1} \cup (1 .. Shmem!Eof) /\ spc = [p \in {r1, s1} |-> "sync"]
      /\ block = [s \in {s1} |-> 0] /\ toReset = [p \in {r1, s1} |-> 0]
      /\ failed = [p \in {r1, s1} |-> FALSE] /\ sprinted = [r \in {r1} |-> <<>>]
  BY DEF Shmem!Init
<1>2. /\ sem \in [Shmem!Semaphores -> Nat]
      /\ undo \in [{r1, s1} -> [Shmem!Semaphores -> -1 .. 1]]
      /\ \A p \in {r1, s1} : \A k \in Shmem!Semaphores : undo[p][k] = 0
  <2>1. 0 \in -1 .. 1
    OBVIOUS
  <2>2. [k \in Shmem!Semaphores |-> 0] \in [Shmem!Semaphores -> -1 .. 1]
    BY <2>1
  <2> QED
    BY <1>1, <2>2
<1>3. /\ spc[r1] = "sync" /\ spc[s1] = "sync" /\ spc \in [{r1, s1} -> Shmem!Locations]
      /\ Printed = 0 /\ sprinted \in [{r1} -> Seq(1 .. ShmemBlocks)]
  <2>1. <<>> \in Seq(1 .. ShmemBlocks) /\ Len(<<>>) = 0
    BY EmptySeq
  <2> QED
    BY <1>1, <2>1 DEF Shmem!Locations, Printed
<1>4. ShmemTypes
  BY <1>1, <1>2, <1>3 DEF ShmemTypes
<1>5. Undoes
  BY <1>1, <1>2, <1>3 DEF Undoes, Plays, Out, Born, Shmem!Over
<1>6. Counted
  <2>1. /\ Plays(r1) /\ Plays(s1) /\ Born(r1) = 0 /\ Born(s1) = 0 /\ Extra = 0
        /\ undo[r1][4] = 0 /\ undo[s1][4] = 0
    BY <1>2, <1>3 DEF Plays, Out, Born, Extra, Shmem!Over
  <2>2. sem[4] = Born(r1) + Born(s1) + Extra /\ undo[r1][4] + Born(r1) = 0 /\ undo[s1][4] + Born(s1) = 0
    <3>1. \A a, b, c \in Int : a = 0 /\ b = 0 /\ c = 0 => a + b + c = 0 /\ a + b = 0
      OBVIOUS
    <3>2. Born(r1) \in Int /\ Born(s1) \in Int /\ Extra \in Int /\ sem[4] = 0
      BY <1>1, <2>1
    <3> QED
      BY <2>1, <3>1, <3>2
  <2> QED
    BY <2>1, <2>2 DEF Counted, Plays
<1>7. Binary
  BY <1>3 DEF Binary
<1>8. InStep
  BY <1>1, <1>3 DEF InStep, Early
<1>9. SoFar
  <2>1. sprinted[r1] = <<>>
    BY <1>1
  <2>2. <<>> = [k \in 1 .. 0 |-> k]
    OBVIOUS
  <2> QED
    BY <1>3, <2>1, <2>2 DEF SoFar
<1> QED
  BY <1>4, <1>5, <1>6, <1>7, <1>8, <1>9 DEF CleanInv

LEMMA CleanStep == CleanInv /\ Shmem!Next => CleanInv'
<1> SUFFICES ASSUME CleanInv, Shmem!Next PROVE CleanInv'
  OBVIOUS
<1>1. CASE Shmem!Receive(r1)
  <2>1. \/ Shmem!Choose(r1, 3) \/ Shmem!Birth(r1) \/ Shmem!Prevent(r1, 0) \/ Shmem!Go(r1)
        \/ Shmem!WaitFull(r1) \/ Shmem!Take(r1) \/ Shmem!SignalEmpty(r1)
        \/ Shmem!ReceiverEnd(r1) \/ Shmem!Reset(r1) \/ Shmem!Exit(r1)
    BY <1>1 DEF Shmem!Receive, Shmem!Rcv, Shmem!Empty
  <2> QED
    BY <2>1, ReceiverChooseHolds, ReceiverBirthHolds, ReceiverPreventHolds, ReceiverGoHolds,
       WaitFullHolds, TakeHolds, SignalEmptyHolds, ReceiverEndHolds, ReceiverResetHolds,
       ReceiverExitHolds
<1>2. CASE Shmem!Send(s1)
  <2>1. \/ Shmem!Choose(s1, 2) \/ Shmem!SetEmpty(s1) \/ Shmem!SetFull(s1) \/ Shmem!Open(s1)
        \/ Shmem!Birth(s1) \/ Shmem!Prevent(s1, 1) \/ Shmem!Go(s1) \/ Shmem!WaitEmpty(s1)
        \/ Shmem!Fill(s1) \/ Shmem!SignalFull(s1) \/ Shmem!SenderEnd(s1)
        \/ Shmem!WaitBoth(s1) \/ Shmem!Reset(s1) \/ Shmem!Exit(s1)
    BY <1>2 DEF Shmem!Send, Shmem!Snd, Shmem!Full
  <2> QED
    BY <2>1, SenderChooseHolds, SetEmptyHolds, SetFullHolds, OpenHolds, SenderBirthHolds,
       SenderPreventHolds, SenderGoHolds, WaitEmptyHolds, FillHolds, SignalFullHolds,
       SenderEndHolds, WaitBothHolds, SenderResetHolds, SenderExitHolds
<1>3. CASE Shmem!Kill(r1) \/ Shmem!Kill(s1)
  BY <1>3, ReceiverKillHolds, SenderKillHolds
<1> QED
  BY <1>1, <1>2, <1>3, ShmemConstants DEF Shmem!Next, Shmem!Step

LEMMA CleanStutter == CleanInv /\ UNCHANGED shmemVars => CleanInv'
BY DEF shmemVars, CleanInv, ShmemTypes, Undoes, Binary, SoFar, Printed, InStep, Early, Free, Waits, Filling, SentOf, Filled, Taking, Plays, Out, Born, Extra, Counted, Shmem!Over

-----------------------------------------------------------------------------
(* shmem: what holds with a count left in the fifth semaphore as well. *)

\* The places of a sender that has not read the end of the file yet.
NotAtEof == {"sync", "set_empty", "set_full", "open", "birth", "prevent", "go", "wait", "access"}

Loose ==
    /\ ghosts \in Nat
    /\ sem \in [Shmem!Semaphores -> Nat]
    /\ undo \in [{r1, s1} -> [Shmem!Semaphores -> Int]]
    /\ shmem \in {-1} \cup (1 .. Shmem!Eof)
    /\ spc \in [{r1, s1} -> Shmem!Locations]
    /\ block \in [{s1} -> 0 .. Shmem!Eof]
    /\ toReset \in [{r1, s1} -> 0 .. 5]
    /\ failed \in [{r1, s1} -> BOOLEAN]
    /\ sprinted \in [{r1} -> Seq(1 .. ShmemBlocks)]
    /\ spc[s1] \in NotAtEof => block[s1] <= ShmemBlocks

ShmemInv == Loose /\ (ghosts = 0 => CleanInv)

LEMMA LooseTyped ==
  ASSUME Loose, NEW p \in {r1, s1}
  PROVE  Typed(p)
<1>1. sem \in [Shmem!Semaphores -> Nat] /\ undo[p] \in [Shmem!Semaphores -> Int]
  BY DEF Loose
<1> QED
  BY <1>1 DEF Typed

\* A list of operations that goes through leaves counts and adjustments.
LEMMA LooseDid ==
  ASSUME Loose, NEW p \in {r1, s1}, NEW a, NEW b \in Shmem!Locations, NEW s, NEW u,
         spc[p] = a, Others, Did(p, b, s, u),
         s \in [Shmem!Semaphores -> Nat], u \in [Shmem!Semaphores -> Int],
         p = r1 \/ a \in NotAtEof \/ b \notin NotAtEof \/ block[s1] <= ShmemBlocks
  PROVE  Loose'
<1> USE ShmemConstants
<1>1. spc' \in [{r1, s1} -> Shmem!Locations] /\ spc'[p] = b
      /\ \A q \in {r1, s1} : q # p => spc'[q] = spc[q]
  BY DEF Did, Stepped, Loose
<1>2. undo' \in [{r1, s1} -> [Shmem!Semaphores -> Int]]
  BY DEF Did, Loose
<1>3. spc'[s1] \in NotAtEof => block[s1] <= ShmemBlocks
  <2>1. spc[s1] \in NotAtEof => block[s1] <= ShmemBlocks
    BY DEF Loose
  <2>2. CASE p = r1
    BY <1>1, <2>1, <2>2
  <2>3. CASE p = s1
    BY <1>1, <2>1, <2>3
  <2> QED
    BY <2>2, <2>3
<1> QED
  BY <1>1, <1>2, <1>3 DEF Did, Others, Loose

LEMMA LooseFails ==
  ASSUME Loose, NEW p \in {r1, s1}, Others, Fails(p)
  PROVE  Loose'
<1> USE ShmemConstants
<1>1. "reset" \in Shmem!Locations
  BY DEF Shmem!Locations
<1>2. spc' \in [{r1, s1} -> Shmem!Locations] /\ spc'[p] = "reset"
      /\ \A q \in {r1, s1} : q # p => spc'[q] = spc[q]
  BY <1>1 DEF Fails, Stepped, Loose
<1>3. failed' \in [{r1, s1} -> BOOLEAN]
  BY DEF Fails, Loose
<1> QED
  BY <1>2, <1>3 DEF Fails, Others, Loose, NotAtEof

LEMMA LoosePlus ==
  ASSUME Loose, NEW k \in Shmem!Semaphores, NEW d \in Int, sem[k] + d >= 0
  PROVE  Plus(sem, k, d) \in [Shmem!Semaphores -> Nat]
<1>1. sem[k] + d \in Nat /\ sem \in [Shmem!Semaphores -> Nat]
  BY DEF Loose
<1> QED
  BY <1>1 DEF Plus

LEMMA LooseUndo ==
  ASSUME Loose, NEW p \in {r1, s1}, NEW k \in Shmem!Semaphores, NEW d \in Int
  PROVE  Plus(undo[p], k, d) \in [Shmem!Semaphores -> Int] /\ undo[p] \in [Shmem!Semaphores -> Int]
<1>1. undo[p] \in [Shmem!Semaphores -> Int]
  BY DEF Loose
<1> QED
  BY <1>1 DEF Plus

\* A step of p which changes the semaphores at most, and one that sets one.
LEMMA LooseElse ==
  ASSUME Loose, NEW p \in {r1, s1}, NEW b \in Shmem!Locations,
         UNCHANGED <<shmem, block, sprinted, ghosts>>,
         sem' \in [Shmem!Semaphores -> Nat],
         undo' \in [{r1, s1} -> [Shmem!Semaphores -> Int]],
         failed' \in [{r1, s1} -> BOOLEAN], toReset' \in [{r1, s1} -> 0 .. 5],
         Stepped(p, b),
         p = r1 \/ block[s1] <= ShmemBlocks \/ b \notin NotAtEof
  PROVE  Loose'
<1> USE ShmemConstants
<1>1. spc' \in [{r1, s1} -> Shmem!Locations] /\ spc'[p] = b
      /\ \A q \in {r1, s1} : q # p => spc'[q] = spc[q]
  BY DEF Stepped, Loose
<1>2. spc'[s1] \in NotAtEof => block[s1] <= ShmemBlocks
  <2>1. spc[s1] \in NotAtEof => block[s1] <= ShmemBlocks
    BY DEF Loose
  <2>2. CASE p = r1
    BY <1>1, <2>1, <2>2
  <2>3. CASE p = s1
    BY <1>1, <2>1, <2>3
  <2> QED
    BY <2>2, <2>3
<1> QED
  BY <1>1, <1>2 DEF Loose

LEMMA LooseSet ==
  ASSUME Loose, NEW k \in Shmem!Semaphores, NEW v \in Nat, Shmem!SetVal(k, v)
  PROVE  /\ sem' \in [Shmem!Semaphores -> Nat]
         /\ undo' \in [{r1, s1} -> [Shmem!Semaphores -> Int]]
<1>1. /\ sem \in [Shmem!Semaphores -> Nat]
      /\ undo \in [{r1, s1} -> [Shmem!Semaphores -> Int]]
  BY DEF Loose
<1>2. sem' = [sem EXCEPT ![k] = v] /\ undo' = [p \in {r1, s1} |-> [undo[p] EXCEPT ![k] = 0]]
  BY ShmemConstants DEF Shmem!SetVal
<1>3. \A p \in {r1, s1} : [undo[p] EXCEPT ![k] = 0] \in [Shmem!Semaphores -> Int]
  BY <1>1
<1> QED
  BY <1>1, <1>2, <1>3

LEMMA LooseExit ==
  ASSUME Loose, NEW p \in {r1, s1}, Shmem!ExitSem(p)
  PROVE  /\ sem' \in [Shmem!Semaphores -> Nat]
         /\ undo' \in [{r1, s1} -> [Shmem!Semaphores -> Int]]
<1> DEFINE e(k) == IF sem[k] + undo[p][k] < 0 THEN 0 ELSE sem[k] + undo[p][k]
           z == [k \in Shmem!Semaphores |-> 0]
<1>1. sem' = [k \in Shmem!Semaphores |-> e(k)] /\ undo' = [undo EXCEPT ![p] = z]
  BY DEF Shmem!ExitSem
<1>2. ASSUME NEW k \in Shmem!Semaphores PROVE e(k) \in Nat
  <2>1. sem[k] \in Nat /\ undo[p][k] \in Int
    BY DEF Loose
  <2> QED
    BY <2>1
<1>3. z \in [Shmem!Semaphores -> Int]
  OBVIOUS
<1> HIDE DEF z, e
<1>4. undo' \in [{r1, s1} -> [Shmem!Semaphores -> Int]]
  BY <1>1, <1>3 DEF Loose
<1> QED
  BY <1>1, <1>2, <1>4

\* The SETVALs of the end, the exit, and a kill.
LEMMA LooseLeave ==
  ASSUME Loose, NEW p \in {r1, s1}, Shmem!Reset(p) \/ Shmem!Exit(p) \/ Shmem!Kill(p)
  PROVE  Loose'
<1> USE ShmemConstants
<1>1. CASE Shmem!Reset(p)
  <2>1. /\ spc[p] = "reset" /\ toReset[p] \in Shmem!Semaphores /\ Shmem!SetVal(toReset[p], 0)
        /\ toReset' = [toReset EXCEPT ![p] = @ + 1]
        /\ UNCHANGED <<shmem, spc, block, failed, sprinted, ghosts>>
    BY <1>1 DEF Shmem!Reset
  <2>2. toReset[p] + 1 \in 0 .. 5
    BY <2>1
  <2>3. toReset' \in [{r1, s1} -> 0 .. 5]
    BY <2>1, <2>2 DEF Loose
  <2>4. /\ sem' \in [Shmem!Semaphores -> Nat]
        /\ undo' \in [{r1, s1} -> [Shmem!Semaphores -> Int]]
    BY <2>1, LooseSet
  <2> QED
    BY <2>1, <2>3, <2>4 DEF Loose
<1>2. CASE Shmem!Exit(p) \/ Shmem!Kill(p)
  <2>1. /\ Shmem!ExitSem(p) /\ UNCHANGED <<shmem, block, toReset, failed, sprinted, ghosts>>
        /\ Stepped(p, "failed") \/ Stepped(p, "done") \/ Stepped(p, "killed")
    BY <1>2 DEF Shmem!Exit, Shmem!Kill, Shmem!Goto, Stepped
  <2>2. /\ sem' \in [Shmem!Semaphores -> Nat]
        /\ undo' \in [{r1, s1} -> [Shmem!Semaphores -> Int]]
    BY <2>1, LooseExit
  <2>3. failed' \in [{r1, s1} -> BOOLEAN] /\ toReset' \in [{r1, s1} -> 0 .. 5]
    BY <2>1 DEF Loose
  <2>4. {"failed", "done", "killed"} \subseteq Shmem!Locations
    BY DEF Shmem!Locations, Shmem!Over
  <2> QED
    BY <2>1, <2>2, <2>3, <2>4, LooseElse DEF NotAtEof
<1> QED
  BY <1>1, <1>2

LEMMA LooseReceive == Loose /\ Shmem!Receive(r1) => Loose'
<1> SUFFICES ASSUME Loose, Shmem!Receive(r1) PROVE Loose'
  OBVIOUS
<1> USE ShmemConstants
<1>1. /\ Typed(r1) /\ r1 \in {r1, s1} /\ undo[r1] \in [Shmem!Semaphores -> Int]
      /\ \A k \in Shmem!Semaphores : sem[k] \in Nat
  BY LooseTyped DEF Loose
<1>2. {"birth", "prevent", "go", "wait", "access", "signal", "end", "reset", "refused", "failed",
       "done", "crashed"} \subseteq Shmem!Locations
  BY DEF Shmem!Locations, Shmem!Over
<1>3. CASE Shmem!Choose(r1, 3)
  <2>1. /\ spc[r1] = "sync" /\ Others /\ failed' = failed
        /\ \/ Did(r1, "birth", Plus(sem, 3, 1), Plus(undo[r1], 3, -1))
           \/ UNCHANGED <<sem, undo>> /\ Stepped(r1, "refused")
    BY <1>1, <1>3, ChooseStep
  <2>2. CASE Did(r1, "birth", Plus(sem, 3, 1), Plus(undo[r1], 3, -1))
    <3>1. Plus(sem, 3, 1) \in [Shmem!Semaphores -> Nat] /\ Plus(undo[r1], 3, -1) \in [Shmem!Semaphores -> Int]
      <4>1. sem[3] + 1 >= 0 /\ 1 \in Int /\ -1 \in Int
        BY <1>1
      <4> QED
        BY <1>1, <4>1, LoosePlus, LooseUndo
    <3> QED
      BY <1>2, <2>1, <2>2, <3>1, LooseDid DEF NotAtEof
  <2>3. CASE UNCHANGED <<sem, undo>> /\ Stepped(r1, "refused")
    BY <1>2, <2>1, <2>3, LooseElse DEF Others, Loose, NotAtEof
  <2> QED
    BY <2>1, <2>2, <2>3
<1>4. CASE Shmem!Birth(r1)
  <2>1. spc[r1] = "birth" /\ Others /\ Did(r1, "prevent", Plus(sem, 4, 1), Plus(undo[r1], 4, -1))
    BY <1>1, <1>4, BirthSemop
  <2>2. Plus(sem, 4, 1) \in [Shmem!Semaphores -> Nat] /\ Plus(undo[r1], 4, -1) \in [Shmem!Semaphores -> Int]
    <3>1. sem[4] + 1 >= 0 /\ 1 \in Int /\ -1 \in Int
      BY <1>1
    <3> QED
      BY <1>1, <3>1, LoosePlus, LooseUndo
  <2> QED
    BY <1>2, <2>1, <2>2, LooseDid DEF NotAtEof
<1>5. CASE Shmem!Prevent(r1, 0)
  <2>1. spc[r1] = "prevent" /\ Others /\ Did(r1, "go", sem, Plus(undo[r1], 0, 1))
    BY <1>1, <1>5, PreventSemop
  <2>2. sem \in [Shmem!Semaphores -> Nat] /\ Plus(undo[r1], 0, 1) \in [Shmem!Semaphores -> Int]
    BY <1>1, LooseUndo DEF Loose
  <2> QED
    BY <1>2, <2>1, <2>2, LooseDid DEF NotAtEof
<1>6. CASE Shmem!Go(r1)
  <2>1. spc[r1] = "go" /\ Others /\ Did(r1, "wait", sem, undo[r1])
    BY <1>1, <1>6, GoSemop
  <2>2. sem \in [Shmem!Semaphores -> Nat]
    BY DEF Loose
  <2> QED
    BY <1>1, <1>2, <2>1, <2>2, LooseDid DEF NotAtEof
<1>7. CASE Shmem!WaitFull(r1)
  <2>1. /\ spc[r1] = "wait" /\ Others
        /\ \/ sem[1] + -1 >= 0 /\ Did(r1, "access", Plus(sem, 1, -1), undo[r1])
           \/ Fails(r1)
    BY <1>1, <1>7, TransferSemop DEF Shmem!WaitFull, Shmem!Full
  <2>2. sem[1] + -1 >= 0 => Plus(sem, 1, -1) \in [Shmem!Semaphores -> Nat]
    BY <1>1, LoosePlus
  <2> QED
    BY <1>1, <1>2, <2>1, <2>2, LooseDid, LooseFails DEF NotAtEof
<1>8. CASE Shmem!Take(r1)
  <2>1. CASE spc[r1] = "access" /\ shmem = -1 /\ Shmem!ExitSem(r1) /\ Stepped(r1, "crashed")
             /\ UNCHANGED <<shmem, sprinted, block, toReset, failed, ghosts>>
    <3>1. failed' \in [{r1, s1} -> BOOLEAN] /\ toReset' \in [{r1, s1} -> 0 .. 5]
      BY <2>1 DEF Loose
    <3>2. /\ sem' \in [Shmem!Semaphores -> Nat]
          /\ undo' \in [{r1, s1} -> [Shmem!Semaphores -> Int]]
      BY <2>1, LooseExit
    <3> QED
      BY <1>2, <2>1, <3>1, <3>2, LooseElse DEF NotAtEof
  <2>2. CASE Stepped(r1, "end") /\ UNCHANGED <<sem, undo, shmem, sprinted, block, toReset, failed, ghosts>>
    BY <1>2, <2>2, LooseElse DEF Loose, NotAtEof
  <2>3. CASE /\ shmem \in 1 .. ShmemBlocks /\ sprinted' = [sprinted EXCEPT ![r1] = Append(@, shmem)]
             /\ shmem' = -1 /\ Stepped(r1, "signal")
             /\ UNCHANGED <<sem, undo, block, toReset, failed, ghosts>>
    <3>1. sprinted[r1] \in Seq(1 .. ShmemBlocks)
      BY DEF Loose
    <3>2. Append(sprinted[r1], shmem) \in Seq(1 .. ShmemBlocks)
      BY <2>3, <3>1
    <3>3. sprinted' \in [{r1} -> Seq(1 .. ShmemBlocks)]
      BY <2>3, <3>2 DEF Loose
    <3>4. spc' \in [{r1, s1} -> Shmem!Locations] /\ spc'[s1] = spc[s1]
      BY <1>2, <2>3 DEF Stepped, Loose
    <3> QED
      BY <2>3, <3>3, <3>4 DEF Loose
  <2> QED
    BY <1>8, <2>1, <2>2, <2>3 DEF Shmem!Take, Shmem!Goto, Stepped
<1>9. CASE Shmem!SignalEmpty(r1)
  <2>1. /\ spc[r1] = "signal" /\ Others
        /\ \/ sem[0] + 1 >= 0 /\ Did(r1, "wait", Plus(sem, 0, 1), undo[r1])
           \/ Fails(r1)
    BY <1>1, <1>9, TransferSemop DEF Shmem!SignalEmpty, Shmem!Empty
  <2>2. Plus(sem, 0, 1) \in [Shmem!Semaphores -> Nat]
    BY <1>1, LoosePlus
  <2> QED
    BY <1>1, <1>2, <2>1, <2>2, LooseDid, LooseFails DEF NotAtEof
<1>10. CASE Shmem!ReceiverEnd(r1)
  <2>1. /\ spc[r1] = "end" /\ Others
        /\ \/ Did(r1, "reset", Plus(sem, 4, 1), undo[r1])
           \/ Fails(r1)
    BY <1>1, <1>10, EndSemop DEF Shmem!ReceiverEnd
  <2>2. Plus(sem, 4, 1) \in [Shmem!Semaphores -> Nat]
    BY <1>1, LoosePlus
  <2> QED
    BY <1>1, <1>2, <2>1, <2>2, LooseDid, LooseFails DEF NotAtEof
<1>11. CASE Shmem!Reset(r1) \/ Shmem!Exit(r1)
  BY <1>11, LooseLeave
<1> QED
  BY <1>3, <1>4, <1>5, <1>6, <1>7, <1>8, <1>9, <1>10, <1>11
  DEF Shmem!Receive, Shmem!Rcv, Shmem!Empty

LEMMA LooseSend == Loose /\ Shmem!Send(s1) => Loose'
<1> SUFFICES ASSUME Loose, Shmem!Send(s1) PROVE Loose'
  OBVIOUS
<1> USE ShmemConstants
<1>1. /\ Typed(s1) /\ s1 \in {r1, s1} /\ undo[s1] \in [Shmem!Semaphores -> Int]
      /\ \A k \in Shmem!Semaphores : sem[k] \in Nat
  BY LooseTyped DEF Loose
<1>2. {"set_empty", "set_full", "open", "birth", "prevent", "go", "wait", "access", "signal",
       "end", "wait_both", "reset", "refused"} \subseteq Shmem!Locations
  BY DEF Shmem!Locations, Shmem!Over
<1>3. CASE Shmem!Choose(s1, 2)
  <2>1. /\ spc[s1] = "sync" /\ Others /\ failed' = failed
        /\ \/ Did(s1, "set_empty", Plus(sem, 2, 1), Plus(undo[s1], 2, -1))
           \/ UNCHANGED <<sem, undo>> /\ Stepped(s1, "refused")
    BY <1>1, <1>3, ChooseStep
  <2>2. CASE Did(s1, "set_empty", Plus(sem, 2, 1), Plus(undo[s1], 2, -1))
    <3>1. Plus(sem, 2, 1) \in [Shmem!Semaphores -> Nat] /\ Plus(undo[s1], 2, -1) \in [Shmem!Semaphores -> Int]
      <4>1. sem[2] + 1 >= 0 /\ 1 \in Int /\ -1 \in Int
        BY <1>1
      <4> QED
        BY <1>1, <4>1, LoosePlus, LooseUndo
    <3> QED
      BY <1>2, <2>1, <2>2, <3>1, LooseDid DEF NotAtEof
  <2>3. CASE UNCHANGED <<sem, undo>> /\ Stepped(s1, "refused")
    BY <1>2, <2>1, <2>3, LooseElse DEF Others, Loose, NotAtEof
  <2> QED
    BY <2>1, <2>2, <2>3
<1>4. CASE Shmem!Birth(s1)
  <2>1. spc[s1] = "birth" /\ Others /\ Did(s1, "prevent", Plus(sem, 4, 1), Plus(undo[s1], 4, -1))
    BY <1>1, <1>4, BirthSemop
  <2>2. Plus(sem, 4, 1) \in [Shmem!Semaphores -> Nat] /\ Plus(undo[s1], 4, -1) \in [Shmem!Semaphores -> Int]
    <3>1. sem[4] + 1 >= 0 /\ 1 \in Int /\ -1 \in Int
      BY <1>1
    <3> QED
      BY <1>1, <3>1, LoosePlus, LooseUndo
  <2> QED
    BY <1>2, <2>1, <2>2, LooseDid DEF NotAtEof
<1>5. CASE Shmem!Prevent(s1, 1)
  <2>1. spc[s1] = "prevent" /\ Others /\ Did(s1, "go", sem, Plus(undo[s1], 1, 1))
    BY <1>1, <1>5, PreventSemop
  <2>2. sem \in [Shmem!Semaphores -> Nat] /\ Plus(undo[s1], 1, 1) \in [Shmem!Semaphores -> Int]
    BY <1>1, LooseUndo DEF Loose
  <2> QED
    BY <1>2, <2>1, <2>2, LooseDid DEF NotAtEof
<1>6. CASE Shmem!Go(s1)
  <2>1. spc[s1] = "go" /\ Others /\ Did(s1, "wait", sem, undo[s1])
    BY <1>1, <1>6, GoSemop
  <2>2. sem \in [Shmem!Semaphores -> Nat]
    BY DEF Loose
  <2> QED
    BY <1>1, <1>2, <2>1, <2>2, LooseDid DEF NotAtEof
<1>7. CASE Shmem!WaitEmpty(s1)
  <2>1. /\ spc[s1] = "wait" /\ Others
        /\ \/ sem[0] + -1 >= 0 /\ Did(s1, "access", Plus(sem, 0, -1), undo[s1])
           \/ Fails(s1)
    BY <1>1, <1>7, TransferSemop DEF Shmem!WaitEmpty, Shmem!Empty
  <2>2. sem[0] + -1 >= 0 => Plus(sem, 0, -1) \in [Shmem!Semaphores -> Nat]
    BY <1>1, LoosePlus
  <2> QED
    BY <1>1, <1>2, <2>1, <2>2, LooseDid, LooseFails DEF NotAtEof
<1>8. CASE Shmem!Fill(s1)
  <2>1. /\ spc[s1] = "access" /\ block' = [block EXCEPT ![s1] = @ + 1] /\ shmem' = block[s1] + 1
        /\ Stepped(s1, "signal") /\ UNCHANGED <<sem, undo, toReset, failed, sprinted, ghosts>>
    BY <1>8 DEF Shmem!Fill, Shmem!Goto, Stepped
  <2>2. block[s1] \in 0 .. Shmem!Eof /\ block[s1] <= ShmemBlocks
    BY <2>1 DEF Loose, NotAtEof
  <2>3. block[s1] + 1 \in 1 .. Shmem!Eof
    BY <2>2
  <2>4. block' \in [{s1} -> 0 .. Shmem!Eof] /\ shmem' \in {-1} \cup (1 .. Shmem!Eof)
    BY <2>1, <2>3 DEF Loose
  <2>5. spc' \in [{r1, s1} -> Shmem!Locations] /\ spc'[s1] = "signal"
    BY <1>2, <2>1 DEF Stepped, Loose
  <2> QED
    BY <2>1, <2>4, <2>5 DEF Loose, NotAtEof
<1>9. CASE Shmem!SignalFull(s1)
  <2> DEFINE b == IF block[s1] = Shmem!Eof THEN "end" ELSE "wait"
  <2>1. /\ spc[s1] = "signal" /\ Others
        /\ \/ sem[1] + 1 >= 0 /\ Did(s1, b, Plus(sem, 1, 1), undo[s1])
           \/ Fails(s1)
    BY <1>1, <1>9, TransferSemop DEF Shmem!SignalFull, Shmem!Full
  <2>2. Plus(sem, 1, 1) \in [Shmem!Semaphores -> Nat]
    BY <1>1, LoosePlus
  <2>3. b \in Shmem!Locations /\ (b = "end" \/ block[s1] <= ShmemBlocks)
    <3>1. block[s1] \in 0 .. ShmemBlocks + 1
      BY DEF Loose
    <3> QED
      BY <1>2, <3>1
  <2> HIDE DEF b
  <2> QED
    BY <1>1, <2>1, <2>2, <2>3, LooseDid, LooseFails DEF NotAtEof
<1>10. CASE Shmem!SenderEnd(s1)
  <2>1. /\ spc[s1] = "end" /\ Others
        /\ \/ Did(s1, "wait_both", Plus(sem, 4, 1), undo[s1])
           \/ Fails(s1)
    BY <1>1, <1>10, EndSemop DEF Shmem!SenderEnd
  <2>2. Plus(sem, 4, 1) \in [Shmem!Semaphores -> Nat]
    BY <1>1, LoosePlus
  <2> QED
    BY <1>1, <1>2, <2>1, <2>2, LooseDid, LooseFails DEF NotAtEof
<1>11. CASE Shmem!WaitBoth(s1)
  <2>1. spc[s1] = "wait_both" /\ Others /\ sem[4] >= 4 /\ Did(s1, "reset", Plus(sem, 4, -4), undo[s1])
    BY <1>1, <1>11, WaitBothSemop
  <2>2. Plus(sem, 4, -4) \in [Shmem!Semaphores -> Nat]
    <3>1. sem[4] + -4 >= 0 /\ -4 \in Int
      BY <1>1, <2>1
    <3> QED
      BY <3>1, LoosePlus
  <2> QED
    BY <1>1, <1>2, <2>1, <2>2, LooseDid DEF NotAtEof
<1>12. CASE Shmem!SetEmpty(s1) \/ Shmem!SetFull(s1)
  <2>1. /\ \/ Shmem!SetVal(0, 1) /\ Stepped(s1, "set_full") /\ spc[s1] = "set_empty"
           \/ Shmem!SetVal(1, 0) /\ Stepped(s1, "open") /\ spc[s1] = "set_full"
        /\ UNCHANGED <<shmem, block, toReset, failed, sprinted, ghosts>>
    BY <1>12 DEF Shmem!SetEmpty, Shmem!SetFull, Shmem!Goto, Stepped
  <2>2. /\ sem' \in [Shmem!Semaphores -> Nat]
        /\ undo' \in [{r1, s1} -> [Shmem!Semaphores -> Int]]
    BY <2>1, LooseSet
  <2>3. failed' \in [{r1, s1} -> BOOLEAN] /\ toReset' \in [{r1, s1} -> 0 .. 5]
        /\ block[s1] <= ShmemBlocks
    BY <2>1 DEF Loose, NotAtEof
  <2> QED
    BY <1>2, <2>1, <2>2, <2>3, LooseElse DEF NotAtEof
<1>13. CASE Shmem!Open(s1)
  <2>1. /\ Stepped(s1, "birth") \/ Stepped(s1, "reset")
        /\ failed' = failed \/ failed' = [failed EXCEPT ![s1] = TRUE]
        /\ spc[s1] = "open" /\ UNCHANGED <<sem, undo, shmem, block, toReset, sprinted, ghosts>>
    BY <1>13 DEF Shmem!Open, Shmem!Goto, Stepped
  <2>2. /\ sem' \in [Shmem!Semaphores -> Nat]
        /\ undo' \in [{r1, s1} -> [Shmem!Semaphores -> Int]]
        /\ failed' \in [{r1, s1} -> BOOLEAN] /\ toReset' \in [{r1, s1} -> 0 .. 5]
        /\ block[s1] <= ShmemBlocks
    BY <2>1 DEF Loose, NotAtEof
  <2> QED
    BY <1>2, <2>1, <2>2, LooseElse DEF NotAtEof
<1>14. CASE Shmem!Reset(s1) \/ Shmem!Exit(s1)
  BY <1>14, LooseLeave
<1> QED
  BY <1>3, <1>4, <1>5, <1>6, <1>7, <1>8, <1>9, <1>10, <1>11, <1>12, <1>13, <1>14
  DEF Shmem!Send, Shmem!Snd, Shmem!Full

LEMMA LooseInit == Shmem!Init => Loose
<1> SUFFICES ASSUME Shmem!Init PROVE Loose
  OBVIOUS
<1> USE ShmemConstants
<1>1. /\ sem \in [Shmem!Semaphores -> 0 .. ShmemLeft] /\ ghosts = sem[4]
      /\ undo = [p \in {r1, s1} |-> [k \in Shmem!Semaphores |-> 0]]
      /\ shmem \in {-1} \cup (1 .. Shmem!Eof) /\ spc = [p \in {r1, s1} |-> "sync"]
      /\ block = [s \in {s1} |-> 0] /\ toReset = [p \in {r1, s1} |-> 0]
      /\ failed = [p \in {r1, s1} |-> FALSE] /\ sprinted = [r \in {r1} |-> <<>>]
      /\ ShmemLeft \in Nat
  BY ProgramsAssumption DEF Shmem!Init, Shmem!BoundAssumption
<1>2. sem \in [Shmem!Semaphores -> Nat] /\ 4 \in Shmem!Semaphores
  BY <1>1
<1>3. undo \in [{r1, s1} -> [Shmem!Semaphores -> Int]]
  BY <1>1
<1>4. sprinted \in [{r1} -> Seq(1 .. ShmemBlocks)] /\ "sync" \in Shmem!Locations
  <2>1. <<>> \in Seq(1 .. ShmemBlocks)
    BY EmptySeq
  <2> QED
    BY <1>1, <2>1 DEF Shmem!Locations
<1> QED
  BY <1>1, <1>2, <1>3, <1>4 DEF Loose

LEMMA ShmemInit == Shmem!Init => ShmemInv
BY LooseInit, CleanInit DEF ShmemInv

LEMMA ShmemStep == ShmemInv /\ Shmem!Next => ShmemInv'
<1> SUFFICES ASSUME ShmemInv, Shmem!Next PROVE ShmemInv'
  OBVIOUS
<1>1. \/ Shmem!Receive(r1) \/ Shmem!Send(s1) \/ \E p \in {r1, s1} : Shmem!Kill(p)
  BY ShmemConstants DEF Shmem!Next, Shmem!Step
<1>2. Loose'
  BY <1>1, LooseReceive, LooseSend, LooseLeave DEF ShmemInv
<1>3. ghosts' = ghosts
  BY <1>1 DEF Shmem!Receive, Shmem!Send, Shmem!Kill, Shmem!Choose, Shmem!Semop, Shmem!Birth,
     Shmem!Prevent, Shmem!Go, Shmem!WaitFull, Shmem!Take, Shmem!SignalEmpty,
     Shmem!ReceiverEnd, Shmem!Reset, Shmem!Exit, Shmem!SetEmpty, Shmem!SetFull, Shmem!Open,
     Shmem!WaitEmpty, Shmem!Fill, Shmem!SignalFull, Shmem!SenderEnd, Shmem!WaitBoth
<1> QED
  BY <1>2, <1>3, CleanStep DEF ShmemInv

LEMMA ShmemStutter == ShmemInv /\ UNCHANGED shmemVars => ShmemInv'
<1> SUFFICES ASSUME ShmemInv, UNCHANGED shmemVars PROVE ShmemInv'
  OBVIOUS
<1>1. Loose'
  BY DEF ShmemInv, shmemVars, Loose
<1>2. ghosts' = ghosts
  BY DEF shmemVars
<1> QED
  BY <1>1, <1>2, CleanStutter DEF ShmemInv

\* What a user sees of it.
LEMMA ShmemResult == ShmemInv => Shmem!TypeOK /\ Shmem!PrintsTheFile
<1> SUFFICES ASSUME ShmemInv PROVE Shmem!TypeOK /\ Shmem!PrintsTheFile
  OBVIOUS
<1> USE ShmemConstants
<1>1. ASSUME ghosts = 0
      PROVE  /\ \A p \in {r1, s1} : \A k \in Shmem!Semaphores : undo[p][k] \in -1 .. 1
             /\ \/ sem[0] <= 1 /\ sem[1] <= 1
                \/ spc[r1] = "killed" \/ spc[s1] = "killed"
                \/ spc[s1] \in {"sync", "refused", "set_empty", "set_full"}
             /\ sprinted[r1] = [k \in 1 .. Len(sprinted[r1]) |-> k]
             /\ spc[r1] = "done" => Len(sprinted[r1]) = ShmemBlocks
  <2>1. ShmemTypes /\ Binary /\ SoFar
    BY <1>1 DEF ShmemInv, CleanInv
  <2>2. \A p \in {r1, s1} : \A k \in Shmem!Semaphores : undo[p][k] \in -1 .. 1
    BY <2>1 DEF ShmemTypes
  <2>3. \/ sem[0] <= 1 /\ sem[1] <= 1
        \/ spc[r1] = "killed" \/ spc[s1] = "killed"
        \/ spc[s1] \in {"sync", "refused", "set_empty", "set_full"}
    BY <2>1 DEF Binary
  <2> QED
    BY <2>1, <2>2, <2>3 DEF SoFar, Printed
<1>2. Shmem!TypeOK
  BY <1>1 DEF Shmem!TypeOK, ShmemInv, Loose
<1>3. Shmem!PrintsTheFile
  BY <1>1 DEF Shmem!PrintsTheFile
<1> QED
  BY <1>2, <1>3

-----------------------------------------------------------------------------
(* select: the beginning of some data and what comes after it. *)

LEMMA Lesser ==
  ASSUME NEW a \in Nat, NEW b \in Nat
  PROVE  /\ Select!Least(a, b) \in Nat /\ Select!Least(a, b) <= a /\ Select!Least(a, b) <= b
         /\ a <= b => Select!Least(a, b) = a
         /\ b <= a => Select!Least(a, b) = b
BY DEF Select!Least

LEMMA FirstWithout ==
  ASSUME NEW S, NEW s \in Seq(S), NEW n \in Nat
  PROVE  /\ Select!First(n, s) \in Seq(S) /\ Select!Without(n, s) \in Seq(S)
         /\ Len(Select!First(n, s)) = Select!Least(n, Len(s))
         /\ \A x \in 1 .. Select!Least(n, Len(s)) : Select!First(n, s)[x] = s[x]
         /\ Len(Select!Without(n, s)) = Len(s) - Select!Least(n, Len(s))
         /\ \A x \in 1 .. Len(s) - Select!Least(n, Len(s)) :
                Select!Without(n, s)[x] = s[x + Select!Least(n, Len(s))]
<1> DEFINE m == Select!Least(n, Len(s))  f == SubSeq(s, 1, m)  w == SubSeq(s, n + 1, Len(s))
<1>1. /\ Len(s) \in Nat /\ \A x \in 1 .. Len(s) : s[x] \in S
  BY LenProperties, ElementOfSeq
<1>2. m \in Nat /\ m <= n /\ m <= Len(s) /\ (n <= Len(s) => m = n) /\ (Len(s) <= n => m = Len(s))
  BY <1>1, Lesser
<1> HIDE DEF m
<1>3. f \in Seq(S) /\ Len(f) = m /\ \A x \in 1 .. m : f[x] = s[x]
  <2>1. /\ f \in Seq(S) /\ Len(f) = IF 1 <= m THEN m - 1 + 1 ELSE 0
        /\ \A x \in 1 .. m - 1 + 1 : f[x] = s[1 + x - 1]
    <3>1. 1 \in Int /\ m \in Int /\ \A x \in 1 .. m : s[x] \in S
      BY <1>1, <1>2
    <3> QED
      BY <3>1, SubSeqProperties
  <2> HIDE DEF f
  <2> QED
    BY <1>2, <2>1
<1>4. /\ w \in Seq(S) /\ Len(w) = Len(s) - m /\ \A x \in 1 .. Len(s) - m : w[x] = s[x + m]
  <2>1. /\ w \in Seq(S) /\ Len(w) = IF n + 1 <= Len(s) THEN Len(s) - (n + 1) + 1 ELSE 0
        /\ \A x \in 1 .. Len(s) - (n + 1) + 1 : w[x] = s[(n + 1) + x - 1]
    <3>1. n + 1 \in Int /\ Len(s) \in Int /\ \A x \in n + 1 .. Len(s) : s[x] \in S
      BY <1>1
    <3> QED
      BY <3>1, SubSeqProperties
  <2> HIDE DEF w
  <2>2. CASE n <= Len(s)
    BY <1>1, <1>2, <2>1, <2>2
  <2>3. CASE Len(s) < n
    BY <1>1, <1>2, <2>1, <2>3
  <2> QED
    BY <1>1, <2>2, <2>3
<1>5. Select!First(n, s) = f /\ Select!Without(n, s) = w
  BY DEF Select!First, Select!Without, m
<1> QED
  BY <1>3, <1>4, <1>5 DEF m

\* The units of the file after a and up to b.
Span(a, b) == [x \in 1 .. b - a |-> a + x]

LEMMA SpanIs ==
  ASSUME NEW a \in Nat, NEW b \in Nat, a <= b, b <= FileLength, FileLength \in Nat
  PROVE  /\ Span(a, b) \in Seq(1 .. FileLength) /\ Len(Span(a, b)) = b - a
         /\ \A x \in 1 .. b - a : Span(a, b)[x] = a + x
<1>1. b - a \in Nat /\ \A x \in 1 .. b - a : a + x \in 1 .. FileLength
  OBVIOUS
<1>2. Span(a, b) \in [1 .. b - a -> 1 .. FileLength]
  BY <1>1 DEF Span
<1> QED
  BY <1>1, <1>2 DEF Span

LEMMA SpanOf ==
  ASSUME NEW a \in Nat, NEW b \in Nat, a <= b, b <= FileLength, FileLength \in Nat,
         NEW S, NEW s \in Seq(S), Len(s) = b - a, \A x \in 1 .. b - a : s[x] = a + x
  PROVE  s = Span(a, b)
<1>1. b - a \in Nat /\ s \in [1 .. b - a -> S]
  BY LenProperties
<1> QED
  BY <1>1 DEF Span

LEMMA SpanEmpty ==
  ASSUME NEW a \in Nat, NEW b \in Nat, a <= b, b <= FileLength, FileLength \in Nat
  PROVE  Span(a, b) = <<>> <=> a = b
<1>1. Len(Span(a, b)) = b - a /\ Span(a, b) \in Seq(1 .. FileLength)
  BY SpanIs
<1>2. Len(<<>>) = 0 /\ (Span(a, b) # <<>> => Len(Span(a, b)) \in Nat \ {0})
  BY <1>1, EmptySeq
<1> QED
  BY <1>1, <1>2

LEMMA SpanAppend ==
  ASSUME NEW a \in Nat, NEW b \in Nat, a <= b, b + 1 <= FileLength, FileLength \in Nat
  PROVE  Append(Span(a, b), b + 1) = Span(a, b + 1)
<1> DEFINE s == Span(a, b)  t == Append(s, b + 1)
<1>1. s \in Seq(1 .. FileLength) /\ Len(s) = b - a /\ \A x \in 1 .. b - a : s[x] = a + x
  BY SpanIs
<1> HIDE DEF s
<1>2. /\ t \in Seq(1 .. FileLength) /\ Len(t) = b + 1 - a
      /\ \A x \in 1 .. b + 1 - a : t[x] = a + x
  <2>1. b + 1 \in 1 .. FileLength
    OBVIOUS
  <2>2. t \in Seq(1 .. FileLength) /\ Len(t) = Len(s) + 1
        /\ t[Len(s) + 1] = b + 1 /\ \A x \in 1 .. Len(s) : t[x] = s[x]
    BY <1>1, <2>1, AppendElements
  <2> QED
    BY <1>1, <2>2
<1> HIDE DEF t
<1>3. t = Span(a, b + 1)
  BY <1>2, SpanOf
<1> QED
  BY <1>3 DEF t, s

LEMMA SpanHead ==
  ASSUME NEW a \in Nat, NEW b \in Nat, a < b, b <= FileLength, FileLength \in Nat
  PROVE  Head(Span(a, b)) = a + 1 /\ Tail(Span(a, b)) = Span(a + 1, b)
<1> DEFINE s == Span(a, b)  t == Tail(s)
<1>1. s \in Seq(1 .. FileLength) /\ Len(s) = b - a /\ \A x \in 1 .. b - a : s[x] = a + x
  BY SpanIs
<1>0. s # <<>>
  BY SpanEmpty
<1> HIDE DEF s
<1>2. /\ t \in Seq(1 .. FileLength) /\ Len(t) = b - (a + 1)
      /\ \A x \in 1 .. b - (a + 1) : t[x] = (a + 1) + x
  BY <1>0, <1>1, HeadTailProperties
<1>4. Head(s) = a + 1
  BY <1>0, <1>1
<1> HIDE DEF t
<1>3. t = Span(a + 1, b)
  BY <1>2, SpanOf
<1> QED
  BY <1>3, <1>4 DEF t, s

LEMMA SpanSplit ==
  ASSUME NEW a \in Nat, NEW b \in Nat, a <= b, b <= FileLength, FileLength \in Nat, NEW n \in Nat
  PROVE  LET m == Select!Least(n, b - a)
         IN /\ m \in Nat /\ a + m <= b
            /\ Select!First(n, Span(a, b)) = Span(a, a + m)
            /\ Select!Without(n, Span(a, b)) = Span(a + m, b)
<1> DEFINE s == Span(a, b)  m == Select!Least(n, b - a)
           f == Select!First(n, s)  w == Select!Without(n, s)
<1>1. s \in Seq(1 .. FileLength) /\ Len(s) = b - a /\ \A x \in 1 .. b - a : s[x] = a + x
  BY SpanIs
<1>2. m \in Nat /\ m <= b - a
  BY Lesser
<1> HIDE DEF s, m
<1>3. /\ f \in Seq(1 .. FileLength) /\ w \in Seq(1 .. FileLength)
      /\ Len(f) = m /\ (\A x \in 1 .. m : f[x] = s[x])
      /\ Len(w) = Len(s) - m /\ (\A x \in 1 .. Len(s) - m : w[x] = s[x + m])
  <2> DEFINE e == Select!Least(n, Len(s))
  <2>1. /\ f \in Seq(1 .. FileLength) /\ w \in Seq(1 .. FileLength)
        /\ Len(f) = e /\ (\A x \in 1 .. e : f[x] = s[x])
        /\ Len(w) = Len(s) - e /\ (\A x \in 1 .. Len(s) - e : w[x] = s[x + e])
    BY <1>1, FirstWithout
  <2>2. e = m
    BY <1>1 DEF m
  <2> HIDE DEF e, f, w
  <2> QED
    BY <2>1, <2>2
<1> HIDE DEF f, w
<1>4. f = Span(a, a + m)
  <2>1. Len(f) = (a + m) - a /\ \A x \in 1 .. (a + m) - a : f[x] = a + x
    BY <1>1, <1>2, <1>3
  <2>2. a + m \in Nat /\ a <= a + m /\ a + m <= FileLength
    BY <1>2
  <2> QED
    BY <1>3, <2>1, <2>2, SpanOf
<1>5. w = Span(a + m, b)
  <2>1. Len(w) = b - (a + m) /\ \A x \in 1 .. b - (a + m) : w[x] = (a + m) + x
    BY <1>1, <1>2, <1>3
  <2>2. a + m \in Nat /\ a + m <= b
    BY <1>2
  <2> QED
    BY <1>3, <2>1, <2>2, SpanOf
<1> QED
  BY <1>2, <1>4, <1>5 DEF m, f, w, s

LEMMA SpanConcat ==
  ASSUME NEW a \in Nat, NEW b \in Nat, NEW c \in Nat, a <= b, b <= c, c <= FileLength, FileLength \in Nat
  PROVE  Span(a, b) \o Span(b, c) = Span(a, c)
<1> DEFINE s == Span(a, b)  t == Span(b, c)  v == s \o t
<1>1. s \in Seq(1 .. FileLength) /\ Len(s) = b - a /\ \A x \in 1 .. b - a : s[x] = a + x
  BY SpanIs
<1>2. t \in Seq(1 .. FileLength) /\ Len(t) = c - b /\ \A x \in 1 .. c - b : t[x] = b + x
  BY SpanIs
<1> HIDE DEF s, t
<1>3. /\ v \in Seq(1 .. FileLength) /\ Len(v) = Len(s) + Len(t)
      /\ \A x \in 1 .. Len(s) + Len(t) : v[x] = IF x <= Len(s) THEN s[x] ELSE t[x - Len(s)]
  BY <1>1, <1>2, ConcatProperties
<1> HIDE DEF v
<1>4. Len(v) = c - a /\ \A x \in 1 .. c - a : v[x] = a + x
  BY <1>1, <1>2, <1>3
<1>5. v = Span(a, c)
  BY <1>3, <1>4, SpanOf
<1> QED
  BY <1>5 DEF v, s, t

-----------------------------------------------------------------------------
(* select: the types, what fits, and what the sets of select() stand for. *)

Units == Seq(1 .. FileLength)

Chained == Select!Child

SelectTypes ==
    /\ left \in 0 .. FileLength /\ turn \in 0 .. ChainLength /\ output \in Units
    /\ toChild \in [Chained -> Units] /\ toParent \in [Chained -> Units]
    /\ cbuf \in [Chained -> Units] /\ buf \in [Chained -> Units]
    /\ size \in [Chained -> Nat] /\ alive \in [Chained -> BOOLEAN]
    /\ ccpc \in [Chained -> {"run", "ended", "killed"}]
    /\ cppc \in {"select", "serve", "wait", "ended", "killed"}
    /\ inset \subseteq Chained /\ outset \subseteq Chained

Fits(k) == /\ Len(toChild[k]) <= PipeCapacity /\ Len(toParent[k]) <= PipeCapacity
           /\ Len(cbuf[k]) <= MinBuf * ChainLength
           /\ Len(buf[k]) <= MinBuf * (ChainLength - k) /\ Len(buf[k]) <= PipeCapacity
           /\ size[k] <= Len(buf[k])

\* What select() has found out holds until the turn of the piper.
Found(j) == /\ j \in inset => alive[j] /\ size[j] = 0 /\ (toParent[j] # <<>> \/ ccpc[j] # "run")
            /\ j \in outset =>
                   /\ alive[j] /\ size[j] # 0
                   /\ \/ j = ChainLength - 1 \/ ccpc[j + 1] # "run"
                      \/ PipeCapacity - Len(toChild[j + 1]) >= PipeBuf

SelectInv == /\ SelectTypes /\ \A k \in Chained : Fits(k)
             /\ cppc = "serve" => \A j \in Chained : j >= turn => Found(j)

LEMMA SelectConstants ==
  /\ ChainLength \in Nat /\ ChainLength > 0 /\ FileLength \in Nat /\ MinBuf \in Nat
  /\ PipeCapacity \in Nat /\ PipeBuf \in Nat /\ PipeBuf > 0 /\ PipeBuf <= PipeCapacity
  /\ Chained = 0 .. ChainLength - 1 /\ Chained = Select!Child
  /\ MinBuf * ChainLength \in Nat /\ MinBuf * ChainLength > 0
  /\ \A k \in Chained : MinBuf * (ChainLength - k) \in Nat /\ MinBuf * (ChainLength - k) > 0
<1>1. /\ ChainLength \in Nat \ {0} /\ FileLength \in Nat /\ MinBuf \in Nat \ {0}
      /\ PipeCapacity \in Nat /\ PipeBuf \in 1 .. PipeCapacity
  BY ProgramsAssumption DEF Select!SizeAssumption
<1>2. Chained = 0 .. ChainLength - 1 /\ Chained = Select!Child
  BY DEF Chained, Select!Child
<1>3. \A x, y \in Nat : x > 0 /\ y > 0 => x * y \in Nat /\ x * y > 0
  <2>1. ASSUME NEW x \in Nat, NEW y \in Nat, x > 0, y > 0 PROVE x * y \in Nat /\ x * y > 0
    <3>1. x * y \in Nat /\ 1 * y <= x * y
      BY <2>1, TimesMonotone
    <3> QED
      BY <2>1, <3>1
  <2> QED
    BY <2>1
<1>4. ASSUME NEW k \in Chained PROVE MinBuf * (ChainLength - k) \in Nat /\ MinBuf * (ChainLength - k) > 0
  <2>1. ChainLength - k \in Nat /\ ChainLength - k > 0
    BY <1>1, <1>2
  <2> QED
    BY <1>1, <1>3, <2>1
<1>5. MinBuf * ChainLength \in Nat /\ MinBuf * ChainLength > 0
  BY <1>1, <1>3
<1> QED
  BY <1>1, <1>2, <1>4, <1>5

LEMMA LenUnits == \A s \in Units : Len(s) \in Nat
BY LenProperties DEF Units

LEMMA ReadFileSafe ==
  ASSUME SelectInv, Select!ReadFile
  PROVE  SelectInv'
<1> USE SelectConstants
<1> DEFINE n == Select!Least(MinBuf * ChainLength, FileLength - left)
<1>2. left \in Nat /\ left <= FileLength /\ FileLength - left \in Nat
  BY DEF SelectInv, SelectTypes
<1>3. n \in Nat /\ n <= MinBuf * ChainLength /\ n <= FileLength - left
  BY <1>2, Lesser
<1>1. /\ cbuf' = [cbuf EXCEPT ![0] = Span(left, left + n)] /\ left' = left + n
      /\ UNCHANGED <<toChild, toParent, ccpc, buf, size, alive, cppc, inset, outset, turn, output>>
  <2>1. (left + n) - left = n
    BY <1>2, <1>3
  <2>2. Span(left, left + n) = [x \in 1 .. n |-> left + x]
    BY <2>1 DEF Span
  <2> QED
    BY <2>2 DEF Select!ReadFile, Select!pipes, Select!pipers, Select!loop
<1> HIDE DEF n
<1> DEFINE v == Span(left, left + n)
<1>4. v \in Units /\ Len(v) = n /\ left' \in 0 .. FileLength
  <2>1. left + n \in Nat /\ left <= left + n /\ left + n <= FileLength /\ (left + n) - left = n
    BY <1>2, <1>3
  <2>2. v \in Units /\ Len(v) = (left + n) - left
    BY <1>2, <2>1, SpanIs DEF Units
  <2> HIDE DEF v
  <2> QED
    BY <1>1, <2>1, <2>2
<1> HIDE DEF v
<1>5. /\ cbuf' \in [Chained -> Units] /\ cbuf'[0] = v
      /\ \A j \in Chained : j # 0 => cbuf'[j] = cbuf[j]
  BY <1>1, <1>4 DEF SelectInv, SelectTypes, v
<1>6. SelectTypes'
  BY <1>1, <1>4, <1>5 DEF SelectInv, SelectTypes
<1>7. \A j \in Chained : Fits(j)'
  BY <1>1, <1>3, <1>4, <1>5 DEF SelectInv, Fits
<1> QED
  BY <1>1, <1>6, <1>7 DEF SelectInv, Found

LEMMA ChildReadSafe ==
  ASSUME SelectInv, NEW k \in Chained, Select!ChildRead(k)
  PROVE  SelectInv'
<1> USE SelectConstants
<1> DEFINE m == MinBuf * ChainLength  v == Select!First(m, toChild[k])  w == Select!Without(m, toChild[k])
<1>1. /\ cbuf' = [cbuf EXCEPT ![k] = v] /\ toChild' = [toChild EXCEPT ![k] = w]
      /\ UNCHANGED <<left, toParent, ccpc, buf, size, alive, cppc, inset, outset, turn, output>>
  BY DEF Select!ChildRead, Select!pipers, Select!loop
<1>2. toChild[k] \in Units /\ Len(toChild[k]) \in Nat /\ Len(toChild[k]) <= PipeCapacity
  BY LenUnits DEF SelectInv, SelectTypes, Fits
<1>3. /\ v \in Units /\ w \in Units /\ Len(v) <= m /\ Len(w) <= Len(toChild[k]) /\ Len(w) \in Nat
  <2>0. m \in Nat
    OBVIOUS
  <2> HIDE DEF m
  <2>1. /\ v \in Units /\ w \in Units /\ Len(v) = Select!Least(m, Len(toChild[k]))
        /\ Len(w) = Len(toChild[k]) - Select!Least(m, Len(toChild[k]))
    BY <1>2, <2>0, FirstWithout DEF Units
  <2> HIDE DEF v, w
  <2>2. /\ Select!Least(m, Len(toChild[k])) \in Nat /\ Select!Least(m, Len(toChild[k])) <= m
        /\ Select!Least(m, Len(toChild[k])) <= Len(toChild[k])
    <3> DEFINE l == Len(toChild[k])
    <3>1. l \in Nat
      BY <1>2
    <3> HIDE DEF l
    <3>2. Select!Least(m, l) \in Nat /\ Select!Least(m, l) <= m /\ Select!Least(m, l) <= l
      BY <2>0, <3>1, Lesser
    <3> QED
      BY <3>2 DEF l
  <2> QED
    BY <1>2, <2>1, <2>2
<1> HIDE DEF v, w
<1>4. /\ cbuf' \in [Chained -> Units] /\ toChild' \in [Chained -> Units]
      /\ cbuf'[k] = v /\ toChild'[k] = w
      /\ \A j \in Chained : j # k => cbuf'[j] = cbuf[j] /\ toChild'[j] = toChild[j]
  BY <1>1, <1>3 DEF SelectInv, SelectTypes
<1>5. SelectTypes'
  BY <1>1, <1>4 DEF SelectInv, SelectTypes
<1>6. \A j \in Chained : Fits(j)'
  BY <1>1, <1>2, <1>3, <1>4 DEF SelectInv, Fits
<1>7. \A j \in Chained : Len(toChild[j]) \in Nat /\ Len(toChild'[j]) \in Nat /\ Len(toChild'[j]) <= Len(toChild[j])
  <2>1. \A j \in Chained : Len(toChild[j]) \in Nat
    BY LenUnits DEF SelectInv, SelectTypes
  <2> QED
    BY <1>2, <1>3, <1>4, <2>1
<1>8. \A j \in Chained : Found(j) => Found(j)'
  <2>1. ASSUME NEW j \in Chained, Found(j) PROVE Found(j)'
    <3>1. j = ChainLength - 1 \/ j + 1 \in Chained
      OBVIOUS
    <3> QED
      BY <1>1, <1>7, <2>1, <3>1 DEF Found
  <2> QED
    BY <2>1
<1> QED
  BY <1>1, <1>5, <1>6, <1>8 DEF SelectInv

LEMMA ChildWriteSafe ==
  ASSUME SelectInv, NEW k \in Chained, Select!ChildWrite(k)
  PROVE  SelectInv'
<1> USE SelectConstants
<1> DEFINE v == Append(toParent[k], Head(cbuf[k]))  w == Tail(cbuf[k])
<1>1. /\ toParent' = [toParent EXCEPT ![k] = v] /\ cbuf' = [cbuf EXCEPT ![k] = w]
      /\ cbuf[k] # <<>> /\ Len(toParent[k]) < PipeCapacity
      /\ UNCHANGED <<left, toChild, ccpc, buf, size, alive, cppc, inset, outset, turn, output>>
  BY DEF Select!ChildWrite, Select!pipers, Select!loop
<1>2. /\ toParent[k] \in Units /\ cbuf[k] \in Units
      /\ Len(toParent[k]) \in Nat /\ Len(cbuf[k]) \in Nat /\ Len(cbuf[k]) <= MinBuf * ChainLength
  BY LenUnits DEF SelectInv, SelectTypes, Fits
<1>3. /\ v \in Units /\ w \in Units /\ Len(v) = Len(toParent[k]) + 1 /\ Len(w) = Len(cbuf[k]) - 1
      /\ v # <<>>
  <2>1. Head(cbuf[k]) \in 1 .. FileLength /\ w \in Units /\ Len(w) = Len(cbuf[k]) - 1
    BY <1>1, <1>2, TailElements DEF Units
  <2> DEFINE e == Head(cbuf[k])
  <2> HIDE DEF e
  <2>2. Append(toParent[k], e) \in Units /\ Len(Append(toParent[k], e)) = Len(toParent[k]) + 1
    BY <1>2, <2>1, AppendElements DEF Units, e
  <2>3. v \in Units /\ Len(v) = Len(toParent[k]) + 1
    BY <2>2 DEF e
  <2> HIDE DEF v, w
  <2> QED
    BY <1>2, <2>1, <2>3, EmptySeq
<1> HIDE DEF v, w
<1>4. /\ cbuf' \in [Chained -> Units] /\ toParent' \in [Chained -> Units]
      /\ cbuf'[k] = w /\ toParent'[k] = v
      /\ \A j \in Chained : j # k => cbuf'[j] = cbuf[j] /\ toParent'[j] = toParent[j]
  BY <1>1, <1>3 DEF SelectInv, SelectTypes
<1>5. SelectTypes'
  BY <1>1, <1>4 DEF SelectInv, SelectTypes
<1>6. \A j \in Chained : Fits(j)'
  BY <1>1, <1>2, <1>3, <1>4 DEF SelectInv, Fits
<1>7. \A j \in Chained : toParent[j] # <<>> => toParent'[j] # <<>>
  BY <1>3, <1>4
<1>8. \A j \in Chained : Found(j) => Found(j)'
  BY <1>1, <1>7 DEF Found
<1> QED
  BY <1>1, <1>5, <1>6, <1>8 DEF SelectInv

\* A child ends, or is killed.
LEMMA ChildOutSafe ==
  ASSUME SelectInv, NEW k \in Chained, NEW x \in {"ended", "killed"},
         ccpc' = [ccpc EXCEPT ![k] = x],
         UNCHANGED <<left, toChild, toParent, cbuf, buf, size, alive, cppc, inset, outset, turn, output>>
  PROVE  SelectInv'
<1> USE SelectConstants
<1>1. /\ ccpc' \in [Chained -> {"run", "ended", "killed"}]
      /\ \A j \in Chained : ccpc[j] # "run" => ccpc'[j] # "run"
  BY DEF SelectInv, SelectTypes
<1>2. SelectTypes'
  BY <1>1 DEF SelectInv, SelectTypes
<1>3. \A j \in Chained : Fits(j)'
  BY DEF SelectInv, Fits
<1>4. \A j \in Chained : Found(j) => Found(j)'
  <2>1. ASSUME NEW j \in Chained, Found(j) PROVE Found(j)'
    <3>1. j = ChainLength - 1 \/ j + 1 \in Chained
      OBVIOUS
    <3> QED
      BY <1>1, <2>1, <3>1 DEF Found
  <2> QED
    BY <2>1
<1> QED
  BY <1>2, <1>3, <1>4 DEF SelectInv

LEMMA SelectSafe ==
  ASSUME SelectInv, Select!Select
  PROVE  SelectInv'
<1> USE SelectConstants
<1>1. /\ inset' = {j \in Chained : alive[j] /\ size[j] = 0 /\ Select!Readable(j)}
      /\ outset' = {j \in Chained : alive[j] /\ size[j] # 0 /\ Select!Writable(j)}
      /\ cppc' = "serve" /\ turn' = 0
      /\ UNCHANGED <<left, toChild, toParent, cbuf, ccpc, buf, size, alive, output>>
  BY DEF Select!Select, Select!pipes, Select!pipers, Select!childVars
<1>2. SelectTypes'
  BY <1>1 DEF SelectInv, SelectTypes
<1>3. \A j \in Chained : Fits(j)'
  BY <1>1 DEF SelectInv, Fits
<1>4. \A j \in Chained : Found(j)'
  BY <1>1 DEF Found, Select!Readable, Select!Writable
<1> QED
  BY <1>2, <1>3, <1>4 DEF SelectInv

LEMMA SkipSafe ==
  ASSUME SelectInv, Select!Skip
  PROVE  SelectInv'
<1> USE SelectConstants
<1>1. /\ turn < ChainLength /\ turn' = turn + 1
      /\ UNCHANGED <<left, toChild, toParent, cbuf, ccpc, buf, size, alive, cppc, inset, outset, output>>
  BY DEF Select!Skip, Select!NextTurn, Select!pipes, Select!pipers, Select!childVars
<1>2. SelectTypes' /\ turn \in Nat
  BY <1>1 DEF SelectInv, SelectTypes
<1>3. \A j \in Chained : Fits(j)'
  BY <1>1 DEF SelectInv, Fits
<1>4. \A j \in Chained : j >= turn + 1 => j >= turn
  BY <1>2
<1>5. \A j \in Chained : Found(j) => Found(j)'
  BY <1>1 DEF Found
<1> QED
  BY <1>1, <1>2, <1>3, <1>4, <1>5 DEF SelectInv

LEMMA ParentMoveSafe ==
  ASSUME SelectInv, NEW x \in {"select", "wait", "ended", "killed"}, cppc' = x,
         UNCHANGED <<left, toChild, toParent, cbuf, ccpc, buf, size, alive, inset, outset, turn, output>>
  PROVE  SelectInv'
<1>1. SelectTypes' /\ cppc' # "serve"
  BY DEF SelectInv, SelectTypes
<1>2. \A j \in Chained : Fits(j)'
  BY DEF SelectInv, Fits
<1> QED
  BY <1>1, <1>2 DEF SelectInv

\* The piper whose turn it is, in its order.
LEMMA TurnIs ==
  ASSUME SelectInv, cppc = "serve", turn \in inset \cup outset
  PROVE  turn \in Chained /\ Found(turn) /\ turn + 1 \in 0 .. ChainLength
<1>1. turn \in Chained
  BY DEF SelectInv, SelectTypes
<1>2. turn >= turn /\ turn + 1 \in 0 .. ChainLength
  BY <1>1, SelectConstants
<1> QED
  BY <1>1, <1>2 DEF SelectInv

LEMMA FillSafe ==
  ASSUME SelectInv, Select!Fill
  PROVE  SelectInv'
<1> USE SelectConstants
<1> DEFINE k == turn  m == MinBuf * (ChainLength - turn)
           v == Select!First(m, toParent[k])  w == Select!Without(Len(v), toParent[k])
<1>1. /\ cppc = "serve" /\ k \in inset
      /\ buf' = [buf EXCEPT ![k] = v] /\ size' = [size EXCEPT ![k] = Len(v)]
      /\ toParent' = [toParent EXCEPT ![k] = w] /\ turn' = turn + 1
      /\ UNCHANGED <<left, toChild, cbuf, ccpc, alive, cppc, inset, outset, output>>
  BY DEF Select!Fill, Select!childVars, Select!NextTurn
<1>2. k \in Chained /\ turn + 1 \in 0 .. ChainLength
  BY <1>1, TurnIs
<1>3. /\ toParent[k] \in Units /\ Len(toParent[k]) \in Nat /\ Len(toParent[k]) <= PipeCapacity
      /\ m \in Nat
  BY <1>2, LenUnits DEF SelectInv, SelectTypes, Fits
<1> HIDE DEF m
<1>4. /\ v \in Units /\ Len(v) \in Nat /\ Len(v) <= m /\ Len(v) <= Len(toParent[k])
  <2> DEFINE l == Len(toParent[k])
  <2>1. v \in Units /\ Len(v) = Select!Least(m, l)
    BY <1>3, FirstWithout DEF Units
  <2>2. l \in Nat
    BY <1>3
  <2> HIDE DEF l, v
  <2>3. Select!Least(m, l) \in Nat /\ Select!Least(m, l) <= m /\ Select!Least(m, l) <= l
    BY <1>3, <2>2, Lesser
  <2> QED
    BY <2>1, <2>3 DEF l
<1> HIDE DEF v
<1>5. w \in Units /\ Len(w) \in Nat /\ Len(w) <= Len(toParent[k])
  <2>1. w \in Units /\ Len(w) = Len(toParent[k]) - Select!Least(Len(v), Len(toParent[k]))
    BY <1>3, <1>4, FirstWithout DEF Units
  <2>2. Select!Least(Len(v), Len(toParent[k])) = Len(v)
    BY <1>4 DEF Select!Least
  <2> HIDE DEF w
  <2> QED
    BY <1>3, <1>4, <2>1, <2>2
<1> HIDE DEF w
<1>6. /\ buf' \in [Chained -> Units] /\ toParent' \in [Chained -> Units] /\ size' \in [Chained -> Nat]
      /\ buf'[k] = v /\ toParent'[k] = w /\ size'[k] = Len(v)
      /\ \A j \in Chained : j # k => buf'[j] = buf[j] /\ toParent'[j] = toParent[j] /\ size'[j] = size[j]
  BY <1>1, <1>2, <1>4, <1>5 DEF SelectInv, SelectTypes
<1>7. SelectTypes'
  BY <1>1, <1>2, <1>6 DEF SelectInv, SelectTypes
<1>8. \A j \in Chained : Fits(j)'
  <2>1. ASSUME NEW j \in Chained PROVE Fits(j)'
    <3>1. Fits(j) /\ (j = k \/ j # k)
      BY DEF SelectInv
    <3>2. CASE j = k
      <4>1. /\ Len(v) <= MinBuf * (ChainLength - k) /\ Len(v) <= PipeCapacity
            /\ Len(w) <= PipeCapacity
        <5>1. Len(v) <= PipeCapacity /\ Len(w) <= PipeCapacity
          BY <1>3, <1>4, <1>5
        <5> QED
          BY <1>4, <5>1 DEF m
      <4> QED
        BY <1>1, <1>4, <1>6, <3>1, <3>2, <4>1 DEF Fits
    <3>3. CASE j # k
      BY <1>1, <1>6, <3>1, <3>3 DEF Fits
    <3> QED
      BY <3>1, <3>2, <3>3
  <2> QED
    BY <2>1
<1>9. \A j \in Chained : j >= turn + 1 => Found(j)'
  <2>1. ASSUME NEW j \in Chained, j >= turn + 1 PROVE Found(j)'
    <3>1. j # k /\ j >= turn
      BY <1>2, <2>1
    <3>2. Found(j)
      BY <1>1, <3>1 DEF SelectInv
    <3> QED
      BY <1>1, <1>6, <3>1, <3>2 DEF Found
  <2> QED
    BY <2>1
<1> QED
  BY <1>1, <1>7, <1>8, <1>9 DEF SelectInv

LEMMA EndPiperSafe ==
  ASSUME SelectInv, Select!EndPiper
  PROVE  SelectInv'
<1> USE SelectConstants
<1> DEFINE k == turn
<1>1. /\ cppc = "serve" /\ k \in inset
      /\ alive' = [alive EXCEPT ![k] = FALSE] /\ size' = [size EXCEPT ![k] = 0]
      /\ turn' = turn + 1
      /\ UNCHANGED <<left, toChild, toParent, buf, cbuf, ccpc, cppc, inset, outset, output>>
  BY DEF Select!EndPiper, Select!childVars, Select!NextTurn, Select!pipes
<1>2. k \in Chained /\ turn + 1 \in 0 .. ChainLength
  BY <1>1, TurnIs
<1>3. /\ alive' \in [Chained -> BOOLEAN] /\ size' \in [Chained -> Nat] /\ size'[k] = 0
      /\ \A j \in Chained : j # k => alive'[j] = alive[j] /\ size'[j] = size[j]
  BY <1>1, <1>2 DEF SelectInv, SelectTypes
<1>4. SelectTypes'
  BY <1>1, <1>2, <1>3 DEF SelectInv, SelectTypes
<1>5. \A j \in Chained : Fits(j)'
  <2>1. \A j \in Chained : Len(buf[j]) \in Nat
    BY LenUnits DEF SelectInv, SelectTypes
  <2> QED
    BY <1>1, <1>3, <2>1 DEF SelectInv, Fits
<1>6. \A j \in Chained : j >= turn + 1 => Found(j)'
  <2>1. ASSUME NEW j \in Chained, j >= turn + 1 PROVE Found(j)'
    <3>1. j # k /\ j >= turn
      BY <1>2, <2>1
    <3>2. Found(j)
      BY <1>1, <3>1 DEF SelectInv
    <3> QED
      BY <1>1, <1>3, <3>1, <3>2 DEF Found
  <2> QED
    BY <2>1
<1> QED
  BY <1>1, <1>4, <1>5, <1>6 DEF SelectInv

\* What a write of the parent takes fits into the pipe; it stops half way only after
\* PIPE_BUF units.
LEMMA AmountIs ==
  ASSUME SelectInv, cppc = "serve", turn \in outset \ inset,
         turn < ChainLength - 1 => ccpc[turn + 1] = "run"
  PROVE  /\ Select!Amount(turn) \in Nat /\ Select!Amount(turn) <= size[turn] /\ size[turn] > 0
         /\ turn = ChainLength - 1 => Select!Amount(turn) = size[turn]
         /\ turn # ChainLength - 1 =>
                /\ turn + 1 \in Chained
                /\ Len(toChild[turn + 1]) + Select!Amount(turn) <= PipeCapacity
         /\ Select!Amount(turn) < size[turn] => Select!Amount(turn) >= PipeBuf
         /\ size[turn] <= Len(buf[turn])
<1> USE SelectConstants
<1>1. turn \in Chained /\ Found(turn)
  BY TurnIs
<1>2. size[turn] \in Nat /\ size[turn] > 0 /\ size[turn] <= Len(buf[turn])
  <2>1. size[turn] \in Nat
    BY <1>1 DEF SelectInv, SelectTypes
  <2>2. size[turn] # 0
    BY <1>1 DEF Found
  <2>3. size[turn] <= Len(buf[turn])
    BY <1>1 DEF SelectInv, Fits
  <2> QED
    BY <2>1, <2>2, <2>3
<1>3. CASE turn = ChainLength - 1
  <2>1. Select!Amount(turn) = size[turn]
    BY <1>3 DEF Select!Amount
  <2> QED
    BY <1>2, <1>3, <2>1
<1>4. CASE turn # ChainLength - 1
  <2> DEFINE room == PipeCapacity - Len(toChild[turn + 1])
  <2>1. turn + 1 \in Chained /\ turn < ChainLength - 1
    BY <1>1, <1>4
  <2>2. /\ Len(toChild[turn + 1]) \in Nat /\ room \in Nat /\ room >= PipeBuf
        /\ Len(toChild[turn + 1]) + room = PipeCapacity
    <3>1. Len(toChild[turn + 1]) \in Nat /\ Len(toChild[turn + 1]) <= PipeCapacity
      BY <2>1, LenUnits DEF SelectInv, SelectTypes, Fits
    <3>2. PipeCapacity - Len(toChild[turn + 1]) >= PipeBuf
      BY <1>1, <1>4, <2>1 DEF Found
    <3> QED
      BY <3>1, <3>2
  <2>3. Select!Amount(turn) = IF size[turn] <= PipeBuf THEN size[turn] ELSE Select!Least(size[turn], room)
    BY <1>4 DEF Select!Amount
  <2> HIDE DEF room
  <2>4. /\ Select!Amount(turn) \in Nat /\ Select!Amount(turn) <= size[turn] /\ Select!Amount(turn) <= room
        /\ Select!Amount(turn) < size[turn] => Select!Amount(turn) >= PipeBuf
    BY <1>2, <2>2, <2>3 DEF Select!Least
  <2> QED
    BY <1>2, <1>4, <2>1, <2>2, <2>4
<1> QED
  BY <1>3, <1>4

LEMMA DrainSafe ==
  ASSUME SelectInv, Select!Drain
  PROVE  SelectInv'
<1> USE SelectConstants
<1> DEFINE k == turn  n == Select!Amount(turn)  d == Select!First(n, buf[k])
           b == IF n # size[k] - n THEN Select!Without(n, buf[k]) ELSE buf[k]
<1>1. /\ cppc = "serve" /\ turn \in outset \ inset /\ (turn < ChainLength - 1 => ccpc[turn + 1] = "run")
      /\ IF turn = ChainLength - 1 THEN output' = output \o d /\ toChild' = toChild
         ELSE toChild' = [toChild EXCEPT ![turn + 1] = @ \o d] /\ output' = output
      /\ size' = [size EXCEPT ![k] = size[k] - n] /\ buf' = [buf EXCEPT ![k] = b]
      /\ turn' = turn + 1
      /\ UNCHANGED <<left, toParent, alive, cbuf, ccpc, cppc, inset, outset>>
  BY DEF Select!Drain, Select!childVars, Select!NextTurn
<1>2. k \in Chained /\ turn + 1 \in 0 .. ChainLength /\ turn \in Nat
  BY <1>1, TurnIs
<1>3. /\ n \in Nat /\ n <= size[turn] /\ size[turn] \in Nat
      /\ turn # ChainLength - 1 => /\ turn + 1 \in Chained /\ Len(toChild[turn + 1]) + n <= PipeCapacity
      /\ size[turn] <= Len(buf[turn])
  BY <1>1, <1>2, AmountIs DEF SelectInv, SelectTypes
<1>4. buf[k] \in Units /\ Len(buf[k]) \in Nat
  BY <1>2, LenUnits DEF SelectInv, SelectTypes
<1> HIDE DEF n
<1>5. /\ d \in Units /\ Len(d) = n /\ b \in Units /\ Len(b) <= Len(buf[k]) /\ size[k] - n <= Len(b)
      /\ Len(b) \in Nat
  <2>1. n <= Len(buf[k])
    BY <1>3, <1>4
  <2>2. Select!Least(n, Len(buf[k])) = n
    BY <1>3, <1>4, <2>1 DEF Select!Least
  <2>3. /\ d \in Units /\ Len(d) = Select!Least(n, Len(buf[k])) /\ Select!Without(n, buf[k]) \in Units
        /\ Len(Select!Without(n, buf[k])) = Len(buf[k]) - Select!Least(n, Len(buf[k]))
    BY <1>3, <1>4, FirstWithout DEF Units
  <2>4. b \in Units /\ (Len(b) = Len(buf[k]) - n \/ Len(b) = Len(buf[k]))
    BY <1>4, <2>2, <2>3
  <2> HIDE DEF b, d
  <2> QED
    BY <1>3, <1>4, <2>1, <2>2, <2>3, <2>4
<1> HIDE DEF d, b
<1>6. /\ buf' \in [Chained -> Units] /\ size' \in [Chained -> Nat]
      /\ buf'[k] = b /\ size'[k] = size[k] - n
      /\ \A j \in Chained : j # k => buf'[j] = buf[j] /\ size'[j] = size[j]
  <2>1. size[k] - n \in Nat
    BY <1>3
  <2> QED
    BY <1>1, <1>2, <1>5, <2>1 DEF SelectInv, SelectTypes
<1>7. /\ output' \in Units /\ toChild' \in [Chained -> Units]
      /\ \A j \in Chained : j # turn + 1 => toChild'[j] = toChild[j]
      /\ turn # ChainLength - 1 => Len(toChild'[turn + 1]) <= PipeCapacity
  <2>1. output \in Units /\ toChild \in [Chained -> Units]
    BY DEF SelectInv, SelectTypes
  <2>2. CASE turn = ChainLength - 1
    <3>1. output \o d \in Units
      BY <1>5, <2>1, ConcatProperties DEF Units
    <3> QED
      BY <1>1, <2>1, <2>2, <3>1
  <2>3. CASE turn # ChainLength - 1
    <3> DEFINE t == toChild[turn + 1]  u == t \o d
    <3>1. t \in Units /\ turn + 1 \in Chained
      BY <1>3, <2>1, <2>3
    <3>2. u \in Units /\ Len(u) = Len(t) + Len(d)
      BY <1>5, <3>1, ConcatProperties DEF Units
    <3>3. toChild' = [toChild EXCEPT ![turn + 1] = u] /\ output' = output
      BY <1>1, <2>3
    <3> HIDE DEF u
    <3>4. /\ toChild' \in [Chained -> Units] /\ toChild'[turn + 1] = u
          /\ \A j \in Chained : j # turn + 1 => toChild'[j] = toChild[j]
      BY <2>1, <3>1, <3>2, <3>3
    <3> QED
      BY <1>3, <1>5, <2>1, <2>3, <3>2, <3>3, <3>4
  <2> QED
    BY <2>2, <2>3
<1>8. SelectTypes'
  BY <1>1, <1>2, <1>6, <1>7 DEF SelectInv, SelectTypes
<1>9. \A j \in Chained : Fits(j)'
  <2>1. ASSUME NEW j \in Chained PROVE Fits(j)'
    <3>1. Len(toChild'[j]) <= PipeCapacity
      <4>1. CASE j = turn + 1
        <5>1. turn # ChainLength - 1
          BY <1>2, <4>1
        <5> QED
          BY <1>7, <4>1, <5>1
      <4>2. CASE j # turn + 1
        BY <1>7, <4>2 DEF SelectInv, Fits
      <4> QED
        BY <4>1, <4>2
    <3>2. Fits(j) /\ (j = k \/ j # k)
      BY DEF SelectInv
    <3>3. CASE j = k
      <4>1. Len(b) <= MinBuf * (ChainLength - k) /\ Len(b) <= PipeCapacity
        BY <1>2, <1>4, <1>5, <3>2, <3>3 DEF Fits
      <4> QED
        BY <1>1, <1>5, <1>6, <3>1, <3>2, <3>3, <4>1 DEF Fits
    <3>4. CASE j # k
      BY <1>1, <1>6, <3>1, <3>2, <3>4 DEF Fits
    <3> QED
      BY <3>3, <3>4
  <2> QED
    BY <2>1
<1>10. \A j \in Chained : j >= turn + 1 => Found(j)'
  <2>1. ASSUME NEW j \in Chained, j >= turn + 1 PROVE Found(j)'
    <3>1. j # k /\ j >= turn /\ (j = ChainLength - 1 \/ (j + 1 \in Chained /\ j + 1 # turn + 1))
      BY <1>2, <2>1
    <3>2. Found(j)
      BY <1>1, <3>1 DEF SelectInv
    <3> QED
      BY <1>1, <1>6, <1>7, <3>1, <3>2 DEF Found
  <2> QED
    BY <2>1
<1> QED
  BY <1>1, <1>8, <1>9, <1>10 DEF SelectInv

LEMMA SelectInit == Select!Init => SelectInv
<1> SUFFICES ASSUME Select!Init PROVE SelectInv
  OBVIOUS
<1> USE SelectConstants
<1>1. <<>> \in Units /\ Len(<<>>) = 0
  BY EmptySeq DEF Units
<1>2. SelectTypes
  BY <1>1 DEF Select!Init, SelectTypes
<1>3. \A k \in Chained : Fits(k)
  <2>1. ASSUME NEW k \in Chained PROVE Fits(k)
    <3>1. /\ toChild[k] = <<>> /\ toParent[k] = <<>> /\ cbuf[k] = <<>> /\ buf[k] = <<>> /\ size[k] = 0
      BY DEF Select!Init
    <3>2. /\ MinBuf * ChainLength \in Nat /\ MinBuf * (ChainLength - k) \in Nat
      OBVIOUS
    <3> QED
      BY <1>1, <3>1, <3>2 DEF Fits
  <2> QED
    BY <2>1
<1>4. cppc = "select"
  BY DEF Select!Init
<1> QED
  BY <1>2, <1>3, <1>4 DEF SelectInv

LEMMA SelectStep ==
  ASSUME SelectInv, Select!Next
  PROVE  SelectInv'
<1>1. CASE Select!Parent
  <2>1. CASE Select!ParentSigpipe \/ Select!EndOfLoop \/ Select!WaitAll
    <3>1. /\ cppc' \in {"select", "wait", "ended", "killed"}
          /\ UNCHANGED <<left, toChild, toParent, cbuf, ccpc, buf, size, alive, inset, outset, turn, output>>
      BY <2>1 DEF Select!ParentSigpipe, Select!EndOfLoop, Select!WaitAll, Select!childVars,
                  Select!pipes, Select!pipers
    <3> QED
      BY <3>1, ParentMoveSafe
  <2> QED
    BY <1>1, <2>1, SelectSafe, SkipSafe, FillSafe, EndPiperSafe, DrainSafe DEF Select!Parent
<1>2. ASSUME NEW k \in Select!Child, Select!RunChild(k) PROVE SelectInv'
  <2>0. k \in Chained
    BY SelectConstants
  <2>1. CASE Select!ChildSigpipe(k) \/ Select!ChildEnd(k)
    <3>1. /\ ccpc' = [ccpc EXCEPT ![k] = "ended"]
          /\ UNCHANGED <<left, toChild, toParent, cbuf, buf, size, alive, cppc, inset, outset, turn, output>>
      BY <2>1 DEF Select!ChildSigpipe, Select!ChildEnd, Select!pipes, Select!pipers, Select!loop
    <3> QED
      BY <2>0, <3>1, ChildOutSafe
  <2> QED
    BY <1>2, <2>0, <2>1, ReadFileSafe, ChildReadSafe, ChildWriteSafe DEF Select!RunChild
<1>3. ASSUME NEW k \in Select!Child, Select!Kill(k) PROVE SelectInv'
  <2>1. /\ ccpc' = [ccpc EXCEPT ![k] = "killed"]
        /\ UNCHANGED <<left, toChild, toParent, cbuf, buf, size, alive, cppc, inset, outset, turn, output>>
    BY <1>3 DEF Select!Kill, Select!pipes, Select!pipers, Select!loop
  <2> QED
    BY <2>1, SelectConstants, ChildOutSafe
<1> QED
  BY <1>1, <1>2, <1>3 DEF Select!Next, Select!Step

LEMMA SelectStutter == SelectInv /\ UNCHANGED selectVars => SelectInv'
BY DEF selectVars, SelectInv, SelectTypes, Fits, Found

LEMMA SelectTypeOK == SelectInv => Select!TypeOK
<1> SUFFICES ASSUME SelectInv PROVE Select!TypeOK
  OBVIOUS
<1>1. \A k \in Chained : size[k] \in 0 .. Len(buf[k])
  <2>1. \A k \in Chained : size[k] \in Nat /\ Len(buf[k]) \in Nat /\ size[k] <= Len(buf[k])
    BY LenUnits DEF SelectInv, SelectTypes, Fits
  <2> QED
    BY <2>1
<1> QED
  BY <1>1, SelectConstants DEF SelectInv, SelectTypes, Fits, Select!TypeOK, Select!Data, Units

-----------------------------------------------------------------------------
(* select: where every unit of the file is. *)

\* Units up to e have reached the pipe to child k, up to d the child, up to c its other
\* pipe, up to b the parent's buffer, and up to a what follows.
Carried(k, a, b, c, d, e) ==
    /\ a <= b /\ b <= c /\ c <= d /\ d <= e /\ e <= FileLength
    /\ size[k] + a = b /\ \A x \in 1 .. b - a : buf[k][x] = a + x
    /\ toParent[k] = Span(b, c) /\ cbuf[k] = Span(c, d) /\ toChild[k] = Span(d, e)

Flow(h, p, q, r) ==
    /\ h[0] = left /\ output = Span(0, h[ChainLength])
    /\ \A k \in Chained : Carried(k, h[k + 1], p[k], q[k], r[k], h[k])

Flowing ==
    /\ \E h \in [0 .. ChainLength -> Nat], p, q, r \in [Chained -> Nat] : Flow(h, p, q, r)
    /\ toChild[0] = <<>>
    /\ cppc \in {"wait", "ended"} => \A k \in Chained : ~alive[k]

\* Without a signal, a piper dies after its child and a child after the piper before it,
\* and nothing is left in them.
InOrder(k) ==
    /\ ccpc[k] # "killed"
    /\ ~alive[k] => ccpc[k] = "ended" /\ toParent[k] = <<>> /\ size[k] = 0
    /\ ccpc[k] = "ended" => /\ cbuf[k] = <<>>
                            /\ k = 0 => left = FileLength
                            /\ k # 0 => toChild[k] = <<>> /\ ~alive[k - 1]

Orderly == /\ ckills \in Nat
           /\ ckills = 0 /\ cppc # "killed" => \A k \in Chained : InOrder(k)

\* The parent is about to write exactly half of what a buffer holds: effective_size is
\* compared when it has been reduced, and what was written stays in the buffer.
WritesHalf ==
    /\ cppc = "serve" /\ turn \in outset \ inset
    /\ turn < ChainLength - 1 => ccpc[turn + 1] = "run"
    /\ 2 * Select!Amount(turn) = size[turn]

RelayInv == SelectInv /\ Flowing /\ Orderly

LEMMA ChainConstants ==
  /\ ChainLength \in Nat /\ ChainLength > 0 /\ FileLength \in Nat
  /\ Chained = 0 .. ChainLength - 1
BY SelectConstants

\* A flow that stands still.
LEMMA NoneMoves ==
  ASSUME NEW h, NEW p, NEW q, NEW r, Flow(h, p, q, r),
         UNCHANGED <<left, output, buf, toParent, cbuf, toChild>>,
         \A j \in Chained : size'[j] = size[j]
  PROVE  Flow(h, p, q, r)'
BY DEF Flow, Carried

LEMMA FlowTypes ==
  ASSUME NEW h \in [0 .. ChainLength -> Nat], NEW p \in [Chained -> Nat],
         NEW q \in [Chained -> Nat], NEW r \in [Chained -> Nat], Flow(h, p, q, r),
         NEW k \in Chained
  PROVE  /\ Carried(k, h[k + 1], p[k], q[k], r[k], h[k])
         /\ h[k] \in Nat /\ h[k + 1] \in Nat /\ p[k] \in Nat /\ q[k] \in Nat /\ r[k] \in Nat
         /\ k \in 0 .. ChainLength /\ k + 1 \in 0 .. ChainLength /\ FileLength \in Nat
<1>1. k \in 0 .. ChainLength /\ k + 1 \in 0 .. ChainLength /\ FileLength \in Nat
  BY SelectConstants
<1> QED
  BY <1>1 DEF Flow

LEMMA StillFlowing ==
  ASSUME Flowing, UNCHANGED <<left, output, buf, toParent, cbuf, toChild, alive>>,
         \A j \in Chained : size'[j] = size[j],
         cppc' = cppc \/ cppc' \notin {"wait", "ended"} \/ \A k \in Chained : ~alive[k]
  PROVE  Flowing'
<1>1. PICK h \in [0 .. ChainLength -> Nat], p, q, r \in [Chained -> Nat] : Flow(h, p, q, r)
  BY DEF Flowing
<1>2. Flow(h, p, q, r)'
  BY <1>1, NoneMoves
<1> QED
  BY <1>2 DEF Flowing

LEMMA ReadFileFlows ==
  ASSUME RelayInv, Select!ReadFile
  PROVE  Flowing' /\ Orderly'
<1> USE ChainConstants
<1> DEFINE n == Select!Least(MinBuf * ChainLength, FileLength - left)
<1>1. left \in Nat /\ left <= FileLength /\ FileLength - left \in Nat
  BY DEF RelayInv, SelectInv, SelectTypes
<1>2. n \in Nat /\ n <= FileLength - left
  BY <1>1, Lesser, SelectConstants
<1>3. /\ ccpc[0] = "run" /\ cbuf[0] = <<>>
      /\ cbuf' = [cbuf EXCEPT ![0] = Span(left, left + n)] /\ left' = left + n
      /\ UNCHANGED <<toChild, toParent, ccpc, buf, size, alive, cppc, output, ckills>>
  <2>1. (left + n) - left = n
    BY <1>1, <1>2
  <2>2. Span(left, left + n) = [x \in 1 .. n |-> left + x]
    BY <2>1 DEF Span
  <2> QED
    BY <2>2 DEF Select!ReadFile, Select!pipes, Select!pipers, Select!loop
<1> HIDE DEF n
<1>4. PICK h \in [0 .. ChainLength -> Nat], p, q, r \in [Chained -> Nat] : Flow(h, p, q, r)
  BY DEF RelayInv, Flowing
<1>5. 0 \in Chained
  OBVIOUS
<1>6. /\ Carried(0, h[0 + 1], p[0], q[0], r[0], h[0])
      /\ h[0] \in Nat /\ h[0 + 1] \in Nat /\ p[0] \in Nat /\ q[0] \in Nat /\ r[0] \in Nat
      /\ 0 \in 0 .. ChainLength /\ 0 + 1 \in 0 .. ChainLength /\ FileLength \in Nat
  BY <1>4, <1>5, FlowTypes
<1>7. q[0] = left /\ r[0] = left /\ h[0] = left
  <2>1. h[0] = left /\ toChild[0] = Span(r[0], h[0]) /\ cbuf[0] = Span(q[0], r[0])
    BY <1>4, <1>6 DEF Flow, Carried
  <2>2. r[0] <= h[0] /\ h[0] <= FileLength /\ q[0] <= r[0] /\ r[0] <= FileLength
    BY <1>6 DEF Carried
  <2>3. r[0] = h[0]
    BY <1>6, <2>1, <2>2, SpanEmpty DEF RelayInv, Flowing
  <2>4. q[0] = r[0]
    BY <1>3, <1>6, <2>1, <2>2, SpanEmpty
  <2> QED
    BY <2>1, <2>3, <2>4
<1>8. PICK g \in [0 .. ChainLength -> Nat], w \in [Chained -> Nat] :
          /\ g[0] = left + n /\ w[0] = left + n
          /\ \A j \in 0 .. ChainLength : j # 0 => g[j] = h[j]
          /\ \A j \in Chained : j # 0 => w[j] = r[j]
  <2> DEFINE gg == [h EXCEPT ![0] = left + n]  ww == [r EXCEPT ![0] = left + n]
  <2>1. /\ gg \in [0 .. ChainLength -> Nat] /\ gg[0] = left + n
        /\ \A j \in 0 .. ChainLength : j # 0 => gg[j] = h[j]
    BY <1>1, <1>2, <1>6
  <2>2. /\ ww \in [Chained -> Nat] /\ ww[0] = left + n
        /\ \A j \in Chained : j # 0 => ww[j] = r[j]
    BY <1>1, <1>2, <1>5
  <2> HIDE DEF gg, ww
  <2> QED
    BY <2>1, <2>2
<1>9. /\ cbuf'[0] = Span(left, left + n)
      /\ \A j \in Chained : j # 0 => cbuf'[j] = cbuf[j]
  BY <1>3, <1>5 DEF RelayInv, SelectInv, SelectTypes
<1>10. ASSUME NEW j \in Chained PROVE Carried(j, g[j + 1], p[j], q[j], w[j], g[j])'
  <2>0. j + 1 \in 0 .. ChainLength /\ j + 1 # 0 /\ j \in 0 .. ChainLength
    OBVIOUS
  <2>1. CASE j = 0
    <3>3. left + n \in Nat /\ left <= left + n /\ left + n <= FileLength
      BY <1>1, <1>2
    <3>1. Span(left + n, left + n) = <<>>
      BY <3>3, SpanEmpty
    <3>2. toChild'[0] = <<>>
      BY <1>3 DEF RelayInv, Flowing
    <3>4. g[j + 1] = h[0 + 1] /\ q[j] = left /\ w[j] = left + n /\ g[j] = left + n
      BY <1>7, <1>8, <2>0, <2>1
    <3> QED
      BY <1>3, <1>6, <1>7, <1>9, <2>1, <3>1, <3>2, <3>3, <3>4 DEF Carried
  <2>2. CASE j # 0
    <3>1. Carried(j, h[j + 1], p[j], q[j], r[j], h[j])
      BY <1>4 DEF Flow
    <3> QED
      BY <1>3, <1>8, <1>9, <2>0, <2>2, <3>1 DEF Carried
  <2> QED
    BY <2>1, <2>2
<1>11. Flow(g, p, q, w)'
  <2>1. ChainLength \in 0 .. ChainLength /\ ChainLength # 0
    OBVIOUS
  <2>2. g[ChainLength] = h[ChainLength]
    BY <1>8, <2>1
  <2>3. output = Span(0, h[ChainLength])
    BY <1>4 DEF Flow
  <2> QED
    BY <1>3, <1>8, <1>10, <2>2, <2>3 DEF Flow
<1>12. Flowing'
  BY <1>3, <1>8, <1>11 DEF RelayInv, Flowing
<1>13. Orderly'
  <2>1. ASSUME NEW j \in Chained, InOrder(j) PROVE InOrder(j)'
    BY <1>3, <1>9, <2>1 DEF InOrder
  <2> QED
    BY <1>3, <2>1 DEF RelayInv, Orderly
<1> QED
  BY <1>12, <1>13

LEMMA ChildReadFlows ==
  ASSUME RelayInv, NEW k \in Chained, Select!ChildRead(k)
  PROVE  Flowing' /\ Orderly'
<1> USE ChainConstants
<1> DEFINE m == MinBuf * ChainLength
<1>1. /\ k > 0 /\ ccpc[k] = "run" /\ cbuf[k] = <<>>
      /\ cbuf' = [cbuf EXCEPT ![k] = Select!First(m, toChild[k])]
      /\ toChild' = [toChild EXCEPT ![k] = Select!Without(m, toChild[k])]
      /\ UNCHANGED <<left, toParent, ccpc, buf, size, alive, cppc, output, ckills>>
  BY DEF Select!ChildRead, Select!pipers, Select!loop
<1>2. m \in Nat
  BY SelectConstants
<1> HIDE DEF m
<1>3. PICK h \in [0 .. ChainLength -> Nat], p, q, r \in [Chained -> Nat] : Flow(h, p, q, r)
  BY DEF RelayInv, Flowing
<1>4. /\ Carried(k, h[k + 1], p[k], q[k], r[k], h[k])
      /\ h[k] \in Nat /\ h[k + 1] \in Nat /\ p[k] \in Nat /\ q[k] \in Nat /\ r[k] \in Nat
      /\ k \in 0 .. ChainLength /\ k + 1 \in 0 .. ChainLength /\ FileLength \in Nat
  BY <1>3, FlowTypes
<1>5. /\ r[k] <= h[k] /\ h[k] <= FileLength /\ q[k] <= r[k] /\ r[k] <= FileLength
      /\ cbuf[k] = Span(q[k], r[k]) /\ toChild[k] = Span(r[k], h[k])
  BY <1>4 DEF Carried
<1>6. q[k] = r[k]
  BY <1>1, <1>4, <1>5, SpanEmpty
<1>7. PICK l \in Nat : /\ r[k] + l <= h[k]
                      /\ Select!First(m, toChild[k]) = Span(r[k], r[k] + l)
                      /\ Select!Without(m, toChild[k]) = Span(r[k] + l, h[k])
  <2> DEFINE a == r[k]  b == h[k]
  <2>1. a \in Nat /\ b \in Nat /\ a <= b /\ b <= FileLength /\ FileLength \in Nat
    BY <1>4, <1>5
  <2> HIDE DEF a, b
  <2>2. LET d == Select!Least(m, b - a)
        IN /\ d \in Nat /\ a + d <= b
           /\ Select!First(m, Span(a, b)) = Span(a, a + d)
           /\ Select!Without(m, Span(a, b)) = Span(a + d, b)
    BY <1>2, <2>1, SpanSplit
  <2> QED
    BY <1>5, <2>2 DEF a, b
<1>8. PICK w \in [Chained -> Nat] : w[k] = r[k] + l /\ \A j \in Chained : j # k => w[j] = r[j]
  <2> DEFINE n == r[k] + l
  <2>0. r[k] \in Nat
    BY <1>4
  <2>1. n \in Nat
    BY <2>0
  <2> HIDE DEF n
  <2> DEFINE e == [r EXCEPT ![k] = n]
  <2>2. e \in [Chained -> Nat] /\ e[k] = n /\ \A j \in Chained : j # k => e[j] = r[j]
    BY <1>3, <2>1
  <2> HIDE DEF e
  <2> QED
    BY <2>2 DEF n
<1>9. /\ cbuf'[k] = Span(r[k], r[k] + l) /\ toChild'[k] = Span(r[k] + l, h[k])
      /\ \A j \in Chained : j # k => cbuf'[j] = cbuf[j] /\ toChild'[j] = toChild[j]
  BY <1>1, <1>7 DEF RelayInv, SelectInv, SelectTypes
<1>10. Carried(k, h[k + 1], p[k], q[k], w[k], h[k])'
  <2>1. r[k] <= r[k] + l
    BY <1>4, <1>7
  <2> QED
    BY <1>1, <1>4, <1>5, <1>6, <1>7, <1>8, <1>9, <2>1 DEF Carried
<1>11. Flow(h, p, q, w)'
  <2>1. ASSUME NEW j \in Chained PROVE Carried(j, h[j + 1], p[j], q[j], w[j], h[j])'
    <3>1. CASE j = k
      BY <1>10, <3>1
    <3>2. CASE j # k
      <4>1. Carried(j, h[j + 1], p[j], q[j], r[j], h[j])
        BY <1>3 DEF Flow
      <4> QED
        BY <1>1, <1>8, <1>9, <3>2, <4>1 DEF Carried
    <3> QED
      BY <3>1, <3>2
  <2> QED
    BY <1>1, <1>3, <2>1 DEF Flow
<1>12. Flowing'
  <2>1. 0 \in Chained /\ 0 # k
    BY <1>1
  <2> QED
    BY <1>1, <1>8, <1>9, <1>11, <2>1 DEF RelayInv, Flowing
<1>13. Orderly'
  <2>1. ASSUME NEW j \in Chained, InOrder(j) PROVE InOrder(j)'
    BY <1>1, <1>9, <2>1 DEF InOrder
  <2> QED
    BY <1>1, <2>1 DEF RelayInv, Orderly
<1> QED
  BY <1>12, <1>13

LEMMA ChildWriteFlows ==
  ASSUME RelayInv, NEW k \in Chained, Select!ChildWrite(k)
  PROVE  Flowing' /\ Orderly'
<1> USE ChainConstants
<1>1. /\ ccpc[k] = "run" /\ cbuf[k] # <<>> /\ alive[k]
      /\ toParent' = [toParent EXCEPT ![k] = Append(toParent[k], Head(cbuf[k]))]
      /\ cbuf' = [cbuf EXCEPT ![k] = Tail(cbuf[k])]
      /\ UNCHANGED <<left, toChild, ccpc, buf, size, alive, cppc, output, ckills>>
  BY DEF Select!ChildWrite, Select!HoldsDin, Select!pipers, Select!loop
<1>3. PICK h \in [0 .. ChainLength -> Nat], p, q, r \in [Chained -> Nat] : Flow(h, p, q, r)
  BY DEF RelayInv, Flowing
<1>4. /\ Carried(k, h[k + 1], p[k], q[k], r[k], h[k])
      /\ h[k] \in Nat /\ h[k + 1] \in Nat /\ p[k] \in Nat /\ q[k] \in Nat /\ r[k] \in Nat
      /\ k \in 0 .. ChainLength /\ k + 1 \in 0 .. ChainLength /\ FileLength \in Nat
  BY <1>3, FlowTypes
<1>5. /\ p[k] <= q[k] /\ q[k] <= r[k] /\ r[k] <= FileLength
      /\ cbuf[k] = Span(q[k], r[k]) /\ toParent[k] = Span(p[k], q[k])
  BY <1>4 DEF Carried
<1>6. q[k] + 1 <= r[k] /\ q[k] < r[k] /\ q[k] + 1 <= FileLength /\ p[k] <= q[k] + 1
  <2>1. q[k] # r[k]
    BY <1>1, <1>4, <1>5, SpanEmpty
  <2> DEFINE b == p[k]  c == q[k]  d == r[k]
  <2>2. /\ b \in Nat /\ c \in Nat /\ d \in Nat /\ FileLength \in Nat
        /\ b <= c /\ c <= d /\ d <= FileLength /\ c # d
    BY <1>4, <1>5, <2>1
  <2> HIDE DEF b, c, d
  <2>3. c + 1 <= d /\ c < d /\ c + 1 <= FileLength /\ b <= c + 1
    BY <2>2
  <2> QED
    BY <2>3 DEF b, c, d
<1>8. PICK v \in [Chained -> Nat] : v[k] = q[k] + 1 /\ \A j \in Chained : j # k => v[j] = q[j]
  <2> DEFINE n == q[k] + 1
  <2>1. n \in Nat
    BY <1>4
  <2> HIDE DEF n
  <2> DEFINE e == [q EXCEPT ![k] = n]
  <2>2. e \in [Chained -> Nat] /\ e[k] = n /\ \A j \in Chained : j # k => e[j] = q[j]
    BY <1>3, <2>1
  <2> HIDE DEF e
  <2> QED
    BY <2>2 DEF n
<1>9. /\ cbuf'[k] = Span(q[k] + 1, r[k]) /\ toParent'[k] = Span(p[k], q[k] + 1)
      /\ \A j \in Chained : j # k => cbuf'[j] = cbuf[j] /\ toParent'[j] = toParent[j]
  <2>1. Head(cbuf[k]) = q[k] + 1 /\ Tail(cbuf[k]) = Span(q[k] + 1, r[k])
    BY <1>4, <1>5, <1>6, SpanHead
  <2>2. Append(Span(p[k], q[k]), q[k] + 1) = Span(p[k], q[k] + 1)
    BY <1>4, <1>5, <1>6, SpanAppend
  <2> QED
    BY <1>1, <1>5, <2>1, <2>2 DEF RelayInv, SelectInv, SelectTypes
<1>10. Carried(k, h[k + 1], p[k], v[k], r[k], h[k])'
  BY <1>1, <1>4, <1>5, <1>6, <1>8, <1>9 DEF Carried
<1>11. Flow(h, p, v, r)'
  <2>1. ASSUME NEW j \in Chained PROVE Carried(j, h[j + 1], p[j], v[j], r[j], h[j])'
    <3>1. CASE j = k
      BY <1>10, <3>1
    <3>2. CASE j # k
      <4>1. Carried(j, h[j + 1], p[j], q[j], r[j], h[j])
        BY <1>3 DEF Flow
      <4> QED
        BY <1>1, <1>8, <1>9, <3>2, <4>1 DEF Carried
    <3> QED
      BY <3>1, <3>2
  <2> QED
    BY <1>1, <1>3, <2>1 DEF Flow
<1>12. Flowing'
  BY <1>1, <1>8, <1>11 DEF RelayInv, Flowing
<1>13. Orderly'
  <2>1. ASSUME NEW j \in Chained, InOrder(j) PROVE InOrder(j)'
    BY <1>1, <1>9, <2>1 DEF InOrder
  <2> QED
    BY <1>1, <2>1 DEF RelayInv, Orderly
<1> QED
  BY <1>12, <1>13

LEMMA FillFlows ==
  ASSUME RelayInv, Select!Fill
  PROVE  Flowing' /\ Orderly'
<1> USE ChainConstants
<1>0. PICK k \in Chained : k = turn /\ k \in inset /\ Found(k)
  <2>1. cppc = "serve" /\ turn \in inset
    BY DEF Select!Fill
  <2> QED
    BY <2>1, TurnIs DEF RelayInv
<1> DEFINE m == MinBuf * (ChainLength - k)
           v == Select!First(m, toParent[k])  w == Select!Without(Len(v), toParent[k])
<1>1. /\ cppc = "serve"
      /\ buf' = [buf EXCEPT ![k] = v] /\ size' = [size EXCEPT ![k] = Len(v)]
      /\ toParent' = [toParent EXCEPT ![k] = w]
      /\ UNCHANGED <<left, toChild, cbuf, ccpc, alive, cppc, output, ckills>>
  BY <1>0 DEF Select!Fill, Select!childVars, Select!NextTurn
<1>2. m \in Nat /\ alive[k] /\ size[k] = 0
  BY <1>0, SelectConstants DEF Found
<1> HIDE DEF m, v, w
<1>3. PICK h \in [0 .. ChainLength -> Nat], p, q, r \in [Chained -> Nat] : Flow(h, p, q, r)
  BY DEF RelayInv, Flowing
<1>4. /\ Carried(k, h[k + 1], p[k], q[k], r[k], h[k])
      /\ h[k] \in Nat /\ h[k + 1] \in Nat /\ p[k] \in Nat /\ q[k] \in Nat /\ r[k] \in Nat
      /\ k \in 0 .. ChainLength /\ k + 1 \in 0 .. ChainLength /\ FileLength \in Nat
  BY <1>0, <1>3, FlowTypes
<1>5. PICK b \in Nat, c \in Nat :
          /\ b = p[k] /\ c = q[k] /\ b <= c /\ c <= FileLength
          /\ toParent[k] = Span(b, c) /\ h[k + 1] = b
  <2>1. /\ p[k] <= q[k] /\ q[k] <= FileLength
        /\ toParent[k] = Span(p[k], q[k]) /\ h[k + 1] = p[k]
    BY <1>2, <1>4 DEF Carried
  <2> QED
    BY <1>4, <2>1
<1>5a. b \in Nat /\ c \in Nat /\ b <= c /\ c <= FileLength /\ FileLength \in Nat
  BY <1>5
<1>6. PICK l \in Nat : /\ b + l <= c /\ Len(v) = l /\ \A x \in 1 .. l : v[x] = b + x
                      /\ w = Span(b + l, c)
  <2>1. LET d == Select!Least(m, c - b)
        IN /\ d \in Nat /\ b + d <= c
           /\ Select!First(m, Span(b, c)) = Span(b, b + d)
           /\ Select!Without(m, Span(b, c)) = Span(b + d, c)
    BY <1>2, <1>5a, SpanSplit
  <2> DEFINE d == Select!Least(m, c - b)
  <2>2. d \in Nat /\ b + d <= c /\ v = Span(b, b + d)
    BY <1>5, <2>1 DEF v
  <2> HIDE DEF d
  <2>2a. d \in Nat /\ b + d <= c
    BY <2>2
  <2>3. Len(v) = d /\ \A x \in 1 .. d : v[x] = b + x
    <3>1. b + d \in Nat /\ b <= b + d /\ b + d <= FileLength /\ (b + d) - b = d
      BY <1>5a, <2>2a
    <3>2. Len(v) = (b + d) - b /\ \A x \in 1 .. (b + d) - b : v[x] = b + x
      BY <1>5a, <2>2, <3>1, SpanIs
    <3> QED
      BY <3>1, <3>2
  <2>4. Select!Without(d, Span(b, c)) = Span(b + d, c)
    <3>1. LET e == Select!Least(d, c - b)
          IN Select!Without(d, Span(b, c)) = Span(b + e, c)
      BY <1>5a, <2>2a, SpanSplit
    <3>2. Select!Least(d, c - b) = d
      BY <1>5a, <2>2a DEF Select!Least
    <3> QED
      BY <3>1, <3>2
  <2>5. w = Span(b + d, c)
    BY <1>5, <2>3, <2>4 DEF w
  <2> QED
    BY <2>2, <2>3, <2>5
<1>6a. l \in Nat /\ b + l <= c
  BY <1>6
<1>7. PICK u \in [Chained -> Nat] : u[k] = b + l /\ \A j \in Chained : j # k => u[j] = p[j]
  <2> DEFINE n == b + l
  <2>1. n \in Nat
    BY <1>5a, <1>6a
  <2> HIDE DEF n
  <2> DEFINE e == [p EXCEPT ![k] = n]
  <2>2. e \in [Chained -> Nat] /\ e[k] = n /\ \A j \in Chained : j # k => e[j] = p[j]
    BY <1>0, <1>3, <2>1
  <2> HIDE DEF e
  <2> QED
    BY <2>2 DEF n
<1>8. /\ buf'[k] = v /\ size'[k] = l /\ toParent'[k] = Span(b + l, c)
      /\ \A j \in Chained : j # k =>
             buf'[j] = buf[j] /\ size'[j] = size[j] /\ toParent'[j] = toParent[j]
  BY <1>1, <1>2, <1>6 DEF RelayInv, SelectInv, SelectTypes
<1>9. Flow(h, u, q, r)'
  <2>1. ASSUME NEW j \in Chained PROVE Carried(j, h[j + 1], u[j], q[j], r[j], h[j])'
    <3>0. Carried(j, h[j + 1], p[j], q[j], r[j], h[j])
      BY <1>3 DEF Flow
    <3>1. CASE j = k
      <4>1. b + l \in Nat /\ b <= b + l /\ (b + l) - b = l /\ l + b = b + l
        BY <1>5a, <1>6a
      <4>2. h[j + 1] = b /\ u[j] = b + l /\ q[j] = c
        BY <1>5, <1>7, <3>1
      <4>3. size'[j] = l /\ toParent'[j] = Span(b + l, c) /\ \A x \in 1 .. l : buf'[j][x] = b + x
        BY <1>6, <1>8, <3>1
      <4>4. /\ c <= r[j] /\ r[j] <= h[j] /\ h[j] <= FileLength /\ b + l <= c
            /\ cbuf'[j] = Span(c, r[j]) /\ toChild'[j] = Span(r[j], h[j])
        BY <1>1, <1>6, <3>0, <4>2 DEF Carried
      <4> QED
        BY <4>1, <4>2, <4>3, <4>4 DEF Carried
    <3>2. CASE j # k
      BY <1>1, <1>7, <1>8, <3>0, <3>2 DEF Carried
    <3> QED
      BY <3>1, <3>2
  <2> QED
    BY <1>1, <1>3, <2>1 DEF Flow
<1>10. Flowing'
  BY <1>1, <1>7, <1>9 DEF RelayInv, Flowing
<1>11. Orderly'
  <2>1. ASSUME NEW j \in Chained, InOrder(j) PROVE InOrder(j)'
    BY <1>1, <1>2, <1>8, <2>1 DEF InOrder
  <2> QED
    BY <1>1, <2>1 DEF RelayInv, Orderly
<1> QED
  BY <1>10, <1>11

LEMMA EndPiperFlows ==
  ASSUME RelayInv, Select!EndPiper
  PROVE  Flowing' /\ Orderly'
<1> USE ChainConstants
<1>0. PICK k \in Chained : k = turn /\ Found(k) /\ k \in inset
  <2>1. cppc = "serve" /\ turn \in inset
    BY DEF Select!EndPiper
  <2> QED
    BY <2>1, TurnIs DEF RelayInv
<1>1. /\ cppc = "serve" /\ toParent[k] = <<>>
      /\ alive' = [alive EXCEPT ![k] = FALSE] /\ size' = [size EXCEPT ![k] = 0]
      /\ UNCHANGED <<left, toChild, toParent, buf, cbuf, ccpc, cppc, output, ckills>>
  BY <1>0 DEF Select!EndPiper, Select!childVars, Select!NextTurn, Select!pipes
<1>2. size[k] = 0 /\ ccpc[k] # "run"
  BY <1>0, <1>1 DEF Found
<1>3. /\ \A j \in Chained : size'[j] = size[j] /\ (j # k => alive'[j] = alive[j])
      /\ \A j \in Chained : ~alive[j] => ~alive'[j]
  BY <1>1, <1>2 DEF RelayInv, SelectInv, SelectTypes
<1>4. PICK h \in [0 .. ChainLength -> Nat], p, q, r \in [Chained -> Nat] : Flow(h, p, q, r)
  BY DEF RelayInv, Flowing
<1>5. Flow(h, p, q, r)'
  BY <1>1, <1>3, <1>4, NoneMoves
<1>6. Flowing'
  BY <1>1, <1>5 DEF RelayInv, Flowing
<1>7. Orderly'
  <2>1. ASSUME NEW j \in Chained, InOrder(j), InOrder(k) PROVE InOrder(j)'
    <3>1. ccpc[k] = "ended"
      BY <1>2, <2>1 DEF RelayInv, SelectInv, SelectTypes, InOrder
    <3>2. j # 0 => j - 1 \in Chained
      OBVIOUS
    <3> QED
      BY <1>1, <1>2, <1>3, <2>1, <3>1, <3>2 DEF InOrder
  <2> QED
    BY <1>1, <1>2, <2>1 DEF RelayInv, Orderly
<1> QED
  BY <1>6, <1>7

\* Unless the parent writes just half of a buffer, what it writes is what comes next.
LEMMA DrainFlows ==
  ASSUME RelayInv, Select!Drain, ~WritesHalf
  PROVE  Flowing' /\ Orderly'
<1> USE ChainConstants
<1>0. PICK k \in Chained : k = turn /\ Found(k) /\ k \in outset \ inset
  <2>1. cppc = "serve" /\ turn \in outset \ inset
    BY DEF Select!Drain
  <2> QED
    BY <2>1, TurnIs DEF RelayInv
<1>1. PICK n \in Nat : n = Select!Amount(k) /\ n <= size[k] /\ size[k] \in Nat /\ n + n # size[k]
                       /\ size[k] <= Len(buf[k]) /\ buf[k] \in Units /\ Len(buf[k]) \in Nat
  <2>1. /\ cppc = "serve" /\ turn \in outset \ inset
        /\ turn < ChainLength - 1 => ccpc[turn + 1] = "run"
    BY DEF Select!Drain
  <2>2. /\ Select!Amount(k) \in Nat /\ Select!Amount(k) <= size[k] /\ size[k] <= Len(buf[k])
    BY <1>0, <2>1, AmountIs DEF RelayInv
  <2>3. size[k] \in Nat /\ buf[k] \in Units /\ Len(buf[k]) \in Nat
    BY <1>0, LenUnits DEF RelayInv, SelectInv, SelectTypes
  <2>4. 2 * Select!Amount(k) # size[k]
    BY <1>0, <2>1 DEF WritesHalf
  <2>5. \A x \in Nat : x + x = 2 * x
    OBVIOUS
  <2> QED
    BY <2>2, <2>3, <2>4, <2>5
<1> DEFINE d == Select!First(n, buf[k])  w == Select!Without(n, buf[k])
<1>2. /\ cppc = "serve" /\ (k < ChainLength - 1 => ccpc[k + 1] = "run")
      /\ IF k = ChainLength - 1 THEN output' = output \o d /\ toChild' = toChild
         ELSE toChild' = [toChild EXCEPT ![k + 1] = toChild[k + 1] \o d] /\ output' = output
      /\ size' = [size EXCEPT ![k] = size[k] - n] /\ buf' = [buf EXCEPT ![k] = w]
      /\ UNCHANGED <<left, toParent, alive, cbuf, ccpc, cppc, ckills>>
  <2>1. n # size[k] - n
    BY <1>1
  <2> QED
    BY <1>0, <1>1, <2>1 DEF Select!Drain, Select!childVars, Select!NextTurn
<1>3. PICK h \in [0 .. ChainLength -> Nat], p, q, r \in [Chained -> Nat] : Flow(h, p, q, r)
  BY DEF RelayInv, Flowing
<1>4. /\ Carried(k, h[k + 1], p[k], q[k], r[k], h[k])
      /\ h[k] \in Nat /\ h[k + 1] \in Nat /\ p[k] \in Nat /\ q[k] \in Nat /\ r[k] \in Nat
      /\ k \in 0 .. ChainLength /\ k + 1 \in 0 .. ChainLength /\ FileLength \in Nat
  BY <1>0, <1>3, FlowTypes
<1>5. PICK a \in Nat, b \in Nat :
          /\ a = h[k + 1] /\ b = p[k] /\ a <= b /\ b <= FileLength /\ size[k] + a = b
          /\ \A x \in 1 .. b - a : buf[k][x] = a + x
  <2>1. p[k] <= FileLength
    <3> DEFINE y == p[k]  y2 == q[k]  y3 == r[k]  y4 == h[k]
    <3>1. /\ y \in Nat /\ y2 \in Nat /\ y3 \in Nat /\ y4 \in Nat /\ FileLength \in Nat
          /\ y <= y2 /\ y2 <= y3 /\ y3 <= y4 /\ y4 <= FileLength
      BY <1>4 DEF Carried
    <3> HIDE DEF y, y2, y3, y4
    <3>2. y <= FileLength
      BY <3>1
    <3> QED
      BY <3>2 DEF y
  <2> QED
    BY <1>4, <2>1 DEF Carried
<1>6. /\ a \in Nat /\ b \in Nat /\ n \in Nat /\ a <= b /\ b <= FileLength /\ FileLength \in Nat
      /\ size[k] = b - a /\ n <= b - a /\ a + n <= b /\ a + n \in Nat /\ a <= a + n
      /\ a + n <= FileLength /\ (a + n) - a = n
  <2> DEFINE z == size[k]
  <2>1. /\ z \in Nat /\ z + a = b /\ n <= z /\ n \in Nat
        /\ a \in Nat /\ b \in Nat /\ a <= b /\ b <= FileLength /\ FileLength \in Nat
    BY <1>1, <1>5
  <2> HIDE DEF z
  <2>2. z = b - a /\ n <= b - a /\ a + n <= b /\ a + n \in Nat /\ a <= a + n
        /\ a + n <= FileLength /\ (a + n) - a = n
    BY <2>1
  <2> QED
    BY <2>1, <2>2 DEF z
<1>7. /\ d = Span(a, a + n) /\ \A x \in 1 .. b - (a + n) : w[x] = (a + n) + x
  <2> DEFINE l == Len(buf[k])
  <2>1. l \in Nat /\ b - a <= l /\ n <= l /\ Select!Least(n, l) = n
    <3>1. l \in Nat /\ size[k] <= l
      BY <1>1
    <3>2. size[k] = b - a
      BY <1>6
    <3> HIDE DEF l
    <3>3. b - a <= l /\ n <= l
      BY <1>6, <3>1, <3>2
    <3> QED
      BY <3>1, <3>3 DEF Select!Least
  <2>2. /\ d \in Units /\ Len(d) = n /\ \A x \in 1 .. n : d[x] = buf[k][x]
        /\ \A x \in 1 .. l - n : w[x] = buf[k][x + n]
    <3>1. /\ d \in Units /\ Len(d) = Select!Least(n, l)
          /\ \A x \in 1 .. Select!Least(n, l) : d[x] = buf[k][x]
          /\ \A x \in 1 .. l - Select!Least(n, l) : w[x] = buf[k][x + Select!Least(n, l)]
      <4> DEFINE s == buf[k]
      <4>1. s \in Seq(1 .. FileLength) /\ n \in Nat
        BY <1>1 DEF Units
      <4> HIDE DEF s
      <4>2. /\ Select!First(n, s) \in Seq(1 .. FileLength)
            /\ Len(Select!First(n, s)) = Select!Least(n, Len(s))
            /\ \A x \in 1 .. Select!Least(n, Len(s)) : Select!First(n, s)[x] = s[x]
            /\ \A x \in 1 .. Len(s) - Select!Least(n, Len(s)) :
                   Select!Without(n, s)[x] = s[x + Select!Least(n, Len(s))]
        BY <4>1, FirstWithout
      <4> QED
        BY <4>2 DEF s, Units
    <3> HIDE DEF d, w, l
    <3> QED
      BY <2>1, <3>1
  <2> HIDE DEF d, w, l
  <2>3. d = Span(a, a + n)
    <3>1. Len(d) = (a + n) - a /\ \A x \in 1 .. (a + n) - a : d[x] = a + x
      <4>1. ASSUME NEW x \in 1 .. n PROVE d[x] = a + x
        <5>1. x \in 1 .. b - a
          BY <1>6
        <5> QED
          BY <1>5, <2>2, <5>1
      <4> QED
        BY <1>6, <2>2, <4>1
    <3> QED
      BY <1>6, <2>2, <3>1, SpanOf DEF Units
  <2>4. ASSUME NEW x \in 1 .. b - (a + n) PROVE w[x] = (a + n) + x
    <3>1. x \in 1 .. l - n /\ x + n \in 1 .. b - a /\ a + (x + n) = (a + n) + x
      BY <1>6, <2>1
    <3> QED
      BY <1>5, <2>2, <3>1
  <2> QED
    BY <2>3, <2>4
<1> HIDE DEF d, w
<1>8. PICK g \in [0 .. ChainLength -> Nat] :
          g[k + 1] = a + n /\ \A j \in 0 .. ChainLength : j # k + 1 => g[j] = h[j]
  <2> DEFINE e == [h EXCEPT ![k + 1] = a + n]
  <2>1. /\ e \in [0 .. ChainLength -> Nat] /\ e[k + 1] = a + n
        /\ \A j \in 0 .. ChainLength : j # k + 1 => e[j] = h[j]
    BY <1>3, <1>4, <1>6
  <2> HIDE DEF e
  <2> QED
    BY <2>1
<1>9. /\ buf'[k] = w /\ size'[k] = b - (a + n)
      /\ \A j \in Chained : j # k => buf'[j] = buf[j] /\ size'[j] = size[j]
  <2>1. size'[k] = size[k] - n /\ buf'[k] = w
        /\ \A j \in Chained : j # k => buf'[j] = buf[j] /\ size'[j] = size[j]
    BY <1>0, <1>2 DEF RelayInv, SelectInv, SelectTypes
  <2>2. (b - a) - n = b - (a + n)
    BY <1>6
  <2> QED
    BY <1>6, <2>1, <2>2
<1>10. /\ output' = Span(0, g[ChainLength])
       /\ \A j \in Chained : toChild'[j] = Span(r[j], g[j])
       /\ \A j \in Chained : j # k + 1 => toChild'[j] = toChild[j]
       /\ toChild'[0] = <<>>
  <2>1. /\ output = Span(0, h[ChainLength]) /\ toChild[0] = <<>>
        /\ toChild \in [Chained -> Units] /\ 0 \in Chained /\ 0 # k + 1
    <3>1. 0 \in Chained /\ 0 # k + 1
      BY <1>0
    <3>2. output = Span(0, h[ChainLength])
      BY <1>3 DEF Flow
    <3>3. toChild[0] = <<>> /\ toChild \in [Chained -> Units]
      BY DEF Flowing, RelayInv, SelectInv, SelectTypes
    <3> QED
      BY <3>1, <3>2, <3>3
  <2>2. ASSUME NEW j \in Chained, j # k + 1 PROVE toChild[j] = Span(r[j], g[j])
    <3>1. Carried(j, h[j + 1], p[j], q[j], r[j], h[j])
      BY <1>3 DEF Flow
    <3>2. g[j] = h[j]
      BY <1>8, <2>2
    <3> QED
      BY <3>1, <3>2 DEF Carried
  <2>3. CASE k = ChainLength - 1
    <3>1. k + 1 = ChainLength /\ \A j \in Chained : j # k + 1
      BY <2>3
    <3>2. output' = Span(0, a) \o Span(a, a + n)
      BY <1>2, <1>5, <1>7, <2>1, <2>3, <3>1
    <3>3. output' = Span(0, a + n)
      <4>1. 0 \in Nat /\ 0 <= a
        BY <1>6
      <4> QED
        BY <1>6, <3>2, <4>1, SpanConcat
    <3>4. toChild' = toChild
      BY <1>2, <2>3
    <3> QED
      BY <1>8, <2>1, <2>2, <3>1, <3>3, <3>4
  <2>4. CASE k # ChainLength - 1
    <3>1. k + 1 \in Chained /\ k + 1 # ChainLength /\ ChainLength \in 0 .. ChainLength
      BY <1>0, <2>4
    <3>2. /\ Carried(k + 1, h[k + 1 + 1], p[k + 1], q[k + 1], r[k + 1], h[k + 1])
          /\ r[k + 1] \in Nat
      BY <1>3, <3>1, FlowTypes
    <3>3. toChild[k + 1] = Span(r[k + 1], a) /\ r[k + 1] <= a
      BY <1>5, <3>2 DEF Carried
    <3>4. toChild[k + 1] \o d = Span(r[k + 1], a + n)
      <4> DEFINE e == r[k + 1]
      <4>1. e \in Nat /\ e <= a /\ toChild[k + 1] = Span(e, a) /\ d = Span(a, a + n)
        BY <1>7, <3>2, <3>3
      <4> HIDE DEF e
      <4>2. Span(e, a) \o Span(a, a + n) = Span(e, a + n)
        BY <1>6, <4>1, SpanConcat
      <4> QED
        BY <4>1, <4>2 DEF e
    <3>5. /\ toChild'[k + 1] = Span(r[k + 1], a + n)
          /\ \A j \in Chained : j # k + 1 => toChild'[j] = toChild[j]
      BY <1>2, <2>1, <2>4, <3>1, <3>4
    <3>6. output' = output /\ g[ChainLength] = h[ChainLength]
      BY <1>2, <1>8, <2>4, <3>1
    <3> QED
      BY <1>8, <2>1, <2>2, <3>5, <3>6
  <2> QED
    BY <2>3, <2>4
<1>11. ASSUME NEW j \in Chained PROVE Carried(j, g[j + 1], p[j], q[j], r[j], g[j])'
  <2>1. /\ Carried(j, h[j + 1], p[j], q[j], r[j], h[j])
        /\ h[j] \in Nat /\ h[j + 1] \in Nat /\ p[j] \in Nat /\ r[j] \in Nat
        /\ j \in 0 .. ChainLength /\ j + 1 \in 0 .. ChainLength
    BY <1>3, FlowTypes
  <2>2. toParent'[j] = Span(p[j], q[j]) /\ cbuf'[j] = Span(q[j], r[j]) /\ p[j] <= q[j] /\ q[j] <= r[j]
    BY <1>2, <2>1 DEF Carried
  <2>3. r[j] <= g[j] /\ g[j] <= FileLength
    <3>1. r[j] <= h[j] /\ h[j] <= FileLength
      BY <2>1 DEF Carried
    <3>2. CASE j = k + 1
      <4>1. h[j] = a /\ g[j] = a + n
        BY <1>5, <1>8, <3>2
      <4> QED
        BY <1>6, <2>1, <3>1, <4>1
    <3>3. CASE j # k + 1
      BY <1>8, <2>1, <3>1, <3>3
    <3> QED
      BY <3>2, <3>3
  <2>4. CASE j = k
    <3>1. g[j + 1] = a + n /\ p[j] = b
      BY <1>5, <1>8, <2>4
    <3>2. size'[j] = b - (a + n) /\ \A x \in 1 .. b - (a + n) : buf'[j][x] = (a + n) + x
      BY <1>7, <1>9, <2>4
    <3>3. (b - (a + n)) + (a + n) = b
      BY <1>6
    <3> QED
      BY <1>6, <1>10, <2>2, <2>3, <3>1, <3>2, <3>3 DEF Carried
  <2>5. CASE j # k
    <3>1. j + 1 # k + 1
      BY <2>5
    <3>2. g[j + 1] = h[j + 1]
      BY <1>8, <2>1, <3>1
    <3> QED
      BY <1>9, <1>10, <2>1, <2>2, <2>3, <2>5, <3>2 DEF Carried
  <2> QED
    BY <2>4, <2>5
<1>12. Flow(g, p, q, r)'
  <2>1. g[0] = left
    <3>1. 0 \in 0 .. ChainLength /\ 0 # k + 1
      BY <1>0
    <3> QED
      BY <1>3, <1>8, <3>1 DEF Flow
  <2> QED
    BY <1>2, <1>10, <1>11, <2>1 DEF Flow
<1>13. Flowing'
  BY <1>2, <1>3, <1>8, <1>10, <1>12 DEF RelayInv, Flowing
<1>14. Orderly'
  <2>1. ASSUME NEW j \in Chained, InOrder(j) PROVE InOrder(j)'
    <3>1. alive[k] /\ (j = k + 1 => ccpc[j] = "run")
      <4>1. j = k + 1 => k < ChainLength - 1
        OBVIOUS
      <4> QED
        BY <1>0, <1>2, <4>1 DEF Found
    <3>2. j # k => size'[j] = size[j]
      BY <1>9
    <3>3. j # k + 1 => toChild'[j] = toChild[j]
      BY <1>10
    <3> QED
      BY <1>2, <2>1, <3>1, <3>2, <3>3 DEF InOrder
  <2> QED
    BY <1>2, <2>1 DEF RelayInv, Orderly
<1> QED
  BY <1>13, <1>14

\* The other steps of the parent, of the children, and what kills a child.
LEMMA RestFlows ==
  ASSUME RelayInv,
         \/ Select!Select \/ Select!Skip \/ Select!ParentSigpipe \/ Select!EndOfLoop
         \/ Select!WaitAll
  PROVE  Flowing' /\ Orderly'
<1>1. /\ UNCHANGED <<left, output, buf, size, toParent, cbuf, toChild, alive, ccpc, ckills>>
      /\ cppc' = "killed" \/ cppc # "killed"
      /\ \/ cppc' = cppc \/ cppc' \notin {"wait", "ended"} \/ cppc = "wait"
         \/ \A k \in Chained : ~alive[k]
  BY DEF Select!Select, Select!Skip, Select!ParentSigpipe, Select!EndOfLoop, Select!WaitAll,
         Select!childVars, Select!pipes, Select!pipers, Select!NextTurn, Chained
<1>2. cppc = "wait" => \A k \in Chained : ~alive[k]
  BY DEF RelayInv, Flowing
<1>3. Flowing'
  BY <1>1, <1>2, StillFlowing DEF RelayInv
<1>4. Orderly'
  BY <1>1 DEF RelayInv, Orderly, InOrder
<1> QED
  BY <1>3, <1>4

LEMMA ChildOutFlows ==
  ASSUME RelayInv, NEW k \in Chained,
         Select!ChildSigpipe(k) \/ Select!ChildEnd(k) \/ Select!Kill(k)
  PROVE  Flowing' /\ Orderly'
<1> USE ChainConstants
<1>1. /\ UNCHANGED <<left, output, buf, size, toParent, cbuf, toChild, alive, cppc>>
      /\ ccpc[k] = "run" /\ (k # 0 => k - 1 \in Chained)
  BY DEF Select!ChildSigpipe, Select!ChildEnd, Select!Kill, Select!pipes, Select!pipers, Select!loop
<1>2. Flowing'
  BY <1>1, StillFlowing DEF RelayInv
<1>3. CASE Select!Kill(k)
  <2>1. ckills' = ckills + 1 /\ ckills \in Nat
    BY <1>3 DEF Select!Kill, RelayInv, Orderly
  <2>2. ckills' \in Nat /\ ckills' # 0
    BY <2>1
  <2> QED
    BY <1>2, <2>2 DEF Orderly
<1>4. CASE Select!ChildSigpipe(k) \/ Select!ChildEnd(k)
  <2>1. ckills' = ckills /\ ccpc' = [ccpc EXCEPT ![k] = "ended"]
    BY <1>4 DEF Select!ChildSigpipe, Select!ChildEnd
  <2>2. /\ ccpc'[k] = "ended" /\ \A j \in Chained : j # k => ccpc'[j] = ccpc[j]
    BY <2>1 DEF RelayInv, SelectInv, SelectTypes
  <2>3. ASSUME ckills = 0, cppc # "killed", \A j \in Chained : InOrder(j),
               NEW j \in Chained
        PROVE  InOrder(j)'
    <3>1. CASE j = k
      <4>1. \A x \in Chained : ~Select!ParentRuns => ~alive[x]
        BY <2>3 DEF Select!ParentRuns, RelayInv, Flowing, SelectInv, SelectTypes
      <4>2. alive[k]
        BY <1>1, <2>3 DEF InOrder
      <4>3. Select!ParentRuns /\ ~Select!ChildSigpipe(k)
        BY <4>1, <4>2 DEF Select!ChildSigpipe, Select!HoldsDin
      <4>4. /\ cbuf[k] = <<>> /\ (k = 0 => left = FileLength)
            /\ k # 0 => toChild[k] = <<>> /\ ~alive[k - 1]
        BY <1>1, <1>4, <4>3 DEF Select!ChildEnd, Select!HoldsDout
      <4> QED
        BY <1>1, <2>2, <3>1, <4>2, <4>4 DEF InOrder
    <3>2. CASE j # k
      BY <1>1, <2>2, <2>3, <3>2 DEF InOrder
    <3> QED
      BY <3>1, <3>2
  <2> QED
    BY <1>1, <1>2, <2>1, <2>3 DEF RelayInv, Orderly
<1> QED
  BY <1>3, <1>4 DEF Select!Kill

LEMMA RelayInit == Select!Init => RelayInv
<1> SUFFICES ASSUME Select!Init PROVE RelayInv
  OBVIOUS
<1> USE ChainConstants
<1>1. SelectInv
  BY SelectInit
<1> DEFINE h == [x \in 0 .. ChainLength |-> 0]  p == [x \in Chained |-> 0]
<1>2. h \in [0 .. ChainLength -> Nat] /\ p \in [Chained -> Nat]
  OBVIOUS
<1>3. Span(0, 0) = <<>>
  BY SpanEmpty
<1>4. Flow(h, p, p, p)
  <2>1. ASSUME NEW k \in Chained PROVE Carried(k, h[k + 1], p[k], p[k], p[k], h[k])
    <3>1. k \in 0 .. ChainLength /\ k + 1 \in 0 .. ChainLength
      OBVIOUS
    <3>2. h[k + 1] = 0 /\ h[k] = 0 /\ p[k] = 0
      BY <3>1
    <3>3. size[k] = 0 /\ toParent[k] = <<>> /\ cbuf[k] = <<>> /\ toChild[k] = <<>>
      BY DEF Select!Init, Chained
    <3> HIDE DEF h, p
    <3> QED
      BY <1>3, <3>2, <3>3 DEF Carried
  <2>2. h[0] = 0 /\ h[ChainLength] = 0 /\ left = 0 /\ output = <<>>
    BY DEF Select!Init
  <2> HIDE DEF h, p
  <2> QED
    BY <1>3, <2>1, <2>2 DEF Flow
<1>5. toChild[0] = <<>> /\ cppc = "select" /\ ckills = 0
  BY DEF Select!Init, Chained
<1>6. Flowing
  <2> HIDE DEF h, p
  <2> QED
    BY <1>2, <1>4, <1>5 DEF Flowing
<1>7. Orderly
  <2>1. \A k \in Chained : ccpc[k] = "run" /\ alive[k]
    BY DEF Select!Init, Chained
  <2> QED
    BY <1>5, <2>1 DEF Orderly, InOrder
<1> QED
  BY <1>1, <1>6, <1>7 DEF RelayInv

LEMMA RelayStep ==
  ASSUME RelayInv, Select!Next, ~WritesHalf
  PROVE  RelayInv'
<1>1. SelectInv'
  BY SelectStep DEF RelayInv
<1>2. CASE Select!Parent
  BY <1>1, <1>2, RestFlows, FillFlows, EndPiperFlows, DrainFlows DEF Select!Parent, RelayInv
<1>3. ASSUME NEW k \in Select!Child, Select!RunChild(k) \/ Select!Kill(k) PROVE RelayInv'
  <2>1. k \in Chained
    BY DEF Chained
  <2> QED
    BY <1>1, <1>3, <2>1, ReadFileFlows, ChildReadFlows, ChildWriteFlows, ChildOutFlows
    DEF Select!RunChild, RelayInv
<1> QED
  BY <1>2, <1>3 DEF Select!Next, Select!Step

LEMMA RelayStutter == RelayInv /\ UNCHANGED selectVars => RelayInv'
<1> SUFFICES ASSUME RelayInv, UNCHANGED selectVars PROVE RelayInv'
  OBVIOUS
<1>1. SelectInv'
  BY SelectStutter DEF RelayInv
<1>2. Flowing'
  BY StillFlowing DEF RelayInv, selectVars
<1>3. Orderly'
  BY DEF RelayInv, selectVars, Orderly, InOrder
<1> QED
  BY <1>1, <1>2, <1>3 DEF RelayInv

\* What comes out is the beginning of the file; and when every piper is dead and nobody was
\* killed, the units that have gone into a child have gone out of it.
LEMMA RelayCopies == RelayInv => Select!CopiesTheFile
<1> SUFFICES ASSUME RelayInv PROVE Select!CopiesTheFile
  OBVIOUS
<1> USE ChainConstants
<1>1. PICK h \in [0 .. ChainLength -> Nat], p, q, r \in [Chained -> Nat] : Flow(h, p, q, r)
  BY DEF RelayInv, Flowing
<1>2. PICK e \in Nat : e = h[ChainLength] /\ e <= FileLength /\ output = Span(0, e)
  <2>1. PICK k \in Chained : k + 1 = ChainLength
    <3>1. ChainLength - 1 \in Chained /\ (ChainLength - 1) + 1 = ChainLength
      OBVIOUS
    <3> QED
      BY <3>1
  <2>2. /\ Carried(k, h[k + 1], p[k], q[k], r[k], h[k])
        /\ h[k] \in Nat /\ h[k + 1] \in Nat /\ p[k] \in Nat /\ q[k] \in Nat /\ r[k] \in Nat
    <3>1. k \in Chained
      BY <2>1
    <3> QED
      BY <1>1, <3>1, FlowTypes
  <2>3. h[k + 1] <= FileLength
    <3> DEFINE x1 == h[k + 1]  x2 == p[k]  x3 == q[k]  x4 == r[k]  x5 == h[k]
    <3>1. /\ x1 \in Nat /\ x2 \in Nat /\ x3 \in Nat /\ x4 \in Nat /\ x5 \in Nat
          /\ x1 <= x2 /\ x2 <= x3 /\ x3 <= x4 /\ x4 <= x5 /\ x5 <= FileLength
      BY <2>2 DEF Carried
    <3> HIDE DEF x1, x2, x3, x4, x5
    <3>2. x1 <= FileLength
      BY <3>1
    <3> QED
      BY <3>2 DEF x1
  <2> QED
    BY <1>1, <2>1, <2>2, <2>3 DEF Flow
<1>3. Len(output) = e /\ output = [x \in 1 .. Len(output) |-> x]
  <2>1. 0 \in Nat /\ 0 <= e /\ e - 0 = e
    BY <1>2
  <2>2. Len(Span(0, e)) = e - 0
    BY <1>2, <2>1, SpanIs
  <2>3. Span(0, e) = [x \in 1 .. e |-> x]
    BY <1>2, <2>1 DEF Span
  <2> QED
    BY <1>2, <2>1, <2>2, <2>3
<1>4. ASSUME cppc = "ended", ckills = 0 PROVE Len(output) = FileLength
  <2>1. \A k \in Chained : ~alive[k] /\ InOrder(k)
    BY <1>4 DEF RelayInv, Flowing, Orderly
  <2>2. ASSUME NEW k \in Chained PROVE h[k + 1] = h[k]
    <3>1. /\ Carried(k, h[k + 1], p[k], q[k], r[k], h[k])
          /\ h[k] \in Nat /\ h[k + 1] \in Nat /\ p[k] \in Nat /\ q[k] \in Nat /\ r[k] \in Nat
      BY <1>1, FlowTypes
    <3>2. /\ toParent[k] = <<>> /\ size[k] = 0 /\ cbuf[k] = <<>> /\ toChild[k] = <<>>
      BY <2>1 DEF InOrder, RelayInv, Flowing
    <3> DEFINE x1 == h[k + 1]  x2 == p[k]  x3 == q[k]  x4 == r[k]  x5 == h[k]
    <3>3. /\ x1 \in Nat /\ x2 \in Nat /\ x3 \in Nat /\ x4 \in Nat /\ x5 \in Nat
          /\ x1 <= x2 /\ x2 <= x3 /\ x3 <= x4 /\ x4 <= x5 /\ x5 <= FileLength
          /\ 0 + x1 = x2 /\ Span(x2, x3) = <<>> /\ Span(x3, x4) = <<>> /\ Span(x4, x5) = <<>>
      BY <3>1, <3>2 DEF Carried
    <3> HIDE DEF x1, x2, x3, x4, x5
    <3>4. x3 <= FileLength /\ x4 <= FileLength
      BY <3>3
    <3>5. x1 = x2 /\ x2 = x3 /\ x3 = x4 /\ x4 = x5
      BY <3>3, <3>4, SpanEmpty
    <3>6. x1 = x5
      BY <3>5
    <3> QED
      BY <3>6 DEF x1, x5
  <2> DEFINE T == {x \in Nat : x <= ChainLength => h[x] = h[0]}
  <2>3. 0 \in T
    OBVIOUS
  <2>4. ASSUME NEW x \in Nat, x \in T PROVE x + 1 \in T
    <3>1. CASE x + 1 <= ChainLength
      <4>1. x \in Chained /\ x <= ChainLength
        BY <3>1
      <4> QED
        BY <2>2, <2>4, <4>1
    <3> QED
      BY <3>1
  <2> HIDE DEF T
  <2>5. Nat \subseteq T
    BY <2>3, <2>4, Induction
  <2>6. h[ChainLength] = h[0]
    BY <2>5 DEF T
  <2>7. left = FileLength
    BY <2>1 DEF InOrder
  <2> QED
    BY <1>1, <1>2, <1>3, <2>6, <2>7 DEF Flow
<1> QED
  BY <1>3, <1>4 DEF Select!CopiesTheFile

\* A write that is not done as a whole is of PIPE_BUF units or more; half of a buffer is less.
LEMMA NeverHalf ==
  ASSUME SelectInv, PipeCapacity < 2 * PipeBuf \/ MinBuf * ChainLength < 2 * PipeBuf
  PROVE  ~WritesHalf
<1> SUFFICES ASSUME WritesHalf PROVE FALSE
  OBVIOUS
<1>1. /\ cppc = "serve" /\ turn \in outset \ inset
      /\ turn < ChainLength - 1 => ccpc[turn + 1] = "run"
      /\ 2 * Select!Amount(turn) = size[turn]
  BY DEF WritesHalf
<1>2. PICK k \in Chained : k = turn /\ Fits(k)
  BY <1>1, TurnIs DEF SelectInv
<1>3. /\ Select!Amount(k) \in Nat /\ size[k] > 0
      /\ Select!Amount(k) < size[k] => Select!Amount(k) >= PipeBuf
  BY <1>1, <1>2, AmountIs
<1>4. size[k] \in Nat /\ Len(buf[k]) \in Nat
  BY <1>2, LenUnits DEF SelectInv, SelectTypes
<1>5. /\ size[k] <= Len(buf[k]) /\ Len(buf[k]) <= PipeCapacity
      /\ Len(buf[k]) <= MinBuf * (ChainLength - k)
  BY <1>2 DEF Fits
<1>6. /\ MinBuf * (ChainLength - k) \in Nat /\ MinBuf * ChainLength \in Nat
      /\ MinBuf * (ChainLength - k) <= MinBuf * ChainLength
  <2>1. /\ ChainLength - k \in Nat /\ k \in Nat /\ ChainLength \in Nat /\ MinBuf \in Nat
        /\ ChainLength - k <= ChainLength
    BY <1>2, SelectConstants
  <2> DEFINE x == ChainLength - k
  <2> HIDE DEF x
  <2>2. x \in Nat /\ x <= ChainLength
    BY <2>1 DEF x
  <2>3. x < ChainLength => MinBuf * x + MinBuf <= MinBuf * ChainLength
    BY <2>1, <2>2, TimesMonotone
  <2>4. MinBuf * x \in Nat /\ MinBuf * ChainLength \in Nat
    BY <2>1, <2>2
  <2>5. MinBuf * x <= MinBuf * ChainLength
    <3>1. CASE x = ChainLength
      BY <2>4, <3>1
    <3>2. CASE x # ChainLength
      BY <2>1, <2>2, <2>3, <2>4, <3>2
    <3> QED
      BY <3>1, <3>2
  <2> QED
    BY <2>4, <2>5 DEF x
<1> DEFINE n == Select!Amount(k)  z == size[k]  b == Len(buf[k])
           m == MinBuf * (ChainLength - k)  t == MinBuf * ChainLength
<1>7. /\ n \in Nat /\ z \in Nat /\ b \in Nat /\ m \in Nat /\ t \in Nat
      /\ 2 * n = z /\ z > 0 /\ (n < z => n >= PipeBuf) /\ z <= b /\ b <= PipeCapacity
      /\ b <= m /\ m <= t /\ (PipeCapacity < 2 * PipeBuf \/ t < 2 * PipeBuf)
      /\ PipeCapacity \in Nat /\ PipeBuf \in Nat
  BY <1>1, <1>2, <1>3, <1>4, <1>5, <1>6, SelectConstants
<1> HIDE DEF n, z, b, m, t
<1>8. n >= PipeBuf
  BY <1>7
<1> QED
  BY <1>7, <1>8

-----------------------------------------------------------------------------
(* What follows for shmem, for select, and for all the programs. *)

\* shmem, whoever is killed when and whatever another run has left in the segment and in
\* the semaphores: the receiver prints the blocks of the file in order, and all of them
\* unless one side fails.  If what is left includes a count in Alive (PrintsTheFile leaves
\* that case out) only the types hold.
THEOREM ShmemPrintsTheFile ==
  FairSpec => [](Shmem!TypeOK /\ Shmem!PrintsTheFile)
<1>1. Init => ShmemInv
  BY ShmemInit DEF Init
<1>2. ShmemInv /\ [Next]_vars => ShmemInv'
  BY ShmemStep, ShmemStutter, StepsOfOne
<1>3. ShmemInv => Shmem!TypeOK /\ Shmem!PrintsTheFile
  BY ShmemResult
<1> QED
  BY <1>1, <1>2, <1>3, PTL DEF FairSpec

\* The types of all the programs, with the bounds of their pipes, queues and buffers.
THEOREM TypesHold == FairSpec => []TypeOK
<1> DEFINE Running == program \in {"shmem", "fifo", "signal", "select", "msg", "newton", "net", "table"}
           Inv == /\ Running /\ ShmemInv /\ FifoInv /\ SignalInv /\ SelectInv
                  /\ MsgInv /\ NewtonInv /\ NetInv /\ TableInv
<1>1. Init => Inv
  BY ShmemInit, FifoInit, SignalInit, SelectInit, MsgInit, NewtonInit, NetInit, TableInit DEF Init
<1>2. Inv /\ [Next]_vars => Inv'
  <2> SUFFICES ASSUME Inv, [Next]_vars PROVE Inv'
    OBVIOUS
  <2>1. Running' /\ ShmemInv' /\ SelectInv'
    BY StepsOfOne, ShmemStep, ShmemStutter, SelectStep, SelectStutter
  <2>2. FifoInv' /\ SignalInv' /\ MsgInv'
    BY StepsOfOne, FifoInvariance, SignalInvariance, MsgInvariance
  <2>3. NewtonInv' /\ NetInv' /\ TableInv'
    BY StepsOfOne, NewtonInvariance, NetInvariance, TableInvariance
  <2> QED
    BY <2>1, <2>2, <2>3
<1>3. Inv => TypeOK
  <2> SUFFICES ASSUME Inv PROVE TypeOK
    OBVIOUS
  <2>1. Shmem!TypeOK /\ Fifo!TypeOK /\ Signal!TypeOK /\ Select!TypeOK
    BY ShmemResult, FifoFilesNotMixed, SignalPrintsTheFile, SelectTypeOK
  <2>2. Msg!TypeOK /\ Newton!TypeOK /\ Net!TypeOK /\ Table!TypeOK
    BY MsgTypeOK, NewtonTypeOK, TableTypeOK DEF NetInv
  <2> QED
    BY <2>1, <2>2 DEF TypeOK
<1> HIDE DEF Inv
<1> QED
  BY <1>1, <1>2, <1>3, PTL DEF FairSpec

\* All four programs copy their files, as long as the parent of select never writes exactly
\* half of what a buffer holds (and shmem starts without a count in Alive).
THEOREM FilesCopiedUnlessHalf == FairSpec /\ []~WritesHalf => []FilesAreCopied
<1> DEFINE Inv == ShmemInv /\ FifoInv /\ SignalInv /\ RelayInv
<1>1. Init => Inv
  BY ShmemInit, FifoInit, SignalInit, RelayInit DEF Init
<1>2. Inv /\ ~WritesHalf /\ [Next]_vars => Inv'
  <2> SUFFICES ASSUME Inv, ~WritesHalf, [Next]_vars PROVE Inv'
    OBVIOUS
  <2>1. ShmemInv' /\ FifoInv' /\ SignalInv'
    BY StepsOfOne, ShmemStep, ShmemStutter, FifoInvariance, SignalInvariance
  <2>2. RelayInv'
    BY StepsOfOne, RelayStep, RelayStutter
  <2> QED
    BY <2>1, <2>2
<1>3. Inv => FilesAreCopied
  BY ShmemResult, FifoFilesNotMixed, SignalPrintsTheFile, RelayCopies DEF FilesAreCopied
<1> HIDE DEF Inv
<1> QED
  BY <1>1, <1>2, <1>3, PTL DEF FairSpec

\* The chain never does if no buffer of it holds twice PIPE_BUF, or a pipe has no room for
\* that: a write which stops half way is of PIPE_BUF or more, and less than half is left.
\* What is left to assume is that shmem starts without a count in Alive.
THEOREM FilesCopied ==
  ASSUME PipeCapacity < 2 * PipeBuf \/ MinBuf * ChainLength < 2 * PipeBuf
  PROVE  FairSpec => []FilesAreCopied
<1>1. Init => SelectInv
  BY SelectInit DEF Init
<1>2. SelectInv /\ [Next]_vars => SelectInv'
  BY StepsOfOne, SelectStep, SelectStutter
<1>3. SelectInv => ~WritesHalf
  BY NeverHalf
<1> QED
  BY <1>1, <1>2, <1>3, FilesCopiedUnlessHalf, PTL DEF FairSpec
=============================================================================
