------------------------- MODULE ScriptTraversal_proofs -------------------------
(***************************************************************************)
(* Proof that LoopsAreClosed holds of every script: whatever its blocks,   *)
(* however they are nested, and whichever of them become notes.            *)
(***************************************************************************)
EXTENDS ScriptTraversal, SequenceTheorems, FiniteSetTheorems, NaturalsInduction, WellFoundedInduction, TLAPS

(* Induction and recursion over the natural numbers *)

LEMMA Less ==
  ASSUME NEW x \in Nat, NEW y \in Nat, x < y
  PROVE  <<x, y>> \in OpToRel(<, Nat)
<1>1. <<x, y>> \in Nat \X Nat
  OBVIOUS
<1>2. <<x, y>>[1] < <<x, y>>[2]
  OBVIOUS
<1>3. OpToRel(<, Nat) = {ss \in Nat \X Nat : ss[1] < ss[2]}
  BY DEF OpToRel
<1> QED
  BY <1>1, <1>2, <1>3

\* A set that has 0, and with a number the next one, has them all.
LEMMA Induction ==
  ASSUME NEW S, 0 \in S, \A n \in Nat : n \in S => n + 1 \in S
  PROVE  Nat \subseteq S
<1> DEFINE T == Nat \ S
<1>1. SUFFICES ASSUME T # {} PROVE FALSE
  OBVIOUS
<1>2. PICK x \in T : \A y \in T : ~(<<y, x>> \in OpToRel(<, Nat))
  <2>1. T \subseteq Nat
    OBVIOUS
  <2> HIDE DEF T
  <2> QED
    BY <1>1, <2>1, NatLessThanWellFounded, WFMin
<1>3. x \in Nat /\ x # 0
  BY <1>2
<1>4. x - 1 \in Nat /\ x - 1 < x
  BY <1>3
<1>5. x - 1 \notin T
  BY <1>2, <1>3, <1>4, Less
<1> QED
  BY <1>3, <1>4, <1>5

\* Steps that are given by functions can be repeated.
Repeats(f, R, r, n, h) == f \in [0..n -> R] /\ f[0] = r /\ \A i \in 1..n : f[i] = h[i][f[i - 1]]
LEMMA Iterates ==
  ASSUME NEW R, NEW r \in R, NEW n \in Nat, NEW h \in [1..n -> [R -> R]]
  PROVE  \E f : Repeats(f, R, r, n, h)
<1> DEFINE Does(f, m) == f \in [0..m -> R] /\ f[0] = r /\ \A i \in 1..m : f[i] = h[i][f[i - 1]]
           S == {m \in Nat : m <= n => \E f : Does(f, m)}
<1>1. 0 \in S
  <2>1. Does([i \in 0..0 |-> r], 0)
    OBVIOUS
  <2> QED
    BY <2>1
<1>2. ASSUME NEW m \in Nat, m \in S
      PROVE  m + 1 \in S
  <2>1. SUFFICES ASSUME m + 1 <= n
                 PROVE  \E f : Does(f, m + 1)
    OBVIOUS
  <2>2. PICK f : Does(f, m)
    BY <1>2, <2>1
  <2> DEFINE g == [i \in 0..m + 1 |-> IF i = m + 1 THEN h[m + 1][f[m]] ELSE f[i]]
  <2>3. h[m + 1] \in [R -> R] /\ f[m] \in R
    BY <2>1, <2>2
  <2>4. g \in [0..m + 1 -> R] /\ g[0] = r
    BY <2>2, <2>3
  <2>5. ASSUME NEW i \in 1..m + 1
        PROVE  g[i] = h[i][g[i - 1]]
    <3>1. CASE i = m + 1
      BY <3>1
    <3>2. CASE i # m + 1
      <4>1. i \in 1..m /\ i - 1 \in 0..m
        BY <3>2
      <4> QED
        BY <4>1, <2>2
    <3> QED
      BY <3>1, <3>2
  <2>6. Does(g, m + 1)
    <3> HIDE DEF g
    <3> QED
      BY <2>4, <2>5
  <2> QED
    BY <2>6
<1>3. Nat \subseteq S
  <2> HIDE DEF S
  <2> QED
    BY <1>1, <1>2, Induction
<1>4. \E f : Does(f, n)
  BY <1>3
<1> QED
  BY <1>4 DEF Repeats

\* Two functions that begin alike and go on alike are alike.
GoOnAlike(f, g, a, n) == f[a] = g[a] /\ \A i \in a..n : i # a /\ f[i - 1] = g[i - 1] => f[i] = g[i]
LEMMA Agree ==
  ASSUME NEW a \in Nat, NEW n \in Nat, NEW f, NEW g, GoOnAlike(f, g, a, n)
  PROVE  \A i \in a..n : f[i] = g[i]
<1> DEFINE S == {m \in Nat : a + m <= n => f[a + m] = g[a + m]}
<1>1. 0 \in S
  BY DEF GoOnAlike
<1>2. ASSUME NEW m \in Nat, m \in S
      PROVE  m + 1 \in S
  <2>1. SUFFICES ASSUME a + (m + 1) <= n
                 PROVE  f[a + (m + 1)] = g[a + (m + 1)]
    OBVIOUS
  <2>2. a + (m + 1) \in a..n /\ a + (m + 1) # a /\ (a + (m + 1)) - 1 = a + m /\ a + m <= n
    BY <2>1
  <2>3. f[a + m] = g[a + m]
    BY <1>2, <2>2
  <2> QED
    BY <2>2, <2>3 DEF GoOnAlike
<1>3. Nat \subseteq S
  <2> HIDE DEF S
  <2> QED
    BY <1>1, <1>2, Induction
<1>4. ASSUME NEW i \in a..n
      PROVE  f[i] = g[i]
  <2>1. i - a \in Nat /\ a + (i - a) = i /\ i <= n
    OBVIOUS
  <2>2. i - a \in S
    BY <1>3, <2>1
  <2> QED
    BY <2>1, <2>2
<1> QED
  BY <1>4

\* FlattenSeq, one sequence after the other.
Pieces(f, s) == f[0] = <<>> /\ \A i \in 1..Len(s) : f[i] = f[i - 1] \o s[i]
LEMMA PiecesExist ==
  ASSUME NEW X, NEW s \in Seq(Seq(X))
  PROVE  \E f \in [0..Len(s) -> Seq(X)] : Pieces(f, s)
<1> DEFINE n == Len(s)
           R == Seq(X)
           h == [i \in 1..n |-> [r \in R |-> r \o s[i]]]
<1>1. n \in Nat /\ \A i \in 1..n : s[i] \in Seq(X)
  OBVIOUS
<1>2. h \in [1..n -> [R -> R]]
  BY <1>1
<1>3. <<>> \in R
  OBVIOUS
<1>4. PICK f : Repeats(f, R, <<>>, n, h)
  <2> HIDE DEF h, n, R
  <2> QED
    BY <1>1, <1>2, <1>3, Iterates
<1>5. f \in [0..n -> R] /\ f[0] = <<>> /\ \A i \in 1..n : f[i] = h[i][f[i - 1]]
  <2> HIDE DEF h, n, R
  <2> QED
    BY <1>4 DEF Repeats
<1>6. ASSUME NEW i \in 1..n
      PROVE  f[i] = f[i - 1] \o s[i]
  <2>1. f[i - 1] \in R
    <3>1. i - 1 \in 0..n
      BY <1>1
    <3> HIDE DEF h, n, R
    <3> QED
      BY <1>5, <3>1
  <2>2. f[i] = h[i][f[i - 1]]
    BY <1>5
  <2>3. h[i][f[i - 1]] = f[i - 1] \o s[i]
    BY <2>1
  <2> QED
    BY <2>2, <2>3
<1> QED
  BY <1>5, <1>6 DEF Pieces

LEMMA Flattened ==
  ASSUME NEW X, NEW s \in Seq(Seq(X)), NEW f \in [0..Len(s) -> Seq(X)], Pieces(f, s)
  PROVE  FlattenSeq(s) = f[Len(s)]
<1> DEFINE n == Len(s)
<1>1. n \in Nat /\ \A i \in 1..n : s[i] \in Seq(X)
  OBVIOUS
<1>2. f[0] = <<>> /\ \A i \in 1..n : f[i] = f[i - 1] \o s[i]
  BY DEF Pieces
<1>3. CASE n = 0
  <2>1. s = <<>>
    BY <1>3
  <2>2. FlattenSeq(s) = s
    BY <1>3 DEF FlattenSeq
  <2> QED
    BY <1>2, <1>3, <2>1, <2>2
<1>4. CASE n # 0
  <2> DEFINE flatten == CHOOSE e : e = [i \in 1..n |-> IF i = 1 THEN s[i] ELSE e[i - 1] \o s[i]]
             g == [i \in 1..n |-> f[i]]
  <2>1. FlattenSeq(s) = flatten[n]
    BY <1>4 DEF FlattenSeq
  <2>2. g = [i \in 1..n |-> IF i = 1 THEN s[i] ELSE g[i - 1] \o s[i]]
    <3>1. ASSUME NEW i \in 1..n
          PROVE  f[i] = IF i = 1 THEN s[i] ELSE g[i - 1] \o s[i]
      <4>1. CASE i = 1
        <5>1. 1 \in 1..n /\ 1 - 1 = 0
          BY <4>1
        <5>2. f[1] = f[0] \o s[1]
          BY <1>2, <5>1
        <5>3. <<>> \o s[1] = s[1]
          BY <1>1, <5>1
        <5>4. f[1] = s[1]
          BY <1>2, <5>2, <5>3
        <5> QED
          BY <4>1, <5>4
      <4>2. CASE i # 1
        <5>1. i - 1 \in 1..n
          BY <1>1, <4>2
        <5>2. g[i - 1] = f[i - 1]
          BY <5>1
        <5> QED
          BY <1>2, <4>2, <5>2
      <4> QED
        BY <4>1, <4>2
    <3> QED
      BY <3>1
  <2>3. flatten = [i \in 1..n |-> IF i = 1 THEN s[i] ELSE flatten[i - 1] \o s[i]]
    <3> HIDE DEF g
    <3> QED
      BY <2>2
  <2>4. \A i \in 1..n : g[i] = IF i = 1 THEN s[i] ELSE g[i - 1] \o s[i]
    <3> HIDE DEF g, flatten, n
    <3> QED
      BY <2>2
  <2>5. \A i \in 1..n : flatten[i] = IF i = 1 THEN s[i] ELSE flatten[i - 1] \o s[i]
    <3> HIDE DEF g, flatten, n
    <3> QED
      BY <2>3
  <2>6. 1 \in 1..n /\ n \in 1..n /\ 1 \in Nat
    BY <1>1, <1>4
  <2> HIDE DEF g, flatten, n
  <2>7. flatten[1] = g[1]
    BY <2>4, <2>5, <2>6
  <2>8. \A i \in 1..n : i # 1 /\ flatten[i - 1] = g[i - 1] => flatten[i] = g[i]
    BY <2>4, <2>5
  <2>9. \A i \in 1..n : flatten[i] = g[i]
    <3>1. GoOnAlike(flatten, g, 1, n) /\ n \in Nat
      BY <1>1, <2>7, <2>8 DEF GoOnAlike
    <3> QED
      BY <2>6, <3>1, Agree
  <2>10. g[n] = f[n]
    BY <2>6 DEF g
  <2> QED
    BY <2>1, <2>6, <2>9, <2>10 DEF n
<1> QED
  BY <1>3, <1>4

-------------------------------------------------------------------------------
(* Brackets: what a sequence of bricks opens and closes *)

\* What is open after a brick; values, and what is not there, open nothing.
Marks == {"LoopEnd", "IfEnd", "Else", "never closed"}
Brackets == LoopNames \union {"doIf", "doIfElse", "Else", "LoopEnd", "IfEnd"}
Opened(open, n) == IF IsBrick(n) THEN Nesting(open, n) ELSE open
IsPath(w, s) == w \in [0..Len(s) -> Seq(Marks)] /\ \A i \in 1..Len(s) : w[i] = Opened(w[i - 1], s[i])
Leads(o, s, p) == \E w : IsPath(w, s) /\ w[0] = o /\ w[Len(s)] = p
Closed(s) == \A o \in Seq(Marks) : Leads(o, s, o)

LEMMA PathsJoin ==
  ASSUME NEW X, NEW s \in Seq(X), NEW t \in Seq(X), NEW o, NEW p, NEW q, Leads(o, s, p), Leads(p, t, q)
  PROVE  Leads(o, s \o t, q)
<1>1. PICK u : IsPath(u, s) /\ u[0] = o /\ u[Len(s)] = p
  BY DEF Leads
<1>2. PICK v : IsPath(v, t) /\ v[0] = p /\ v[Len(t)] = q
  BY DEF Leads
<1> DEFINE m == Len(s)
           n == Len(t)
           w == [i \in 0..m + n |-> IF i <= m THEN u[i] ELSE v[i - m]]
<1>3. m \in Nat /\ n \in Nat /\ Len(s \o t) = m + n
  OBVIOUS
<1>4. (\A i \in 1..m : (s \o t)[i] = s[i]) /\ (\A i \in m + 1..m + n : (s \o t)[i] = t[i - m])
  BY <1>3
<1>5. u \in [0..m -> Seq(Marks)] /\ \A i \in 1..m : u[i] = Opened(u[i - 1], s[i])
  BY <1>1 DEF IsPath
<1>6. v \in [0..n -> Seq(Marks)] /\ \A i \in 1..n : v[i] = Opened(v[i - 1], t[i])
  BY <1>2 DEF IsPath
<1>7. w \in [0..m + n -> Seq(Marks)]
  <2>1. ASSUME NEW i \in 0..m + n
        PROVE  (IF i <= m THEN u[i] ELSE v[i - m]) \in Seq(Marks)
    <3>1. i <= m => i \in 0..m
      BY <1>3
    <3>2. ~(i <= m) => i - m \in 0..n
      BY <1>3
    <3> QED
      BY <1>5, <1>6, <3>1, <3>2
  <2> QED
    BY <2>1
<1>8. ASSUME NEW i \in 1..m + n
      PROVE  w[i] = Opened(w[i - 1], (s \o t)[i])
  <2>1. i \in 0..m + n /\ i - 1 \in 0..m + n
    BY <1>3
  <2>2. CASE i <= m
    <3>1. i \in 1..m /\ i - 1 <= m
      BY <1>3, <2>2
    <3>2. w[i] = u[i] /\ w[i - 1] = u[i - 1]
      BY <2>1, <2>2, <3>1
    <3> QED
      BY <1>4, <1>5, <3>1, <3>2
  <2>3. CASE i = m + 1
    <3>1. ~(i <= m) /\ i - m = 1 /\ i - 1 = m /\ m <= m /\ 1 \in 1..n /\ i \in m + 1..m + n /\ 1 - 1 = 0
      BY <1>3, <2>3
    <3>2. w[i] = v[1] /\ w[i - 1] = u[m]
      BY <2>1, <3>1
    <3>3. u[m] = v[0] /\ (s \o t)[i] = t[1]
      BY <1>1, <1>2, <1>4, <3>1
    <3> QED
      BY <1>6, <3>1, <3>2, <3>3
  <2>4. CASE i > m + 1
    <3>1. ~(i <= m) /\ ~(i - 1 <= m) /\ i - m \in 1..n /\ (i - 1) - m = (i - m) - 1 /\ i \in m + 1..m + n
      BY <1>3, <2>4
    <3>2. w[i] = v[i - m] /\ w[i - 1] = v[(i - m) - 1]
      BY <2>1, <3>1
    <3> QED
      BY <1>4, <1>6, <3>1, <3>2
  <2> QED
    BY <1>3, <2>2, <2>3, <2>4
<1>9. w[0] = o /\ w[m + n] = q
  <2>1. 0 \in 0..m + n /\ m + n \in 0..m + n /\ 0 <= m
    BY <1>3
  <2>2. w[0] = o
    BY <1>1, <2>1
  <2>3. CASE n = 0
    BY <1>1, <1>2, <1>3, <2>1, <2>3
  <2>4. CASE n # 0
    <3>1. ~(m + n <= m) /\ (m + n) - m = n
      BY <1>3, <2>4
    <3> QED
      BY <1>2, <2>1, <2>2, <3>1
  <2> QED
    BY <2>2, <2>3, <2>4
<1> HIDE DEF w
<1> QED
  BY <1>3, <1>7, <1>8, <1>9 DEF Leads, IsPath

LEMMA PathOfOne ==
  ASSUME NEW o \in Seq(Marks), NEW n, Opened(o, n) \in Seq(Marks)
  PROVE  Leads(o, <<n>>, Opened(o, n))
<1> DEFINE p == Opened(o, n)
           w == [i \in 0..1 |-> IF i = 0 THEN o ELSE p]
<1> HIDE DEF p
<1>1. Len(<<n>>) = 1 /\ <<n>>[1] = n /\ p \in Seq(Marks) /\ p = Opened(o, n)
  BY DEF p
<1>2. w \in [0..1 -> Seq(Marks)] /\ w[0] = o /\ w[1] = p
  BY <1>1
<1>3. \A i \in 1..1 : i = 1 /\ i - 1 = 0
  OBVIOUS
<1> HIDE DEF w
<1>4. IsPath(w, <<n>>)
  BY <1>1, <1>2, <1>3 DEF IsPath
<1> QED
  BY <1>1, <1>2, <1>4 DEF Leads

\* What is no bracket leaves everything as it is.
IsNeutral(n) == IsBrick(n) => n.t \notin Brackets
LEMMA NeutralOpened ==
  ASSUME NEW o, NEW n, IsNeutral(n)
  PROVE  Opened(o, n) = o
BY DEF IsNeutral, Opened, Nesting, Brackets, LoopNames

LEMMA NeutralClosed ==
  ASSUME NEW X, NEW s \in Seq(X), \A i \in 1..Len(s) : IsNeutral(s[i])
  PROVE  Closed(s)
<1>1. SUFFICES ASSUME NEW o \in Seq(Marks)
               PROVE  Leads(o, s, o)
  BY DEF Closed
<1> DEFINE w == [i \in 0..Len(s) |-> o]
<1>2. Len(s) \in Nat
  OBVIOUS
<1>3. w \in [0..Len(s) -> Seq(Marks)] /\ w[0] = o /\ w[Len(s)] = o
  BY <1>2
<1>4. \A i \in 1..Len(s) : w[i] = o /\ w[i - 1] = o
  BY <1>2
<1> HIDE DEF w
<1>5. \A i \in 1..Len(s) : w[i] = Opened(w[i - 1], s[i])
  BY <1>4, NeutralOpened
<1> QED
  BY <1>3, <1>5 DEF Leads, IsPath

LEMMA ClosedJoin ==
  ASSUME NEW X, NEW s \in Seq(X), NEW t \in Seq(X), Closed(s), Closed(t)
  PROVE  Closed(s \o t)
BY PathsJoin DEF Closed

\* The ends of loops and branches close what their starts opened.
LEMMA BracketsOpened ==
  ASSUME NEW o \in Seq(Marks), NEW n, IsBrick(n)
  PROVE  /\ n.t \in LoopNames => Opened(o, n) = Append(o, "LoopEnd")
         /\ n.t = "doIf" => Opened(o, n) = Append(o, "IfEnd")
         /\ n.t = "doIfElse" => Opened(o, n) = Append(o, "Else")
         /\ n.t = "LoopEnd" => Opened(Append(o, "LoopEnd"), n) = o
         /\ n.t = "IfEnd" => Opened(Append(o, "IfEnd"), n) = o
         /\ n.t = "Else" => Opened(Append(o, "Else"), n) = Append(o, "IfEnd")
<1>1. ASSUME NEW m \in Marks
      PROVE  Append(o, m) # <<>> /\ Last(Append(o, m)) = m /\ Front(Append(o, m)) = o
  <2>1. Len(Append(o, m)) = Len(o) + 1 /\ Append(o, m)[Len(o) + 1] = m
    OBVIOUS
  <2>2. SubSeq(Append(o, m), 1, Len(o)) = o
    OBVIOUS
  <2>3. (Len(o) + 1) - 1 = Len(o) /\ Len(o) + 1 # 0
    OBVIOUS
  <2> QED
    BY <2>1, <2>2, <2>3 DEF Last, Front
<1>2. "LoopEnd" \in Marks /\ "IfEnd" \in Marks /\ "Else" \in Marks
  BY DEF Marks
<1>3. n.t \in LoopNames => Opened(o, n) = Append(o, "LoopEnd")
  BY DEF Opened, Nesting, LoopNames
<1>4. n.t = "doIf" => Opened(o, n) = Append(o, "IfEnd")
  BY DEF Opened, Nesting, LoopNames
<1>5. n.t = "doIfElse" => Opened(o, n) = Append(o, "Else")
  BY DEF Opened, Nesting, LoopNames
<1>6. n.t = "LoopEnd" => Opened(Append(o, "LoopEnd"), n) = o
  BY <1>1, <1>2 DEF Opened, Nesting, LoopNames
<1>7. n.t = "IfEnd" => Opened(Append(o, "IfEnd"), n) = o
  BY <1>1, <1>2 DEF Opened, Nesting, LoopNames
<1>8. n.t = "Else" => Opened(Append(o, "Else"), n) = Append(o, "IfEnd")
  BY <1>1, <1>2 DEF Opened, Nesting, LoopNames
<1> QED
  BY <1>3, <1>4, <1>5, <1>6, <1>7, <1>8

-------------------------------------------------------------------------------
(* Results: closed, or marked by something that cannot be added to a script *)

\* What Collect refuses; ConvertedList makes notes of unmapped blocks.
IsForeign(n) == ~IsBrick(n) /\ ~IsIgnored(n) /\ ~IsUnmapped(n)
HasForeign(s) == \E i \in 1..Len(s) : IsForeign(s[i])
Good(s) == HasForeign(s) \/ Closed(s)

LEMMA JoinHasForeign ==
  ASSUME NEW X, NEW s \in Seq(X), NEW t \in Seq(X), HasForeign(s) \/ HasForeign(t)
  PROVE  HasForeign(s \o t)
<1>1. Len(s) \in Nat /\ Len(t) \in Nat /\ Len(s \o t) = Len(s) + Len(t)
  OBVIOUS
<1>2. CASE HasForeign(s)
  <2>1. PICK i \in 1..Len(s) : IsForeign(s[i])
    BY <1>2 DEF HasForeign
  <2>2. i \in 1..Len(s \o t) /\ (s \o t)[i] = s[i]
    BY <1>1
  <2> QED
    BY <2>1, <2>2 DEF HasForeign
<1>3. CASE HasForeign(t)
  <2>1. PICK i \in 1..Len(t) : IsForeign(t[i])
    BY <1>3 DEF HasForeign
  <2>2. i + Len(s) \in 1..Len(s \o t) /\ (s \o t)[i + Len(s)] = t[i]
    BY <1>1
  <2> QED
    BY <2>1, <2>2 DEF HasForeign
<1> QED
  BY <1>2, <1>3

LEMMA GoodJoin ==
  ASSUME NEW X, NEW s \in Seq(X), NEW t \in Seq(X), Good(s), Good(t)
  PROVE  Good(s \o t)
BY JoinHasForeign, ClosedJoin DEF Good

LEMMA EmptyGood == Good(<<>>)
<1>1. <<>> \in Seq({}) /\ \A i \in 1..Len(<<>>) : IsNeutral(<<>>[i])
  OBVIOUS
<1> QED
  BY <1>1, NeutralClosed DEF Good

LEMMA OneGood ==
  ASSUME NEW n, IsNeutral(n)
  PROVE  Good(<<n>>)
<1>1. <<n>> \in Seq({n}) /\ Len(<<n>>) = 1 /\ \A i \in 1..1 : <<n>>[i] = n
  OBVIOUS
<1> QED
  BY <1>1, NeutralClosed DEF Good

\* A loop or a branch around what is good.
Matches(start, end) ==
  /\ IsBrick(start) /\ IsBrick(end)
  /\ \/ start.t \in LoopNames /\ end.t = "LoopEnd"
     \/ start.t = "doIf" /\ end.t = "IfEnd"

LEMMA LoopClosed ==
  ASSUME NEW X, NEW body \in Seq(X), NEW start, NEW end, Matches(start, end), Closed(body)
  PROVE  Closed(<<start>> \o body \o <<end>>)
<1>1. SUFFICES ASSUME NEW o \in Seq(Marks)
               PROVE  Leads(o, <<start>> \o body \o <<end>>, o)
  BY DEF Closed
<1>2. PICK m \in Marks : Opened(o, start) = Append(o, m) /\ Opened(Append(o, m), end) = o
  BY BracketsOpened DEF Matches, Marks
<1>3. Append(o, m) \in Seq(Marks)
  OBVIOUS
<1>4. Leads(o, <<start>>, Append(o, m))
  BY <1>2, <1>3, PathOfOne
<1>5. Leads(Append(o, m), body, Append(o, m))
  BY <1>3 DEF Closed
<1>6. Leads(Append(o, m), <<end>>, o)
  <2>1. Opened(Append(o, m), end) \in Seq(Marks)
    BY <1>2
  <2> QED
    BY <1>2, <1>3, <2>1, PathOfOne
<1> DEFINE Y == X \union {start, end}
<1>7. <<start>> \in Seq(Y) /\ <<end>> \in Seq(Y) /\ body \in Seq(Y)
  BY SeqMonotonic
<1>8. <<start>> \o body \in Seq(Y)
  BY <1>7
<1> HIDE DEF Y
<1>9. Leads(o, <<start>> \o body, Append(o, m))
  BY <1>4, <1>5, <1>7, PathsJoin
<1> QED
  BY <1>6, <1>7, <1>8, <1>9, PathsJoin

LEMMA LoopGood ==
  ASSUME NEW X, NEW body \in Seq(X), NEW start, NEW end, Matches(start, end), Good(body)
  PROVE  Good(<<start>> \o body \o <<end>>)
<1>1. CASE Closed(body)
  BY <1>1, LoopClosed DEF Good
<1>2. CASE HasForeign(body)
  <2> DEFINE Y == X \union {start, end}
  <2>1. <<start>> \in Seq(Y) /\ <<end>> \in Seq(Y) /\ body \in Seq(Y)
    BY SeqMonotonic
  <2>2. <<start>> \o body \in Seq(Y)
    BY <2>1
  <2> HIDE DEF Y
  <2>3. HasForeign(<<start>> \o body)
    BY <1>2, <2>1, JoinHasForeign
  <2> QED
    BY <2>1, <2>2, <2>3, JoinHasForeign DEF Good
<1> QED
  BY <1>1, <1>2 DEF Good

\* A branch with two bodies.
IsBranch(start, else, end) ==
  /\ IsBrick(start) /\ IsBrick(else) /\ IsBrick(end)
  /\ start.t = "doIfElse" /\ else.t = "Else" /\ end.t = "IfEnd"

LEMMA BranchGood ==
  ASSUME NEW X, NEW x \in Seq(X), NEW y \in Seq(X), NEW start, NEW else, NEW end, IsBranch(start, else, end),
         Good(x), Good(y)
  PROVE  Good(<<start>> \o x \o <<else>> \o y \o <<end>>)
<1> DEFINE Y == X \union {start, else, end}
           s1 == <<start>> \o x
           s2 == s1 \o <<else>>
           s3 == s2 \o y
<1>1. <<start>> \in Seq(Y) /\ <<else>> \in Seq(Y) /\ <<end>> \in Seq(Y) /\ x \in Seq(Y) /\ y \in Seq(Y)
  BY SeqMonotonic
<1>2. s1 \in Seq(Y)
  BY <1>1
<1>3. s2 \in Seq(Y)
  BY <1>1, <1>2
<1>4. s3 \in Seq(Y)
  BY <1>1, <1>3
<1>5. CASE HasForeign(x) \/ HasForeign(y)
  <2> HIDE DEF Y
  <2>1. HasForeign(x) => HasForeign(s1)
    BY <1>1, JoinHasForeign
  <2>2. HasForeign(s1) => HasForeign(s2)
    <3> HIDE DEF s1
    <3> QED
      BY <1>1, <1>2, JoinHasForeign
  <2>3. HasForeign(s2) \/ HasForeign(y) => HasForeign(s3)
    <3> HIDE DEF s1, s2
    <3> QED
      BY <1>1, <1>3, JoinHasForeign
  <2>4. HasForeign(s3 \o <<end>>)
    <3> HIDE DEF s1, s2, s3
    <3> QED
      BY <1>1, <1>4, <1>5, <2>1, <2>2, <2>3, JoinHasForeign
  <2> QED
    BY <2>4 DEF Good
<1>6. CASE Closed(x) /\ Closed(y)
  <2>1. SUFFICES ASSUME NEW o \in Seq(Marks)
                 PROVE  Leads(o, s3 \o <<end>>, o)
    BY DEF Closed, Good
  <2> DEFINE e == Append(o, "Else")
             f == Append(o, "IfEnd")
  <2>2. e \in Seq(Marks) /\ f \in Seq(Marks)
    <3>1. "Else" \in Marks /\ "IfEnd" \in Marks
      BY DEF Marks
    <3> QED
      BY <3>1
  <2>3. Opened(o, start) = e /\ Opened(e, else) = f /\ Opened(f, end) = o
    BY BracketsOpened DEF IsBranch
  <2> HIDE DEF e, f, Y
  <2>4. Leads(o, <<start>>, e) /\ Leads(e, <<else>>, f) /\ Leads(f, <<end>>, o)
    BY <2>2, <2>3, PathOfOne
  <2>5. Leads(e, x, e) /\ Leads(f, y, f)
    BY <1>6, <2>2 DEF Closed
  <2>6. Leads(o, s1, e)
    BY <1>1, <2>4, <2>5, PathsJoin
  <2> HIDE DEF s1
  <2>7. Leads(o, s2, f)
    BY <1>1, <1>2, <2>4, <2>6, PathsJoin
  <2> HIDE DEF s2
  <2>8. Leads(o, s3, f)
    BY <1>1, <1>3, <2>5, <2>7, PathsJoin
  <2> HIDE DEF s3
  <2> QED
    BY <1>1, <1>4, <2>4, <2>8, PathsJoin
<1> QED
  BY <1>5, <1>6 DEF Good

-------------------------------------------------------------------------------
(* What the handlers of the blocks give *)

\* Whatever is a list of bricks is good, and so is what it holds; the name of a list is in none.
IsPlain(n) == n.k # "list" /\ n # LIST
SoundSet(S) == \A n \in S : n # LIST /\ (n.k = "list" => n.a \in Seq(S) /\ Good(n.a))

\* An exception, one value or brick, or several bricks.
Mixed(S, r) == \E P : (\A n \in P : IsPlain(n)) /\ r \in Seq(S \union P)
Outcome(S, r) ==
  \/ r = Fail
  \/ \E n : r = <<n>> /\ IsPlain(n) /\ IsNeutral(n)
  \/ Mixed(S, r) /\ Good(r) /\ r # <<>> /\ IsBrick(Last(r))

LEMMA OnlyOutcome ==
  ASSUME NEW S, NEW cond, NEW r, cond => Outcome(S, r)
  PROVE  Outcome(S, Only(cond, r))
BY DEF Only, Outcome

LEMMA NodeFacts ==
  ASSUME NEW name, NEW args
  PROVE  /\ IsPlain(Formula(name, args)) /\ IsNeutral(Formula(name, args))
         /\ IsPlain(Brick(name, args)) /\ IsBrick(Brick(name, args)) /\ Brick(name, args).t = name
         /\ name \notin Brackets => IsNeutral(Brick(name, args))
         /\ IsPlain(Unmapped(name)) /\ IsNeutral(Unmapped(name))
         /\ IsPlain(Null) /\ IsNeutral(Null)
         /\ IsPlain(Note) /\ IsNeutral(Note) /\ IsBrick(Note)
BY DEF IsPlain, IsNeutral, IsBrick, Formula, Brick, Unmapped, Null, Note, LIST, Str, Node, Brackets, LoopNames

LEMMA FormulaOutcome ==
  ASSUME NEW S, NEW name, NEW args
  PROVE  Outcome(S, <<Formula(name, args)>>)
BY NodeFacts DEF Outcome

LEMMA NoteOutcome ==
  ASSUME NEW S
  PROVE  Outcome(S, <<Note>>)
BY NodeFacts DEF Outcome

LEMMA BrickOutcome ==
  ASSUME NEW S, NEW name, NEW args, name \notin Brackets
  PROVE  Outcome(S, <<Brick(name, args)>>)
BY NodeFacts DEF Outcome

\* Several bricks, none of them a bracket.
LEMMA BricksOutcome ==
  ASSUME NEW S, NEW P, NEW r \in Seq(P), r # <<>>,
         \A n \in P : IsPlain(n) /\ IsNeutral(n) /\ IsBrick(n)
  PROVE  Outcome(S, r)
<1>1. Len(r) \in Nat /\ Len(r) # 0 /\ \A i \in 1..Len(r) : r[i] \in P
  OBVIOUS
<1>2. Last(r) \in P
  BY <1>1 DEF Last
<1>3. Good(r)
  BY <1>1, NeutralClosed DEF Good
<1>4. r \in Seq(S \union P)
  BY SeqMonotonic
<1>5. Mixed(S, r)
  BY <1>4 DEF Mixed
<1> QED
  BY <1>2, <1>3, <1>5 DEF Outcome

LEMMA EnumOutcome ==
  ASSUME NEW S, NEW name, NEW args
  PROVE  Outcome(S, EnumFormula(name, args))
BY OnlyOutcome, FormulaOutcome DEF EnumFormula

LEMMA ReporterOutcome ==
  ASSUME NEW S, NEW name \in HandledReporters, NEW args
  PROVE  Outcome(S, ReporterFormula(name, args))
<1>1. ASSUME NEW cond, NEW x, NEW y
      PROVE  Outcome(S, Only(cond, <<Formula(x, y)>>))
  BY OnlyOutcome, FormulaOutcome
<1>2. ASSUME NEW cond, NEW c, NEW d, NEW v, NEW w, NEW x, NEW y
      PROVE  Outcome(S, Only(cond, IF c THEN <<Note>> ELSE IF d THEN <<Formula(v, w)>> ELSE <<Formula(x, y)>>))
  BY OnlyOutcome, FormulaOutcome, NoteOutcome
<1>3. CASE name \in {"()", "10 ^", "readVariable", "getParam"}
  BY <1>1, <1>3 DEF ReporterFormula
<1>4. CASE name \in {"answer", "soundLevel", "touching:"}
  BY <1>1, <1>4, FormulaOutcome DEF ReporterFormula
<1>5. CASE name = "timeAndDate"
  BY <1>2, <1>5 DEF ReporterFormula, Op
<1>6. CASE name \in {"lineCountOfList:", "contentsOfList:", "list:contains:", "getLine:ofList:"}
  BY <1>1, <1>6 DEF ReporterFormula, LineCount
<1>7. CASE name \in {"stringLength:", "letter:of:", "concatenate:with:"}
  BY <1>1, <1>7 DEF ReporterFormula
<1> QED
  BY <1>3, <1>4, <1>5, <1>6, <1>7 DEF HandledReporters

LEMMA PlainOutcome ==
  ASSUME NEW S, NEW name \in DOMAIN PlainBricks, NEW args
  PROVE  Outcome(S, PlainBrick(name, args))
<1>1. name \in NoValue \union OneValue \union TwoValues \union {"glideSecs:toX:y:elapsed:from:"}
  BY DEF PlainBricks
<1>2. name \notin Brackets
  BY <1>1 DEF NoValue, OneValue, TwoValues, Brackets, LoopNames
<1> QED
  BY <1>2, OnlyOutcome, BrickOutcome DEF PlainBrick

\* A body is a list of bricks, or none.
LEMMA BodyGood ==
  ASSUME NEW S, SoundSet(S), NEW n \in S, IsBodyOrNone(n)
  PROVE  n.a \in Seq(S) /\ Good(n.a)
<1>1. CASE IsBody(n)
  BY <1>1 DEF IsBody, SoundSet
<1>2. CASE n = Null
  <2>1. n.a = <<>>
    BY <1>2 DEF Null, Node
  <2> QED
    BY <2>1, EmptyGood
<1> QED
  BY <1>1, <1>2 DEF IsBodyOrNone

LEMMA AroundOutcome ==
  ASSUME NEW S, NEW body \in Seq(S), NEW start, NEW end, Matches(start, end), Good(body), IsPlain(start), IsPlain(end)
  PROVE  Outcome(S, <<start>> \o body \o <<end>>)
<1> DEFINE P == {start, end}
           r == <<start>> \o body \o <<end>>
<1>1. body \in Seq(S \union P)
  BY SeqMonotonic
<1>2. r \in Seq(S \union P) /\ r # <<>> /\ r[Len(r)] = end
  BY <1>1
<1>3. Good(r)
  BY LoopGood
<1>4. IsBrick(Last(r)) /\ Mixed(S, r)
  <2> HIDE DEF r
  <2> QED
    BY <1>2 DEF Last, Mixed, Matches
<1> QED
  BY <1>2, <1>3, <1>4 DEF Outcome

LEMMA LoopOutcome ==
  ASSUME NEW S, SoundSet(S), NEW name \in LoopNames, NEW args \in Seq(S)
  PROVE  Outcome(S, LoopBricks(name, args))
<1> DEFINE end == Brick("LoopEnd", <<>>)
<1>1. ASSUME NEW x PROVE Matches(Brick(name, x), end) /\ IsPlain(Brick(name, x)) /\ IsPlain(end)
  BY NodeFacts DEF Matches
<1>2. ASSUME NEW n \in S, NEW x, IsBodyOrNone(n)
      PROVE  Outcome(S, <<Brick(name, x)>> \o n.a \o <<end>>)
  <2> HIDE DEF end
  <2> QED
    BY <1>1, <1>2, BodyGood, AroundOutcome
<1> HIDE DEF end
<1>3. CASE name = "doForever"
  <2>1. Len(args) = 1 => args[1] \in S
    OBVIOUS
  <2>2. Len(args) = 1 /\ IsBodyOrNone(args[1]) => Outcome(S, <<Brick(name, <<>>)>> \o args[1].a \o <<end>>)
    BY <1>2, <2>1
  <2> QED
    BY <1>3, <2>2, OnlyOutcome DEF LoopBricks, end
<1>4. CASE name # "doForever"
  <2>1. Len(args) = 2 => args[2] \in S
    OBVIOUS
  <2>2. Len(args) = 2 /\ IsValue(args[1]) /\ IsBody(args[2]) => Outcome(S, <<Brick(name, <<args[1]>>)>> \o args[2].a \o <<end>>)
    BY <1>2, <2>1 DEF IsBodyOrNone
  <2> QED
    BY <1>4, <2>2, OnlyOutcome DEF LoopBricks, end
<1> QED
  BY <1>3, <1>4

LEMMA BranchOutcome ==
  ASSUME NEW S, SoundSet(S), NEW name \in BranchNames, NEW args \in Seq(S)
  PROVE  Outcome(S, BranchBricks(name, args))
<1> DEFINE end == Brick("IfEnd", <<>>)
           else == Brick("Else", <<>>)
<1>1. CASE name = "doIf"
  <2>1. Len(args) = 2 => args[2] \in S
    OBVIOUS
  <2>2. ASSUME NEW x PROVE Matches(Brick(name, x), end) /\ IsPlain(Brick(name, x)) /\ IsPlain(end)
    BY <1>1, NodeFacts DEF Matches
  <2> HIDE DEF end
  <2>3. Len(args) = 2 /\ IsValue(args[1]) /\ IsBodyOrNone(args[2]) => Outcome(S, <<Brick(name, <<args[1]>>)>> \o args[2].a \o <<end>>)
    BY <2>1, <2>2, BodyGood, AroundOutcome
  <2> QED
    BY <1>1, <2>3, OnlyOutcome DEF BranchBricks, end
<1>2. CASE name = "doIfElse"
  <2> DEFINE start == Brick(name, <<args[1]>>)
             fits == Len(args) = 3 /\ IsValue(args[1]) /\ IsBodyOrNone(args[2]) /\ IsBodyOrNone(args[3])
             r == <<start>> \o args[2].a \o <<else>> \o args[3].a \o <<end>>
             P == {start, else, end}
  <2>1. IsBranch(start, else, end) /\ \A n \in P : IsPlain(n)
    BY <1>2, NodeFacts DEF IsBranch
  <2>2. SUFFICES ASSUME fits
                 PROVE  Outcome(S, r)
    <3>1. fits => Outcome(S, r)
      BY <2>2
    <3> HIDE DEF fits, r
    <3>2. Outcome(S, Only(fits, r))
      BY <3>1, OnlyOutcome
    <3> QED
      BY <1>2, <3>2 DEF BranchBricks, fits, r
  <2>3. args[2] \in S /\ args[3] \in S
    BY <2>2
  <2>4. args[2].a \in Seq(S) /\ Good(args[2].a) /\ args[3].a \in Seq(S) /\ Good(args[3].a)
    BY <2>2, <2>3, BodyGood
  <2> HIDE DEF start, else, end
  <2>5. Good(r)
    BY <2>1, <2>4, BranchGood
  <2>6. args[2].a \in Seq(S \union P) /\ args[3].a \in Seq(S \union P)
    BY <2>4, SeqMonotonic
  <2>7. r \in Seq(S \union P) /\ r # <<>> /\ r[Len(r)] = end
    <3> DEFINE x == args[2].a
               y == args[3].a
               T == S \union P
               s1 == <<start>> \o x
               s2 == s1 \o <<else>>
               s3 == s2 \o y
    <3>1. <<start>> \in Seq(T) /\ <<else>> \in Seq(T) /\ <<end>> \in Seq(T)
      OBVIOUS
    <3> HIDE DEF T, x, y
    <3>2. x \in Seq(T) /\ y \in Seq(T)
      BY <2>6 DEF T, x, y
    <3>3. s1 \in Seq(T)
      BY <3>1, <3>2
    <3>4. s2 \in Seq(T)
      BY <3>1, <3>3
    <3>5. s3 \in Seq(T)
      BY <3>2, <3>4
    <3> HIDE DEF s3
    <3>6. s3 \o <<end>> \in Seq(T) /\ s3 \o <<end>> # <<>> /\ (s3 \o <<end>>)[Len(s3 \o <<end>>)] = end
      BY <3>1, <3>5
    <3> QED
      BY <3>6 DEF s3, T, x, y
  <2>8. Mixed(S, r)
    <3> HIDE DEF P, r
    <3> QED
      BY <2>1, <2>7 DEF Mixed
  <2>9. IsBrick(Last(r))
    <3> HIDE DEF r
    <3> QED
      BY <2>1, <2>7 DEF Last, IsBranch
  <2> QED
    BY <2>5, <2>7, <2>8, <2>9 DEF Outcome
<1> QED
  BY <1>1, <1>2 DEF BranchNames

\* A pair of bricks.
LEMMA PairedOutcome ==
  ASSUME NEW S, NEW x, NEW y, NEW cond,
         IsPlain(x) /\ IsNeutral(x) /\ IsBrick(x), IsPlain(y) /\ IsNeutral(y) /\ IsBrick(y)
  PROVE  Outcome(S, Only(cond, <<x, y>>))
<1> DEFINE P == {x, y}
           r == <<x, y>>
<1>1. r \in Seq(P) /\ r # <<>>
  OBVIOUS
<1>2. \A n \in P : IsPlain(n) /\ IsNeutral(n) /\ IsBrick(n)
  OBVIOUS
<1> HIDE DEF P, r
<1>3. Outcome(S, r)
  BY <1>1, <1>2, BricksOutcome
<1> QED
  BY <1>3, OnlyOutcome DEF r

AreThree(x, y, z) == <<x, y, z>> = <<x>> \o <<y>> \o <<z>>
LEMMA JoinThree ==
  ASSUME NEW x, NEW y, NEW z
  PROVE  AreThree(x, y, z)
<1> DEFINE P == {x, y, z}
           two == <<x>> \o <<y>>
           three == two \o <<z>>
<1>1. <<x>> \in Seq(P) /\ <<y>> \in Seq(P) /\ <<z>> \in Seq(P)
  OBVIOUS
<1>2. <<x, y, z>> \in Seq(P) /\ Len(<<x, y, z>>) = 3 /\ <<x, y, z>>[1] = x /\ <<x, y, z>>[2] = y /\ <<x, y, z>>[3] = z
  OBVIOUS
<1> HIDE DEF P
<1>3. two \in Seq(P) /\ Len(two) = 2 /\ two[1] = x /\ two[2] = y
  BY <1>1
<1> HIDE DEF two
<1>4. three \in Seq(P) /\ Len(three) = 3 /\ three[1] = x /\ three[2] = y /\ three[3] = z
  <2>1. Len(<<z>>) = 1 /\ <<z>>[1] = z
    OBVIOUS
  <2>2. three \in Seq(P) /\ Len(three) = Len(two) + Len(<<z>>)
        /\ \A i \in 1..Len(two) + Len(<<z>>) : three[i] = IF i <= Len(two) THEN two[i] ELSE <<z>>[i - Len(two)]
    BY <1>1, <1>3, ConcatProperties
  <2> HIDE DEF three
  <2> QED
    BY <1>3, <2>1, <2>2
<1> HIDE DEF three
<1>5. \A i \in 1..3 : <<x, y, z>>[i] = three[i]
  BY <1>2, <1>4
<1>6. <<x, y, z>> = three
  BY <1>2, <1>4, <1>5, SeqEqual
<1> QED
  BY <1>6 DEF three, two, AreThree

LEMMA ListOutcome ==
  ASSUME NEW S, NEW name \in ListBlocks, NEW args
  PROVE  Outcome(S, ListBricks(name, args))
<1>1. name \notin Brackets
  BY DEF ListBlocks, Brackets, LoopNames
<1>2. CASE name = "append:toList:"
  BY <1>1, <1>2, OnlyOutcome, BrickOutcome DEF ListBricks
<1>3. CASE name = "insert:at:ofList:"
  <2> DEFINE two == <<Brick("append:toList:", <<args[1], args[3]>>)>>
             three == <<Brick(name, <<args[1], Position(args[2], args[3]), args[3]>>)>>
  <2>1. Outcome(S, two) /\ Outcome(S, three)
    BY <1>1, BrickOutcome DEF Brackets, LoopNames
  <2> HIDE DEF two, three
  <2>2. ASSUME NEW cond, NEW c PROVE Outcome(S, Only(cond, IF c THEN two ELSE three))
    BY <2>1, OnlyOutcome
  <2> QED
    BY <1>3, <2>2 DEF ListBricks, two, three
<1>4. CASE name = "setLine:ofList:to:"
  BY <1>1, <1>4, OnlyOutcome, BrickOutcome DEF ListBricks
<1>5. CASE name = "deleteLine:ofList:"
  <2> DEFINE delete(i) == Brick(name, <<i, args[2]>>)
             start == Brick("doRepeat", <<LineCount(args[2])>>)
             end == Brick("LoopEnd", <<>>)
             all == <<start, delete(Num("1")), end>>
  <2>1. \A i : Outcome(S, <<delete(i)>>)
    BY <1>1, BrickOutcome
  <2>2. Outcome(S, all)
    <3>1. Matches(start, end) /\ IsPlain(start) /\ IsPlain(end) /\ IsPlain(delete(Num("1"))) /\ IsNeutral(delete(Num("1")))
      BY <1>1, NodeFacts DEF Matches, LoopNames
    <3> DEFINE d == delete(Num("1"))
               P == {start, d, end}
    <3> HIDE DEF delete, start, end, d
    <3>2. Good(<<d>>) /\ <<d>> \in Seq({d})
      BY <3>1, OneGood DEF d
    <3>3. all = <<start>> \o <<d>> \o <<end>>
      <4>1. AreThree(start, d, end)
        BY JoinThree
      <4> QED
        BY <4>1 DEF AreThree, d
    <3>4. Good(all)
      <4> HIDE DEF all
      <4> QED
        BY <3>1, <3>2, <3>3, LoopGood
    <3>5. all \in Seq(S \union P) /\ all # <<>> /\ Last(all) = end
      BY DEF d, Last
    <3> HIDE DEF all
    <3>6. Mixed(S, all)
      BY <3>1, <3>5 DEF Mixed, d
    <3> QED
      BY <3>1, <3>4, <3>5, <3>6 DEF Outcome, Matches
  <2> HIDE DEF all, delete
  <2>3. ASSUME NEW cond, NEW c, NEW d, NEW i, NEW j
        PROVE  Outcome(S, Only(cond, CASE c -> <<delete(i)>> [] d -> all [] OTHER -> <<delete(j)>>))
    <3>1. Outcome(S, CASE c -> <<delete(i)>> [] d -> all [] OTHER -> <<delete(j)>>)
      BY <2>1, <2>2
    <3> QED
      BY <3>1, OnlyOutcome
  <2> QED
    BY <1>5, <2>3 DEF ListBricks, all, delete
<1> QED
  BY <1>2, <1>3, <1>4, <1>5 DEF ListBlocks

LEMMA BroadcastOutcome ==
  ASSUME NEW S, NEW name \in Broadcasts, NEW args
  PROVE  Outcome(S, BroadcastBrick(name, args))
<1>1. name \notin Brackets
  BY DEF Broadcasts, Brackets, LoopNames
<1>2. Outcome(S, Fail)
  BY DEF Outcome
<1> QED
  BY <1>1, <1>2, OnlyOutcome, BrickOutcome, NoteOutcome DEF BroadcastBrick

LEMMA LookOutcome ==
  ASSUME NEW S, NEW args
  PROVE  Outcome(S, SceneBricks(args)) /\ Outcome(S, SceneAndWaitBricks(args)) /\ Outcome(S, LookBricks(args))
<1>1. ASSUME NEW name \in {"startSceneByIndex", "startSceneAndWaitByIndex", "lookLikeByIndex"}, NEW index
      PROVE  Outcome(S, LookByIndex(name, index))
  BY BrickOutcome DEF LookByIndex, Brackets, LoopNames
<1>2. ASSUME NEW name \in {"startScene", "startSceneAndWait", "lookLike:"}, NEW n
      PROVE  Outcome(S, LookByName(name, n))
  BY BrickOutcome, NoteOutcome DEF LookByName, Brackets, LoopNames
<1>3. ASSUME NEW n PROVE Outcome(S, Neighbour(n))
  BY BrickOutcome DEF Neighbour, Brackets, LoopNames
<1>4. Outcome(S, SceneBricks(args))
  BY <1>1, <1>2, <1>3 DEF SceneBricks
<1>5. Outcome(S, SceneAndWaitBricks(args))
  BY <1>1, <1>2, <1>3, OnlyOutcome DEF SceneAndWaitBricks
<1>6. Outcome(S, LookBricks(args))
  BY <1>1, <1>2, OnlyOutcome DEF LookBricks
<1> QED
  BY <1>4, <1>5, <1>6

LEMMA PenOutcome ==
  ASSUME NEW S, NEW args
  PROVE  Outcome(S, PenColor(args)) /\ Outcome(S, PenSize(args))
<1> DEFINE Nice(n) == IsPlain(n) /\ IsNeutral(n) /\ IsBrick(n)
<1>1. ASSUME NEW name, NEW value PROVE Nice(SetVariable(name, value))
  BY NodeFacts DEF SetVariable, Brackets, LoopNames
<1>2. ASSUME NEW x PROVE Nice(Brick("penColor:", x)) /\ Nice(Brick("penSize:", x))
  BY NodeFacts DEF Brackets, LoopNames
<1>3. Outcome(S, PenColor(args))
  <2> DEFINE colors == [i \in 1..3 |-> SetVariable(<<"red", "green", "blue">>[i], Num("channel"))]
             last == Brick("penColor:", <<Num("channel")>>)
             P == {colors[i] : i \in 1..3} \union {last}
  <2>1. \A n \in P : Nice(n)
    BY <1>1, <1>2
  <2>2. colors \in Seq(P) /\ <<last>> \in Seq(P)
    <3> HIDE DEF last
    <3> QED
      OBVIOUS
  <2> HIDE DEF P, colors, last
  <2>3. colors \o <<last>> \in Seq(P) /\ colors \o <<last>> # <<>>
    BY <2>2
  <2>4. Outcome(S, colors \o <<last>>)
    BY <2>1, <2>3, BricksOutcome
  <2> QED
    BY <2>4, NoteOutcome DEF PenColor, colors, last
<1>4. Outcome(S, PenSize(args))
  <2> DEFINE first == SetVariable("pen_size", args[1])
             last == Brick("penSize:", args)
  <2>1. Nice(first) /\ Nice(last)
    BY <1>1, <1>2
  <2> QED
    BY <2>1, PairedOutcome DEF PenSize
<1> QED
  BY <1>3, <1>4

LEMMA SingleOutcome ==
  ASSUME NEW S, NEW name \in SingleHandlers, NEW args
  PROVE  Outcome(S, SingleBricks(name, args))
<1> DEFINE n == args[1]
<1>1. Outcome(S, Fail)
  BY DEF Outcome
<1>2. ASSUME NEW x, NEW y, x \in {"showVariable:", "hideVariable:", "pointTowards:", "gotoSpriteOrMouse:", "createCloneOf", "playSound:",
                           "doPlaySoundAndWait", "setRotationStyle", "stopScripts", "chooseCamera", "camera"}
      PROVE  Outcome(S, <<Brick(x, y)>>) /\ IsNeutral(Brick(x, y))
  BY <1>2, BrickOutcome, NodeFacts DEF Brackets, LoopNames
<1>3. CASE name \in {"startScene", "startSceneAndWait", "lookLike:", "penColor:", "penSize:"}
  BY <1>1, <1>3, LookOutcome, PenOutcome DEF SingleBricks, SingleBrick
<1>4. CASE name \in {"showVariable:", "hideVariable:"}
  <2>1. Outcome(S, ShownVariable(name, n))
    BY <1>2, <1>4, OnlyOutcome DEF ShownVariable
  <2> QED
    BY <1>1, <1>4, <2>1 DEF SingleBricks, SingleBrick
<1>5. CASE name \in {"pointTowards:", "gotoSpriteOrMouse:"}
  <2>1. Outcome(S, TargetBrick(name, n))
    BY <1>2, <1>5, NoteOutcome DEF TargetBrick
  <2> QED
    BY <1>1, <1>5, <2>1 DEF SingleBricks, SingleBrick
<1>6. CASE name = "createCloneOf"
  <2>1. Outcome(S, <<Brick("createCloneOf", <<n>>)>>)
    BY <1>2
  <2>2. IsFormula(n) => ~IsStr(n)
    BY DEF IsFormula, IsStr
  <2>3. IsStr(Str(""))
    BY DEF IsStr, Str, Node
  <2>4. Outcome(S, CloneBrick(n))
    <3>1. CASE IsFormula(n) \/ n = Str("")
      BY <2>2, <2>3, <3>1, NoteOutcome DEF CloneBrick
    <3>2. CASE IsStr(n) /\ n # Str("")
      BY <2>1, <2>2, <3>2 DEF CloneBrick
    <3>3. CASE ~IsFormula(n) /\ ~IsStr(n)
      BY <1>1, <2>3, <3>3 DEF CloneBrick
    <3> QED
      BY <3>1, <3>2, <3>3
  <2> QED
    BY <1>1, <1>6, <2>4 DEF SingleBricks, SingleBrick
<1>7. CASE name \in {"playSound:", "doPlaySoundAndWait"}
  <2>1. Outcome(S, PlayedSound(name, n))
    BY <1>2, <1>7, OnlyOutcome DEF PlayedSound
  <2> QED
    BY <1>1, <1>7, <2>1 DEF SingleBricks, SingleBrick
<1>8. CASE name \in {"setRotationStyle", "stopScripts"}
  <2>1. Outcome(S, <<Brick("setRotationStyle", <<n>>)>>) /\ Outcome(S, <<Brick("stopScripts", <<n>>)>>)
    BY <1>2
  <2>2. Outcome(S, Rotation(n)) /\ Outcome(S, Stop(n))
    BY <2>1, OnlyOutcome DEF Rotation, Stop
  <2> QED
    BY <1>1, <1>8, <2>2 DEF SingleBricks, SingleBrick
<1>9. CASE name = "setVideoState"
  <2> DEFINE first == Brick("chooseCamera", <<>>)
             last == Brick("camera", args)
  <2>1. IsPlain(first) /\ IsNeutral(first) /\ IsBrick(first)
    BY NodeFacts DEF Brackets, LoopNames
  <2>2. IsPlain(last) /\ IsNeutral(last) /\ IsBrick(last)
    BY NodeFacts DEF Brackets, LoopNames
  <2>3. Outcome(S, Only(IsStr(n), <<first, last>>))
    <3> HIDE DEF first, last
    <3> QED
      BY <2>1, <2>2, PairedOutcome
  <2> QED
    BY <1>1, <1>9, <2>3 DEF SingleBricks, SingleBrick
<1> QED
  BY <1>3, <1>4, <1>5, <1>6, <1>7, <1>8, <1>9 DEF SingleHandlers

LEMMA PairOutcome ==
  ASSUME NEW S, NEW name \in PairHandlers, NEW args
  PROVE  Outcome(S, PairBricks(name, args))
<1>1. Outcome(S, Fail)
  BY DEF Outcome
<1>2. \A x : Outcome(S, <<Brick(name, x)>>)
  BY BrickOutcome DEF PairHandlers, Brackets, LoopNames
<1>3. Outcome(S, EffectBrick(name, args))
  BY <1>2, OnlyOutcome, NoteOutcome DEF EffectBrick
<1>4. CASE name \in {"setVar:to:", "changeVar:by:"}
  BY <1>2, <1>4, OnlyOutcome DEF PairBricks
<1>5. CASE name \in {"setGraphicEffect:to:", "changeGraphicEffect:by:"}
  BY <1>1, <1>3, <1>5 DEF PairBricks
<1> QED
  BY <1>4, <1>5 DEF PairHandlers

LEMMA ConversionOutcome ==
  ASSUME NEW S, SoundSet(S), NEW name, NEW args \in Seq(S)
  PROVE  Outcome(S, Conversion(name, args))
<1>1. Outcome(S, EnumFormula(name, args))
  BY EnumOutcome
<1>2. name \in HandledReporters => Outcome(S, ReporterFormula(name, args))
  BY ReporterOutcome
<1>3. name \in DOMAIN PlainBricks => Outcome(S, PlainBrick(name, args))
  BY PlainOutcome
<1>4. name \in LoopNames => Outcome(S, LoopBricks(name, args))
  BY LoopOutcome
<1>5. name \in BranchNames => Outcome(S, BranchBricks(name, args))
  BY BranchOutcome
<1>6. name \in ListBlocks => Outcome(S, ListBricks(name, args))
  BY ListOutcome
<1>7. name \in Broadcasts => Outcome(S, BroadcastBrick(name, args))
  BY BroadcastOutcome
<1>8. name \in SingleHandlers => Outcome(S, SingleBricks(name, args))
  BY SingleOutcome
<1>9. name \in PairHandlers => Outcome(S, PairBricks(name, args))
  BY PairOutcome
<1>10. Outcome(S, <<Null>>) /\ Outcome(S, <<Unmapped(name)>>)
  BY NodeFacts DEF Outcome
<1> QED
  BY <1>1, <1>2, <1>3, <1>4, <1>5, <1>6, <1>7, <1>8, <1>9, <1>10 DEF Conversion

-------------------------------------------------------------------------------
(* What is put on the stack in the place of an element *)

LEMMA PathsAlike ==
  ASSUME NEW s, NEW t, Len(t) = Len(s), Closed(s),
         \A i \in 1..Len(s) : t[i] = s[i] \/ (IsNeutral(s[i]) /\ IsNeutral(t[i]))
  PROVE  Closed(t)
<1>1. SUFFICES ASSUME NEW o \in Seq(Marks)
               PROVE  Leads(o, t, o)
  BY DEF Closed
<1>2. PICK w : IsPath(w, s) /\ w[0] = o /\ w[Len(s)] = o
  BY DEF Closed, Leads
<1>3. ASSUME NEW i \in 1..Len(s)
      PROVE  w[i] = Opened(w[i - 1], t[i])
  <2>1. w[i] = Opened(w[i - 1], s[i])
    BY <1>2 DEF IsPath
  <2>2. CASE t[i] = s[i]
    BY <2>1, <2>2
  <2>3. CASE IsNeutral(s[i]) /\ IsNeutral(t[i])
    BY <2>1, <2>3, NeutralOpened
  <2> QED
    BY <2>2, <2>3
<1>4. IsPath(w, t)
  BY <1>2, <1>3 DEF IsPath
<1> QED
  BY <1>2, <1>4 DEF Leads

\* Several values come before a formula only if they are notes.
Result(S, values) ==
  /\ Mixed(S, values) /\ Good(values) /\ values # <<>>
  /\ IsFormula(Last(values)) => Front(values) \in Seq({Note})

LEMMA NoteResult ==
  ASSUME NEW S
  PROVE  Result(S, <<Note>>)
<1>1. Last(<<Note>>) = Note /\ <<Note>> # <<>>
  BY DEF Last
<1>2. ~IsFormula(Note)
  BY DEF IsFormula, Note, Brick, Node
<1>3. Mixed(S, <<Note>>)
  <2> DEFINE P == {Note}
  <2>1. \A n \in P : IsPlain(n)
    BY NodeFacts
  <2>2. <<Note>> \in Seq(S \union P)
    OBVIOUS
  <2> QED
    BY <2>1, <2>2 DEF Mixed
<1>4. Good(<<Note>>)
  BY NodeFacts, OneGood
<1> QED
  BY <1>1, <1>2, <1>3, <1>4 DEF Result

LEMMA NotesResult ==
  ASSUME NEW S, NEW notes \in Seq({Note}), NEW r, Outcome(S, r), r # Fail
  PROVE  Result(S, notes \o r)
<1>1. \A i \in 1..Len(notes) : IsNeutral(notes[i])
  BY NodeFacts
<1>2. CASE \E n : r = <<n>> /\ IsPlain(n) /\ IsNeutral(n)
  <2>1. PICK n : r = <<n>> /\ IsPlain(n) /\ IsNeutral(n)
    BY <1>2
  <2> DEFINE P == {Note, n}
             values == notes \o <<n>>
  <2>2. notes \in Seq(P) /\ <<n>> \in Seq(P)
    BY SeqMonotonic
  <2>3. \A m \in P : IsPlain(m) /\ IsNeutral(m)
    BY <2>1, NodeFacts
  <2> HIDE DEF P
  <2>4. /\ values \in Seq(P) /\ Len(values) = Len(notes) + 1 /\ Len(notes) \in Nat /\ values[Len(notes) + 1] = n
        /\ \A i \in 1..Len(notes) : values[i] = notes[i]
    BY <2>2
  <2> HIDE DEF values
  <2>5. values # <<>> /\ Front(values) \in Seq({Note})
    <3>1. Front(values) = SubSeq(values, 1, Len(notes))
      <4>1. Len(values) - 1 = Len(notes)
        BY <2>4
      <4> QED
        BY <4>1 DEF Front
    <3>2. \A i \in 1..Len(notes) : values[i] \in {Note}
      BY <2>4
    <3>3. SubSeq(values, 1, Len(notes)) \in Seq({Note})
      BY <2>4, <3>2, SubSeqProperties
    <3> QED
      BY <2>4, <3>1, <3>3
  <2>6. values \in Seq(S \union P)
    BY <2>4, SeqMonotonic
  <2>7. Mixed(S, values)
    BY <2>3, <2>6 DEF Mixed
  <2>8. Good(values)
    <3>1. \A i \in 1..Len(values) : IsNeutral(values[i])
      BY <2>3, <2>4
    <3> QED
      BY <2>4, <3>1, NeutralClosed DEF Good
  <2>9. Result(S, values)
    BY <2>5, <2>7, <2>8 DEF Result
  <2> QED
    BY <2>1, <2>9 DEF values
<1>3. CASE Mixed(S, r) /\ Good(r) /\ r # <<>> /\ IsBrick(Last(r))
  <2>1. PICK P : (\A n \in P : IsPlain(n)) /\ r \in Seq(S \union P)
    BY <1>3 DEF Mixed
  <2> DEFINE Q == P \union {Note}
             T == S \union Q
             values == notes \o r
  <2>2. \A n \in Q : IsPlain(n)
    BY <2>1, NodeFacts
  <2>3. notes \in Seq(T) /\ r \in Seq(T)
    BY <2>1, SeqMonotonic
  <2> HIDE DEF T
  <2>4. values \in Seq(T) /\ values # <<>> /\ values[Len(values)] = r[Len(r)]
    BY <1>3, <2>3
  <2>5. Mixed(S, values)
    <3> HIDE DEF values, Q
    <3> QED
      BY <2>2, <2>4 DEF Mixed, T
  <2>6. Good(values)
    <3>1. Good(notes)
      BY <1>1, NeutralClosed DEF Good
    <3> QED
      BY <1>3, <2>3, <3>1, GoodJoin
  <2>7. ~IsFormula(Last(values))
    <3> HIDE DEF values
    <3> QED
      BY <1>3, <2>4 DEF Last, IsBrick, IsFormula
  <2> HIDE DEF values
  <2>8. Result(S, values)
    BY <2>4, <2>5, <2>6, <2>7 DEF Result
  <2> QED
    BY <2>8 DEF values
<1> QED
  BY <1>2, <1>3 DEF Outcome

LEMMA SoundMore ==
  ASSUME NEW S, SoundSet(S), NEW n, IsPlain(n)
  PROVE  SoundSet(S \union {n})
<1>1. ASSUME NEW m \in S \union {n}
      PROVE  m # LIST /\ (m.k = "list" => m.a \in Seq(S \union {n}) /\ Good(m.a))
  <2>1. CASE m = n
    BY <2>1 DEF IsPlain
  <2>2. CASE m \in S
    BY <2>2, SeqMonotonic DEF SoundSet
  <2> QED
    BY <2>1, <2>2
<1> QED
  BY <1>1 DEF SoundSet

LEMMA BlockResult ==
  ASSUME NEW S, SoundSet(S), NEW name, NEW args \in Seq(S)
  PROVE  Result(S, ConvertedBlock(name, args))
<1> DEFINE count    == Cardinality({i \in DOMAIN args : IsUnmapped(args[i])})
           notes    == [i \in 1..count |-> Note]
           replaced == [i \in DOMAIN args |-> IF IsUnmapped(args[i]) THEN Zero ELSE args[i]]
           result   == Conversion(name, replaced)
           T        == S \union {Zero}
<1>1. notes \in Seq({Note})
  <2>1. count \in Nat
    <3>1. DOMAIN args = 1..Len(args) /\ Len(args) \in Nat
      OBVIOUS
    <3>2. IsFiniteSet(1..Len(args))
      BY <3>1, FS_Interval
    <3>3. {i \in DOMAIN args : IsUnmapped(args[i])} \subseteq 1..Len(args)
      BY <3>1
    <3>4. IsFiniteSet({i \in DOMAIN args : IsUnmapped(args[i])})
      BY <3>2, <3>3, FS_Subset
    <3> QED
      BY <3>4, FS_CardinalityType
  <2> HIDE DEF count
  <2> QED
    BY <2>1
<1>2. replaced \in Seq(T)
  OBVIOUS
<1>3. SoundSet(T)
  BY NodeFacts, SoundMore DEF Zero
<1>4. Outcome(T, result)
  <2> HIDE DEF replaced, T
  <2> QED
    BY <1>2, <1>3, ConversionOutcome
<1>5. Outcome(S, result)
  <2> HIDE DEF result, replaced
  <2>1. Mixed(T, result) => Mixed(S, result)
    <3>1. SUFFICES ASSUME NEW P, \A n \in P : IsPlain(n), result \in Seq(T \union P)
                   PROVE  Mixed(S, result)
      BY DEF Mixed
    <3> DEFINE Q == P \union {Zero}
    <3>2. \A n \in Q : IsPlain(n)
      BY <3>1, NodeFacts DEF Zero
    <3>3. T \union P = S \union Q
      OBVIOUS
    <3>4. result \in Seq(S \union Q)
      BY <3>1, <3>3
    <3> QED
      BY <3>2, <3>4 DEF Mixed
  <2> HIDE DEF T
  <2> QED
    BY <1>4, <2>1 DEF Outcome
<1>6. ConvertedBlock(name, args) = IF result = Fail THEN <<Note>> ELSE notes \o result
  BY DEF ConvertedBlock
<1> HIDE DEF notes, result
<1> QED
  BY <1>1, <1>5, <1>6, NoteResult, NotesResult

LEMMA ListResult ==
  ASSUME NEW S, SoundSet(S), NEW args \in Seq(S), Good(args)
  PROVE  \E b, T : /\ ConvertedList(args) = <<b>> /\ b.k = "list" /\ b \in T
                   /\ S \subseteq T /\ SoundSet(T) /\ Result(T, <<b>>)
<1> DEFINE noted == [i \in DOMAIN args |-> IF IsUnmapped(args[i]) THEN Note ELSE args[i]]
           b == BrickList(noted)
           N == S \union {Note}
           T == N \union {b}
<1>1. noted \in Seq(N) /\ Len(noted) = Len(args) /\ \A i \in 1..Len(args) : noted[i] = IF IsUnmapped(args[i]) THEN Note ELSE args[i]
  OBVIOUS
<1> HIDE DEF noted
<1>2. Good(noted)
  <2>1. CASE HasForeign(args)
    <3>1. PICK i \in 1..Len(args) : IsForeign(args[i])
      BY <2>1 DEF HasForeign
    <3>2. noted[i] = args[i]
      BY <1>1, <3>1 DEF IsForeign
    <3> QED
      BY <1>1, <3>1, <3>2 DEF HasForeign, Good
  <2>2. CASE Closed(args)
    <3>1. \A n : IsUnmapped(n) => IsNeutral(n)
      BY DEF IsUnmapped, IsNeutral, IsBrick
    <3>2. \A i \in 1..Len(args) : noted[i] = args[i] \/ (IsNeutral(args[i]) /\ IsNeutral(noted[i]))
      BY <1>1, <3>1, NodeFacts
    <3> QED
      BY <1>1, <2>2, <3>2, PathsAlike DEF Good
  <2> QED
    BY <2>1, <2>2 DEF Good
<1>3. b.k = "list" /\ b.a = noted
  BY DEF BrickList, Node
<1>4. b # LIST
  BY <1>3 DEF LIST, Str, Node
<1>5. SoundSet(N)
  BY NodeFacts, SoundMore
<1> HIDE DEF b
<1>6. SoundSet(T)
  <2>1. ASSUME NEW m \in T
        PROVE  m # LIST /\ (m.k = "list" => m.a \in Seq(T) /\ Good(m.a))
    <3>1. CASE m = b
      <4>1. noted \in Seq(T)
        BY <1>1, SeqMonotonic
      <4> QED
        BY <1>2, <1>3, <1>4, <3>1, <4>1
    <3>2. CASE m \in N
      BY <1>5, <3>2, SeqMonotonic DEF SoundSet
    <3> QED
      BY <3>1, <3>2
  <2> QED
    BY <2>1 DEF SoundSet
<1>7. Result(T, <<b>>)
  <2>1. <<b>> \in Seq(T) /\ <<b>> # <<>> /\ Last(<<b>>) = b
    BY DEF Last
  <2>2. Mixed(T, <<b>>)
    <3>1. \A n \in {} : IsPlain(n)
      OBVIOUS
    <3>2. T \union {} = T
      OBVIOUS
    <3> HIDE DEF T
    <3>3. <<b>> \in Seq(T \union {})
      BY <2>1, <3>2
    <3> QED
      BY <3>1, <3>3 DEF Mixed
  <2>3. ~IsFormula(b) /\ IsNeutral(b)
    BY <1>3 DEF IsFormula, IsNeutral, IsBrick
  <2> HIDE DEF T
  <2> QED
    BY <2>1, <2>2, <2>3, OneGood DEF Result
<1>8. ConvertedList(args) = <<b>>
  BY DEF ConvertedList, b, noted
<1>9. S \subseteq T /\ b \in T
  OBVIOUS
<1> HIDE DEF T
<1> QED
  BY <1>3, <1>6, <1>7, <1>8, <1>9

-------------------------------------------------------------------------------
(* The stack: for each element that is being visited its name, and above   *)
(* it what its children became so far                                      *)

Entries(C) == [do : {"enter", "visit"}, of : C]
IsName(n) == IsBlockList(n) \/ IsBlock(n)
Segment(S, s, i, j) == (\A l \in i..j : s[l] \in S) /\ Good(SubSeq(s, i, j))

\* at[k] is the place of the name of the k-th element of t, if it is to be visited.
Frame(S, at, t, s, k) ==
  /\ t[k].do = "enter" => at[k] = at[k + 1]
  /\ t[k].do = "visit" =>
       /\ at[k + 1] < at[k] /\ s[at[k]] = NameOf(t[k].of) /\ Segment(S, s, at[k + 1] + 1, at[k] - 1)
       /\ IsName(t[k].of) \/ (k = 1 /\ at[k] = Len(s))
Frames(S, at, t, s) ==
  /\ at \in [1..Len(t) + 1 -> 0..Len(s)] /\ at[Len(t) + 1] = 0
  /\ \A i, j \in 1..Len(t) + 1 : i <= j => at[j] <= at[i]
  /\ Segment(S, s, at[1] + 1, Len(s))
  /\ \A k \in 1..Len(t) : Frame(S, at, t, s, k)

LEMMA SegmentMore ==
  ASSUME NEW S, NEW T, S \subseteq T, NEW s, NEW s2, NEW i \in Int, NEW j \in Int,
         Segment(S, s, i, j), \A l \in i..j : s2[l] = s[l]
  PROVE  Segment(T, s2, i, j)
<1>1. SubSeq(s, i, j) \in Seq(S) /\ Len(SubSeq(s, i, j)) = (IF i <= j THEN j - i + 1 ELSE 0)
      /\ \A l \in 1..j - i + 1 : SubSeq(s, i, j)[l] = s[i + l - 1]
  BY SubSeqProperties DEF Segment
<1>2. SubSeq(s2, i, j) \in Seq(S) /\ Len(SubSeq(s2, i, j)) = (IF i <= j THEN j - i + 1 ELSE 0)
      /\ \A l \in 1..j - i + 1 : SubSeq(s2, i, j)[l] = s2[i + l - 1]
  <2>1. \A l \in i..j : s2[l] \in S
    BY DEF Segment
  <2> QED
    BY <2>1, SubSeqProperties
<1>3. \A l \in 1..Len(SubSeq(s, i, j)) : SubSeq(s, i, j)[l] = SubSeq(s2, i, j)[l]
  <2>1. ASSUME NEW l \in 1..Len(SubSeq(s, i, j))
        PROVE  l \in 1..j - i + 1 /\ i + l - 1 \in i..j
    BY <1>1
  <2> QED
    BY <1>1, <1>2, <2>1
<1>4. SubSeq(s, i, j) = SubSeq(s2, i, j)
  BY <1>1, <1>2, <1>3, SeqEqual
<1>5. \A l \in i..j : s2[l] \in T
  BY DEF Segment
<1> QED
  BY <1>4, <1>5 DEF Segment

LEMMA Names ==
  ASSUME NEW C, IsCode(C), NEW n \in C
  PROVE  /\ NameOf(n) \in C \union {LIST}
         /\ Children(n) \in Seq(C)
         /\ ~IsName(n) => Children(n) = <<>>
         /\ IsBlockList(n) => NameOf(n) = LIST
         /\ ~IsBlockList(n) => NameOf(n) \in C
         /\ IsBlock(n) => IsForeign(NameOf(n))
         /\ LIST \notin C /\ n.k # "list" /\ IsPlain(n) /\ IsNeutral(n)
<1>1. n.k \in CodeKinds /\ n.a \in Seq(C) /\ n # LIST
  BY DEF IsCode
<1>2. ASSUME IsBlock(n)
      PROVE  First(n) \in C /\ Args(n) \in Seq(C) /\ IsForeign(First(n))
  <2>1. n.a # <<>>
    BY <1>2 DEF IsBlock, Empty
  <2>2. n.a[1] \in C /\ Tail(n.a) \in Seq(C)
    BY <1>1, <2>1
  <2>3. First(n) # Str("") /\ IsStr(First(n))
    BY <1>2 DEF IsCode, IsBlock
  <2>4. IsForeign(First(n))
    <3>1. Null.k = "null" /\ False.k = "bool" /\ Num("0").k = "num" /\ BrickList(<<>>).k = "list"
      BY DEF Null, False, Num, BrickList, Node
    <3>2. ~IsIgnored(First(n))
      BY <2>3, <3>1 DEF IsIgnored, IsStr
    <3> QED
      BY <2>3, <3>2 DEF IsForeign, IsStr, IsBrick, IsUnmapped
  <2> QED
    BY <2>2, <2>4 DEF First, Args
<1>3. IsBlockList(n) => ~IsBlock(n)
  BY DEF IsBlockList, IsBlock, IsLst, IsStr
<1>4. LIST \notin C /\ n.k # "list" /\ IsPlain(n) /\ IsNeutral(n)
  BY <1>1 DEF IsCode, CodeKinds, IsPlain, IsNeutral, IsBrick
<1>5. CASE IsBlockList(n)
  BY <1>1, <1>3, <1>4, <1>5 DEF NameOf, Children, IsName
<1>6. CASE IsBlock(n)
  BY <1>2, <1>3, <1>4, <1>6 DEF NameOf, Children, IsName
<1>7. CASE ~IsName(n)
  BY <1>4, <1>7 DEF NameOf, Children, IsName
<1> QED
  BY <1>5, <1>6, <1>7 DEF IsName

LEMMA Shifted ==
  ASSUME NEW m \in Nat, NEW n \in Nat, NEW k \in 1..m + n, m + 1 < k
  PROVE  /\ k \in m + 2..m + n /\ k \in m + 2..m + n + 1 /\ k + 1 \in m + 2..m + n + 1
         /\ k - m \in 1..n /\ k - m # 1 /\ (k + 1) - m = (k - m) + 1 /\ k - m \in 1..n + 1 /\ (k - m) + 1 \in 1..n + 1
OBVIOUS

LEMMA EnterFrames ==
  ASSUME NEW C, IsCode(C), NEW S, NEW t \in Seq(Entries(C)), t # <<>>, t[1].do = "enter",
         NEW s \in Seq(S \union {LIST}), NEW at, Frames(S, at, t, s), NEW c \in Seq(Entries(C)),
         C \subseteq S,
         \A i \in 1..Len(c) : c[i].do = "enter", ~IsName(t[1].of) => c = <<>>
  PROVE  LET s2 == Append(s, NameOf(t[1].of))
             t2 == c \o <<[do |-> "visit", of |-> t[1].of]>> \o Tail(t)
         IN /\ s2 \in Seq(S \union {LIST})
            /\ t2 \in Seq(Entries(C)) /\ t2 # <<>> /\ t2[Len(t2)].of = t[Len(t)].of
            /\ \E at2 : Frames(S, at2, t2, s2)
<1> DEFINE n  == t[1].of
           v  == [do |-> "visit", of |-> n]
           s2 == Append(s, NameOf(n))
           c2 == c \o <<v>>
           t2 == c2 \o Tail(t)
           m  == Len(c)
           at2 == [k \in 1..m + Len(t) + 1 |-> IF k <= m + 1 THEN Len(s) + 1 ELSE at[k - m]]
<1>1. n \in C /\ v \in Entries(C)
  <2>1. t[1] \in Entries(C)
    OBVIOUS
  <2> QED
    BY <2>1 DEF Entries
<1>2. /\ s2 \in Seq(S \union {LIST}) /\ Len(s2) = Len(s) + 1 /\ Len(s) \in Nat
      /\ s2[Len(s) + 1] = NameOf(n) /\ \A i \in 1..Len(s) : s2[i] = s[i]
  <2>1. NameOf(n) \in S \union {LIST}
    BY <1>1, Names
  <2> QED
    BY <2>1
<1> HIDE DEF s2, v, n
<1>3. c2 \in Seq(Entries(C)) /\ Len(c2) = m + 1 /\ m \in Nat /\ c2[m + 1] = v /\ \A i \in 1..m : c2[i] = c[i]
  BY <1>1
<1>4. Tail(t) \in Seq(Entries(C)) /\ Len(t) \in Nat \ {0} /\ Len(Tail(t)) = Len(t) - 1
      /\ \A i \in 1..Len(t) - 1 : Tail(t)[i] = t[i + 1]
  BY HeadTailProperties
<1> HIDE DEF c2
<1>5. /\ t2 \in Seq(Entries(C)) /\ Len(t2) = m + Len(t) /\ t2[m + 1] = v
      /\ (\A i \in 1..m : t2[i] = c[i]) /\ \A i \in m + 2..m + Len(t) : t2[i] = t[i - m]
  <2>1. t2 \in Seq(Entries(C)) /\ Len(t2) = m + 1 + (Len(t) - 1)
        /\ \A i \in 1..m + 1 + (Len(t) - 1) : t2[i] = IF i <= m + 1 THEN c2[i] ELSE Tail(t)[i - (m + 1)]
    <3>1. t2 \in Seq(Entries(C)) /\ Len(t2) = Len(c2) + Len(Tail(t))
          /\ \A i \in 1..Len(c2) + Len(Tail(t)) : t2[i] = IF i <= Len(c2) THEN c2[i] ELSE Tail(t)[i - Len(c2)]
      BY <1>3, <1>4, ConcatProperties
    <3> HIDE DEF t2, m
    <3> QED
      BY <1>3, <1>4, <3>1
  <2> HIDE DEF t2, m
  <2>2. ASSUME NEW i \in m + 2..m + Len(t)
        PROVE  t2[i] = t[i - m]
    <3>1. i \in 1..m + 1 + (Len(t) - 1) /\ ~(i <= m + 1) /\ i - (m + 1) \in 1..Len(t) - 1 /\ (i - (m + 1)) + 1 = i - m
      BY <1>3, <1>4
    <3> QED
      BY <1>4, <2>1, <3>1
  <2>3. \A i \in 1..m : t2[i] = c[i]
    BY <1>3, <1>4, <2>1
  <2>4. t2[m + 1] = v /\ Len(t2) = m + Len(t)
    BY <1>3, <1>4, <2>1
  <2> QED
    BY <2>1, <2>2, <2>3, <2>4
<1>6. t2 # <<>> /\ t2[Len(t2)].of = t[Len(t)].of
  <2> HIDE DEF t2, m
  <2>1. t2 # <<>>
    BY <1>3, <1>4, <1>5
  <2>2. CASE Len(t) = 1
    <3>1. Len(t2) = m + 1 /\ v.of = n
      BY <1>3, <1>5, <2>2 DEF v
    <3>2. t2[Len(t2)] = v
      BY <1>5, <3>1
    <3>3. t[Len(t)] = t[1]
      BY <2>2
    <3> QED
      BY <2>1, <3>1, <3>2, <3>3 DEF n
  <2>3. CASE Len(t) # 1
    <3>1. m + Len(t) \in m + 2..m + Len(t) /\ (m + Len(t)) - m = Len(t)
      BY <1>3, <1>4, <2>3
    <3>2. t2[m + Len(t)] = t[(m + Len(t)) - m]
      BY <1>5, <3>1
    <3>3. t2[Len(t2)] = t[Len(t)]
      BY <1>5, <3>1, <3>2
    <3> QED
      BY <2>1, <3>3
  <2> QED
    BY <2>1, <2>2, <2>3
<1>7. Frames(S, at2, t2, s2)
  <2> HIDE DEF t2, m
  <2>0. /\ at \in [1..Len(t) + 1 -> 0..Len(s)] /\ at[Len(t) + 1] = 0
        /\ \A i, j \in 1..Len(t) + 1 : i <= j => at[j] <= at[i]
        /\ Segment(S, s, at[1] + 1, Len(s))
        /\ \A k \in 1..Len(t) : Frame(S, at, t, s, k)
    BY DEF Frames
  <2>1. at[1] = at[2] /\ at[1] \in 0..Len(s)
    <3>1. 1 \in 1..Len(t) /\ 1 \in 1..Len(t) + 1
      BY <1>4
    <3>2. Frame(S, at, t, s, 1)
      BY <2>0, <3>1
    <3> QED
      BY <2>0, <3>1, <3>2 DEF Frame
  <2>2. /\ (\A k \in 1..m + 1 : at2[k] = Len(s) + 1)
        /\ \A k \in m + 2..m + Len(t) + 1 : at2[k] = at[k - m] /\ k - m \in 2..Len(t) + 1
    <3>1. \A k \in 1..m + 1 : k \in 1..m + Len(t) + 1 /\ k <= m + 1
      BY <1>3, <1>4
    <3>2. \A k \in m + 2..m + Len(t) + 1 : k \in 1..m + Len(t) + 1 /\ ~(k <= m + 1) /\ k - m \in 2..Len(t) + 1
      BY <1>3, <1>4
    <3> QED
      BY <3>1, <3>2
  <2>3. at2 \in [1..Len(t2) + 1 -> 0..Len(s2)] /\ at2[Len(t2) + 1] = 0
    <3>1. ASSUME NEW k \in 1..m + Len(t) + 1
          PROVE  (IF k <= m + 1 THEN Len(s) + 1 ELSE at[k - m]) \in 0..Len(s) + 1
      <4>1. ~(k <= m + 1) => k - m \in 1..Len(t) + 1
        BY <1>3, <1>4
      <4>2. ASSUME NEW l \in 1..Len(t) + 1
            PROVE  at[l] \in 0..Len(s) + 1
        <5>1. at[l] \in 0..Len(s)
          BY <2>0
        <5> QED
          BY <1>2, <5>1
      <4> QED
        BY <1>2, <4>1, <4>2
    <3>2. at2 \in [1..m + Len(t) + 1 -> 0..Len(s) + 1]
      BY <3>1
    <3>3. m + Len(t) + 1 \in m + 2..m + Len(t) + 1 /\ (m + Len(t) + 1) - m = Len(t) + 1
      BY <1>3, <1>4
    <3> HIDE DEF at2
    <3> QED
      BY <1>2, <1>5, <2>0, <2>2, <3>2, <3>3
  <2> HIDE DEF at2
  <2>4. ASSUME NEW i \in 1..Len(t2) + 1, NEW j \in 1..Len(t2) + 1, i <= j
        PROVE  at2[j] <= at2[i]
    <3>1. CASE j <= m + 1
      <4>1. i \in 1..m + 1 /\ j \in 1..m + 1
        BY <1>3, <1>5, <2>4, <3>1
      <4> QED
        BY <1>2, <2>2, <4>1
    <3>2. CASE i <= m + 1 /\ m + 1 < j
      <4>1. i \in 1..m + 1 /\ j \in m + 2..m + Len(t) + 1
        BY <1>3, <1>4, <1>5, <3>2
      <4>2. at2[j] \in 0..Len(s)
        BY <1>2, <2>0, <2>2, <4>1
      <4> QED
        BY <1>2, <2>2, <4>1, <4>2
    <3>3. CASE m + 1 < i
      <4>1. i \in m + 2..m + Len(t) + 1 /\ j \in m + 2..m + Len(t) + 1 /\ i - m <= j - m
        BY <1>3, <1>4, <1>5, <2>4, <3>3
      <4>2. i - m \in 1..Len(t) + 1 /\ j - m \in 1..Len(t) + 1
        BY <1>3, <1>4, <4>1
      <4> QED
        BY <2>0, <2>2, <4>1, <4>2
    <3> QED
      BY <1>3, <1>5, <3>1, <3>2, <3>3
  <2>5. Segment(S, s2, at2[1] + 1, Len(s2))
    <3>1. at2[1] = Len(s) + 1
      BY <1>3, <2>2
    <3>2. SubSeq(s2, at2[1] + 1, Len(s2)) = <<>>
      BY <1>2, <3>1, SubSeqEmpty
    <3>3. \A l \in at2[1] + 1..Len(s2) : FALSE
      BY <1>2, <3>1
    <3>4. Good(SubSeq(s2, at2[1] + 1, Len(s2)))
      BY <3>2, EmptyGood
    <3> QED
      BY <3>3, <3>4 DEF Segment
  <2>6. ASSUME NEW k \in 1..Len(t2)
        PROVE  Frame(S, at2, t2, s2, k)
    <3>1. CASE k <= m
      <4>1. k \in 1..m /\ k \in 1..m + 1 /\ k + 1 \in 1..m + 1
        BY <1>3, <1>5, <3>1
      <4>2. t2[k].do = "enter"
        BY <1>5, <4>1 DEF m
      <4> QED
        BY <2>2, <4>1, <4>2 DEF Frame
    <3>2. CASE k = m + 1
      <4>1. k \in 1..m + 1 /\ k + 1 \in m + 2..m + Len(t) + 1 /\ (k + 1) - m = 2
        BY <1>3, <1>4, <3>2
      <4>2. at2[k] = Len(s) + 1 /\ at2[k + 1] = at[2]
        BY <2>2, <4>1
      <4>3. t2[k] = v /\ v.do = "visit" /\ v.of = n
        BY <1>5, <3>2 DEF v
      <4>4. at2[k] - 1 = Len(s)
        BY <1>2, <4>2
      <4>5. Segment(S, s2, at[1] + 1, Len(s))
        <5>1. \A l \in at[1] + 1..Len(s) : s2[l] = s[l]
          BY <1>2, <2>1
        <5>2. at[1] + 1 \in Int /\ Len(s) \in Int
          BY <1>2, <2>1
        <5> QED
          BY <2>0, <5>1, <5>2, SegmentMore
      <4>6. Segment(S, s2, at2[k + 1] + 1, at2[k] - 1)
        BY <2>1, <4>2, <4>4, <4>5
      <4>7. at2[k + 1] < at2[k] /\ s2[at2[k]] = NameOf(n) /\ at2[k] = Len(s2)
        BY <1>2, <2>1, <4>2
      <4>8. ~IsName(n) => k = 1
        <5>1. ~IsName(n) => c = <<>>
          BY DEF n
        <5>2. c = <<>> => m = 0
          BY DEF m
        <5> QED
          BY <3>2, <5>1, <5>2
      <4> QED
        BY <4>3, <4>6, <4>7, <4>8 DEF Frame
    <3>3. CASE m + 1 < k
      <4> DEFINE l == k - m
      <4>1. k \in m + 2..m + Len(t) /\ k \in m + 2..m + Len(t) + 1 /\ k + 1 \in m + 2..m + Len(t) + 1
            /\ l \in 1..Len(t) /\ l # 1 /\ (k + 1) - m = l + 1 /\ l \in 1..Len(t) + 1 /\ l + 1 \in 1..Len(t) + 1
        <5>1. k \in 1..m + Len(t) /\ m \in Nat /\ Len(t) \in Nat
          BY <1>3, <1>4, <1>5
        <5> QED
          BY <3>3, <5>1, Shifted
      <4>2. at2[k] = at[l] /\ at2[k + 1] = at[l + 1] /\ t2[k] = t[l]
        BY <1>5, <2>2, <4>1
      <4> HIDE DEF l
      <4>3. Frame(S, at, t, s, l) /\ at[l] \in 0..Len(s) /\ at[l + 1] \in 0..Len(s)
        BY <2>0, <4>1
      <4>4. CASE t[l].do = "enter"
        BY <4>2, <4>3, <4>4 DEF Frame
      <4>5. CASE t[l].do = "visit"
        <5>1. at[l + 1] < at[l] /\ s[at[l]] = NameOf(t[l].of) /\ Segment(S, s, at[l + 1] + 1, at[l] - 1) /\ IsName(t[l].of)
          BY <4>1, <4>3, <4>5 DEF Frame
        <5> DEFINE a == at[l]
                   b == at[l + 1]
        <5>0. a \in 0..Len(s) /\ b \in 0..Len(s) /\ b < a
          BY <4>3, <5>1
        <5> HIDE DEF a, b
        <5>2. a \in 1..Len(s) /\ a - 1 \in Int /\ b + 1 \in Int /\ \A i \in b + 1..a - 1 : i \in 1..Len(s)
          BY <1>2, <5>0
        <5>3. Segment(S, s2, b + 1, a - 1)
          <6>1. Segment(S, s, b + 1, a - 1)
            BY <5>1 DEF a, b
          <6>2. \A i \in b + 1..a - 1 : s2[i] = s[i]
            BY <1>2, <5>2
          <6> QED
            BY <5>2, <6>1, <6>2, SegmentMore
        <5>4. s2[at[l]] = s[at[l]]
          BY <1>2, <5>2 DEF a
        <5> QED
          BY <4>2, <4>5, <5>1, <5>3, <5>4 DEF Frame, a, b
      <4> QED
        BY <4>2, <4>4, <4>5 DEF Frame
    <3> QED
      BY <1>3, <1>5, <3>1, <3>2, <3>3
  <2> QED
    BY <2>3, <2>4, <2>5, <2>6 DEF Frames
<1>8. \E at3 : Frames(S, at3, t2, s2)
  <2> HIDE DEF t2, at2
  <2> QED
    BY <1>7
<1>9. s2 \in Seq(S \union {LIST})
  BY <1>2
<1> QED
  BY <1>5, <1>6, <1>8, <1>9, Zenon DEF t2, c2, s2, v, n

LEMMA VisitArguments ==
  ASSUME NEW C, IsCode(C), NEW S, C \subseteq S, SoundSet(S), NEW t \in Seq(Entries(C)), t # <<>>, t[1].do = "visit",
         NEW s \in Seq(S \union {LIST}), NEW at, Frames(S, at, t, s),
         NEW p \in Nat, at[1] <= p, p <= Len(s), s[p] = NameOf(t[1].of)
  PROVE  /\ SubSeq(s, p + 1, Len(s)) \in Seq(S)
         /\ IsBlockList(t[1].of) => Good(SubSeq(s, p + 1, Len(s)))
         /\ at[2] < p /\ Segment(S, s, at[2] + 1, p - 1)
<1> DEFINE n == t[1].of
           a == at[1]
           b == at[2]
<1>1. Len(t) \in Nat \ {0} /\ Len(s) \in Nat /\ n \in C
  <2>1. t[1] \in Entries(C) /\ Len(t) \in Nat \ {0} /\ Len(s) \in Nat
    OBVIOUS
  <2> QED
    BY <2>1 DEF Entries
<1>2. /\ at \in [1..Len(t) + 1 -> 0..Len(s)] /\ Segment(S, s, a + 1, Len(s))
      /\ \A k \in 1..Len(t) : Frame(S, at, t, s, k)
  BY DEF Frames
<1>3. a \in 0..Len(s) /\ b \in 0..Len(s)
  BY <1>1, <1>2
<1>4. b < a /\ s[a] = NameOf(n) /\ Segment(S, s, b + 1, a - 1) /\ (IsName(n) \/ a = Len(s))
  <2>1. 1 \in 1..Len(t)
    BY <1>1
  <2>2. Frame(S, at, t, s, 1)
    BY <1>2, <2>1
  <2> QED
    BY <2>2 DEF Frame
<1>5. a <= p /\ p <= Len(s) /\ s[p] = NameOf(n) /\ LIST \notin S
  BY DEF SoundSet
<1> HIDE DEF a, b, n
<1>6. SubSeq(s, p + 1, Len(s)) \in Seq(S) /\ b < p
  <2>1. \A l \in p + 1..Len(s) : s[l] \in S
    BY <1>1, <1>2, <1>3, <1>5 DEF Segment
  <2>2. p + 1 \in Int /\ Len(s) \in Int
    BY <1>1
  <2> QED
    BY <1>3, <1>4, <1>5, <2>1, <2>2, SubSeqProperties
<1>7. CASE p = a
  BY <1>2, <1>4, <1>6, <1>7 DEF Segment, a, b
<1>8. CASE p # a
  <2>1. a < p /\ p \in a + 1..Len(s)
    BY <1>1, <1>3, <1>5, <1>8
  <2>2. NameOf(n) \in S /\ IsName(n)
    BY <1>1, <1>2, <1>3, <1>4, <1>5, <2>1 DEF Segment
  <2>3. ~IsBlockList(n) /\ IsForeign(NameOf(n))
    BY <1>1, <1>5, <2>2, Names DEF IsName
  <2>4. ASSUME NEW l \in b + 1..p - 1
        PROVE  s[l] \in S
    <3>1. CASE l < a
      <4>1. l \in b + 1..a - 1
        BY <1>3, <3>1
      <4> QED
        BY <1>4, <4>1 DEF Segment
    <3>2. CASE l = a
      BY <1>4, <2>2, <3>2
    <3>3. CASE l > a
      <4>1. l \in a + 1..Len(s)
        BY <1>1, <1>3, <1>5, <3>3
      <4> QED
        BY <1>2, <4>1 DEF Segment
    <3> QED
      BY <1>3, <3>1, <3>2, <3>3
  <2> DEFINE r == SubSeq(s, b + 1, p - 1)
  <2>5. Len(r) = p - 1 - b /\ \A l \in 1..p - 1 - b : r[l] = s[b + l]
    <3>1. b + 1 \in Int /\ p - 1 \in Int /\ b + 1 <= p - 1 /\ (p - 1) - (b + 1) + 1 = p - 1 - b
      <4>1. a \in Int /\ b \in Int /\ b < a /\ a < p
        BY <1>1, <1>3, <1>4, <2>1
      <4> QED
        BY <4>1
    <3>2. Len(r) = (p - 1) - (b + 1) + 1 /\ \A l \in 1..(p - 1) - (b + 1) + 1 : r[l] = s[(b + 1) + l - 1]
      BY <2>4, <3>1, SubSeqProperties
    <3> HIDE DEF r
    <3>3. \A l \in 1..p - 1 - b : (b + 1) + l - 1 = b + l
      BY <1>3
    <3> QED
      BY <3>1, <3>2, <3>3
  <2> HIDE DEF r
  <2>6. a - b \in 1..Len(r) /\ r[a - b] = s[a]
    <3>1. a \in Int /\ b \in Int /\ b < a /\ a < p
      BY <1>1, <1>3, <1>4, <2>1
    <3>2. a - b \in 1..p - 1 - b /\ b + (a - b) = a
      BY <3>1
    <3> QED
      BY <2>5, <3>2
  <2>7. Good(r)
    BY <1>4, <2>3, <2>6 DEF Good, HasForeign
  <2>8. Segment(S, s, b + 1, p - 1)
    BY <2>4, <2>7 DEF Segment, r
  <2> QED
    BY <1>6, <2>3, <2>8 DEF b, n
<1> QED
  BY <1>7, <1>8

LEMMA ReplaceFrames ==
  ASSUME NEW C, NEW S, NEW T, S \subseteq T, NEW t \in Seq(Entries(C)), t # <<>>,
         NEW s \in Seq(S \union {LIST}), NEW at, Frames(S, at, t, s),
         NEW p \in Nat, at[2] < p, p <= Len(s), Segment(S, s, at[2] + 1, p - 1),
         NEW added \in Seq(T), Good(added)
  PROVE  /\ SubSeq(s, 1, p - 1) \o added \in Seq(T \union {LIST})
         /\ \E at2 : Frames(T, at2, Tail(t), SubSeq(s, 1, p - 1) \o added)
<1> DEFINE below == SubSeq(s, 1, p - 1)
           s2 == below \o added
           t2 == Tail(t)
           at2 == [k \in 1..Len(t) |-> at[k + 1]]
           U == T \union {LIST}
           b == at[2]
<1>1. t2 \in Seq(Entries(C)) /\ Len(t) \in Nat \ {0} /\ Len(t2) = Len(t) - 1 /\ Len(s) \in Nat
      /\ \A i \in 1..Len(t) - 1 : t2[i] = t[i + 1]
  BY HeadTailProperties
<1> HIDE DEF t2
<1>2. /\ at \in [1..Len(t) + 1 -> 0..Len(s)] /\ at[Len(t) + 1] = 0
      /\ \A i, j \in 1..Len(t) + 1 : i <= j => at[j] <= at[i]
      /\ \A k \in 1..Len(t) : Frame(S, at, t, s, k)
  BY DEF Frames
<1>3. b \in Nat /\ b < p /\ p <= Len(s) /\ Segment(S, s, b + 1, p - 1)
  BY <1>1, <1>2
<1> HIDE DEF b
<1>4. below \in Seq(U) /\ Len(below) = p - 1 /\ \A i \in 1..p - 1 : below[i] = s[i]
  <2>1. \A i \in 1..p - 1 : s[i] \in U
    <3>1. \A i \in 1..p - 1 : i \in 1..Len(s)
      BY <1>1, <1>3
    <3> QED
      BY <3>1
  <2>2. p - 1 \in Nat /\ 1 \in Int /\ (p - 1) - 1 + 1 = p - 1
    BY <1>3
  <2> HIDE DEF U
  <2>3. below \in Seq(U) /\ Len(below) = (IF 1 <= p - 1 THEN (p - 1) - 1 + 1 ELSE 0) /\ \A i \in 1..(p - 1) - 1 + 1 : below[i] = s[1 + i - 1]
    BY <2>1, <2>2, SubSeqProperties
  <2> HIDE DEF below
  <2>4. Len(below) = p - 1
    BY <2>2, <2>3
  <2>5. ASSUME NEW i \in 1..p - 1 PROVE below[i] = s[i]
    BY <2>2, <2>3
  <2> QED
    BY <2>3, <2>4, <2>5
<1>5. added \in Seq(U)
  BY SeqMonotonic
<1> HIDE DEF below, U
<1>6. s2 \in Seq(U) /\ Len(s2) = p - 1 + Len(added) /\ Len(added) \in Nat
      /\ (\A i \in 1..p - 1 : s2[i] = s[i]) /\ \A i \in p..p - 1 + Len(added) : s2[i] = added[i - (p - 1)]
  <2>1. s2 \in Seq(U) /\ Len(s2) = Len(below) + Len(added) /\ Len(added) \in Nat
        /\ \A i \in 1..Len(below) + Len(added) : s2[i] = IF i <= Len(below) THEN below[i] ELSE added[i - Len(below)]
    <3>1. Len(added) \in Nat
      OBVIOUS
    <3>2. below \in Seq(U)
      BY <1>4
    <3> QED
      BY <1>5, <3>1, <3>2, ConcatProperties
  <2> HIDE DEF s2
  <2>2. ASSUME NEW i \in 1..p - 1 PROVE s2[i] = s[i]
    BY <1>3, <1>4, <2>1, <2>2
  <2>3. ASSUME NEW i \in p..p - 1 + Len(added) PROVE s2[i] = added[i - (p - 1)]
    BY <1>3, <1>4, <2>1, <2>3
  <2> QED
    BY <1>4, <2>1, <2>2, <2>3
<1>7. s2 = below \o added
  OBVIOUS
<1> HIDE DEF s2
<1>8. Segment(T, s2, b + 1, Len(s2))
  <2>1. ASSUME NEW l \in b + 1..Len(s2)
        PROVE  s2[l] \in T
    <3>1. CASE l <= p - 1
      <4>1. l \in b + 1..p - 1 /\ l \in 1..p - 1
        BY <1>3, <3>1
      <4> QED
        BY <1>3, <1>6, <4>1 DEF Segment
    <3>2. CASE ~(l <= p - 1)
      <4>1. l \in p..p - 1 + Len(added) /\ l - (p - 1) \in 1..Len(added)
        BY <1>3, <1>6, <3>2
      <4> QED
        BY <1>6, <4>1
    <3> QED
      BY <3>1, <3>2
  <2> DEFINE r == SubSeq(s2, b + 1, p - 1)
             q == SubSeq(s2, b + 1, Len(s2))
  <2>2. Segment(T, s2, b + 1, p - 1)
    <3>1. \A l \in b + 1..p - 1 : s2[l] = s[l]
      BY <1>3, <1>6
    <3>2. b + 1 \in Int /\ p - 1 \in Int
      BY <1>3
    <3> QED
      BY <1>3, <3>1, <3>2, SegmentMore
  <2>3. r \in Seq(T) /\ Good(r) /\ Len(r) = p - 1 - b /\ \A l \in 1..p - 1 - b : r[l] = s2[b + l]
    <3>1. b + 1 \in Int /\ p - 1 \in Int /\ (p - 1) - (b + 1) + 1 = p - 1 - b /\ p - 1 - b \in Nat
          /\ \A l \in b + 1..p - 1 : s2[l] \in T
      BY <1>3, <2>2 DEF Segment
    <3>2. /\ r \in Seq(T) /\ Len(r) = IF b + 1 <= p - 1 THEN (p - 1) - (b + 1) + 1 ELSE 0
          /\ \A l \in 1..(p - 1) - (b + 1) + 1 : r[l] = s2[(b + 1) + l - 1]
      BY <3>1, SubSeqProperties
    <3>3. Good(r)
      BY <2>2 DEF Segment
    <3> HIDE DEF r
    <3>4. Len(r) = p - 1 - b
      BY <1>3, <3>1, <3>2
    <3>5. ASSUME NEW l \in 1..p - 1 - b PROVE r[l] = s2[b + l]
      <4>1. (b + 1) + l - 1 = b + l
        BY <1>3
      <4> QED
        BY <3>1, <3>2, <4>1
    <3> QED
      BY <3>2, <3>3, <3>4, <3>5
  <2>4. q \in Seq(T) /\ Len(q) = Len(s2) - b /\ \A l \in 1..Len(s2) - b : q[l] = s2[b + l]
    <3>1. b + 1 \in Int /\ Len(s2) \in Int /\ Len(s2) - (b + 1) + 1 = Len(s2) - b /\ Len(s2) - b \in Nat
          /\ \A l \in b + 1..Len(s2) : s2[l] \in T
      BY <1>3, <1>6, <2>1
    <3>2. /\ q \in Seq(T) /\ Len(q) = IF b + 1 <= Len(s2) THEN Len(s2) - (b + 1) + 1 ELSE 0
          /\ \A l \in 1..Len(s2) - (b + 1) + 1 : q[l] = s2[(b + 1) + l - 1]
      BY <3>1, SubSeqProperties
    <3> HIDE DEF q
    <3>4. Len(q) = Len(s2) - b
      <4>1. CASE b + 1 <= Len(s2)
        BY <3>1, <3>2, <4>1
      <4>2. CASE ~(b + 1 <= Len(s2))
        <5>1. Len(s2) - b = 0
          <6>1. b \in Int /\ Len(s2) \in Int /\ Len(s2) - b >= 0
            BY <1>3, <3>1
          <6> QED
            BY <4>2, <6>1
        <5>2. Len(q) = 0
          BY <3>2, <4>2
        <5> QED
          BY <5>1, <5>2
      <4> QED
        BY <4>1, <4>2
    <3>5. ASSUME NEW l \in 1..Len(s2) - b PROVE q[l] = s2[b + l]
      <4>1. (b + 1) + l - 1 = b + l
        BY <1>3
      <4> QED
        BY <3>1, <3>2, <4>1
    <3> QED
      BY <3>2, <3>4, <3>5
  <2> HIDE DEF r, q
  <2>5. q = r \o added
    <3> DEFINE j == r \o added
    <3>1. j \in Seq(T) /\ Len(j) = Len(r) + Len(added)
          /\ \A l \in 1..Len(r) + Len(added) : j[l] = IF l <= Len(r) THEN r[l] ELSE added[l - Len(r)]
      BY <2>3, ConcatProperties
    <3> HIDE DEF j
    <3>2. Len(q) = Len(j)
      BY <1>3, <1>6, <2>3, <2>4, <3>1
    <3>3. ASSUME NEW l \in 1..Len(q)
          PROVE  q[l] = j[l]
      <4>1. l \in 1..Len(s2) - b /\ l \in 1..Len(r) + Len(added) /\ b + l \in 1..Len(s2)
        BY <1>3, <1>6, <2>4, <3>1, <3>2
      <4>2. q[l] = s2[b + l]
        BY <2>4, <4>1
      <4>3. CASE l <= Len(r)
        <5>1. l \in 1..p - 1 - b
          BY <2>3, <4>1, <4>3
        <5> QED
          BY <2>3, <3>1, <4>1, <4>2, <4>3, <5>1
      <4>4. CASE ~(l <= Len(r))
        <5>1. b + l \in p..p - 1 + Len(added) /\ (b + l) - (p - 1) = l - Len(r)
          BY <1>3, <1>6, <2>3, <4>1, <4>4
        <5>2. s2[b + l] = added[(b + l) - (p - 1)]
          BY <1>6, <5>1
        <5> QED
          BY <3>1, <4>1, <4>2, <4>4, <5>1, <5>2
      <4> QED
        BY <4>3, <4>4
    <3>4. q = j
      BY <2>4, <3>1, <3>2, <3>3, SeqEqual
    <3> QED
      BY <3>4 DEF j
  <2>6. Good(q)
    BY <2>3, <2>5, GoodJoin
  <2> QED
    BY <2>1, <2>6 DEF Segment, q
<1>9. Frames(T, at2, t2, s2)
  <2>1. \A k \in 1..Len(t) : at2[k] = at[k + 1] /\ k + 1 \in 1..Len(t) + 1 /\ k + 1 \in 2..Len(t) + 1 /\ at[k + 1] <= b
    <3>1. ASSUME NEW k \in 1..Len(t)
          PROVE  k + 1 \in 1..Len(t) + 1 /\ k + 1 \in 2..Len(t) + 1 /\ 2 \in 1..Len(t) + 1 /\ 2 <= k + 1
      BY <1>1
    <3> QED
      BY <1>2, <3>1 DEF b
  <2>2. \A k \in 1..Len(t) : at[k + 1] \in 0..p - 1 /\ at[k + 1] \in 0..Len(s2)
    <3>1. ASSUME NEW k \in 1..Len(t)
          PROVE  at[k + 1] \in 0..p - 1 /\ at[k + 1] \in 0..Len(s2)
      <4> DEFINE x == at[k + 1]
      <4>1. x \in 0..Len(s) /\ x <= b
        BY <1>2, <2>1
      <4> HIDE DEF x
      <4>2. x \in Nat /\ x <= b
        BY <1>1, <4>1
      <4>3. x \in 0..p - 1
        BY <1>3, <4>2
      <4>4. x \in 0..Len(s2)
        BY <1>6, <4>3
      <4> QED
        BY <4>3, <4>4 DEF x
    <3> QED
      BY <3>1
  <2>3. at2 \in [1..Len(t2) + 1 -> 0..Len(s2)] /\ at2[Len(t2) + 1] = 0
    <3>1. Len(t2) + 1 = Len(t) /\ Len(t) \in 1..Len(t)
      BY <1>1
    <3>2. at2 \in [1..Len(t) -> 0..Len(s2)]
      BY <2>2
    <3> HIDE DEF at2
    <3> QED
      BY <1>2, <2>1, <3>1, <3>2
  <2> HIDE DEF at2
  <2>4. ASSUME NEW i \in 1..Len(t2) + 1, NEW j \in 1..Len(t2) + 1, i <= j
        PROVE  at2[j] <= at2[i]
    <3>1. i \in 1..Len(t) /\ j \in 1..Len(t)
      BY <1>1
    <3>2. i + 1 \in 1..Len(t) + 1 /\ j + 1 \in 1..Len(t) + 1 /\ i + 1 <= j + 1
      BY <2>1, <2>4, <3>1
    <3> QED
      BY <1>2, <2>1, <3>1, <3>2
  <2>5. Segment(T, s2, at2[1] + 1, Len(s2))
    <3>1. 1 \in 1..Len(t) /\ 1 + 1 = 2
      BY <1>1
    <3>2. at2[1] = b
      BY <2>1, <3>1 DEF b
    <3> QED
      BY <1>8, <3>2
  <2>6. ASSUME NEW k \in 1..Len(t2)
        PROVE  Frame(T, at2, t2, s2, k)
    <3> DEFINE l == k + 1
    <3>1. k \in 1..Len(t) /\ l \in 1..Len(t) /\ l # 1 /\ k \in 1..Len(t) - 1
      BY <1>1
    <3>2. at2[k] = at[l] /\ at2[k + 1] = at[l + 1] /\ t2[k] = t[l]
      BY <1>1, <2>1, <3>1
    <3>3. at[l] \in 0..p - 1 /\ at[l + 1] \in 0..p - 1
      BY <2>2, <3>1
    <3> HIDE DEF l
    <3>4. Frame(S, at, t, s, l)
      BY <1>2, <3>1
    <3>5. CASE t[l].do = "enter"
      BY <3>2, <3>4, <3>5 DEF Frame
    <3>6. CASE t[l].do = "visit"
      <4>1. at[l + 1] < at[l] /\ s[at[l]] = NameOf(t[l].of) /\ Segment(S, s, at[l + 1] + 1, at[l] - 1) /\ IsName(t[l].of)
        BY <3>1, <3>4, <3>6 DEF Frame
      <4> DEFINE x == at[l]
                 y == at[l + 1]
      <4>2. x \in 0..p - 1 /\ y \in 0..p - 1 /\ y < x
        BY <3>3, <4>1
      <4> HIDE DEF x, y
      <4>3. x \in 1..p - 1 /\ x - 1 \in Int /\ y + 1 \in Int /\ \A i \in y + 1..x - 1 : i \in 1..p - 1
        BY <1>3, <4>2
      <4>4. Segment(T, s2, y + 1, x - 1)
        <5>1. Segment(S, s, y + 1, x - 1)
          BY <4>1 DEF x, y
        <5>2. \A i \in y + 1..x - 1 : s2[i] = s[i]
          BY <1>6, <4>3
        <5> QED
          BY <4>3, <5>1, <5>2, SegmentMore
      <4>5. s2[at[l]] = s[at[l]]
        BY <1>6, <4>3 DEF x
      <4> QED
        BY <3>2, <3>6, <4>1, <4>4, <4>5 DEF Frame, x, y
    <3> QED
      BY <3>2, <3>5, <3>6 DEF Frame
  <2> QED
    BY <2>3, <2>4, <2>5, <2>6 DEF Frames
<1>10. \E at3 : Frames(T, at3, t2, s2)
  <2> HIDE DEF at2
  <2> QED
    BY <1>9
<1> QED
  BY <1>6, <1>10, Zenon DEF s2, below, t2, U

LastOf(s, v) == SelectLastInSeq(s, LAMBDA e : e = v)
LEMMA LastFound ==
  ASSUME NEW X, NEW s \in Seq(X), NEW v, NEW a \in 1..Len(s), s[a] = v
  PROVE  LastOf(s, v) \in Nat /\ a <= LastOf(s, v) /\ LastOf(s, v) <= Len(s) /\ s[LastOf(s, v)] = v
<1> DEFINE n == Len(s)
           I == {i \in 1..n : s[i] = v}
           T == {n - i : i \in I}
<1>1. n \in Nat /\ a \in I
  OBVIOUS
<1>2. PICK x \in T : \A y \in T : ~(<<y, x>> \in OpToRel(<, Nat))
  <2>1. T \subseteq Nat /\ T # {}
    BY <1>1
  <2> HIDE DEF T
  <2> QED
    BY <2>1, NatLessThanWellFounded, WFMin
<1>3. PICK m \in I : x = n - m
  BY <1>2
<1>4. ASSUME NEW i \in I
      PROVE  m >= i
  <2>1. n - i \in T /\ n - i \in Nat /\ n - m \in Nat
    BY <1>1
  <2>2. ~(n - i < n - m)
    BY <1>2, <1>3, <2>1, Less
  <2>3. i \in Int /\ m \in Int /\ n \in Int
    BY <1>1
  <2> QED
    BY <2>2, <2>3
<1> DEFINE p == LastOf(s, v)
<1>5. p = Max(I)
  <2>1. I # {}
    BY <1>1
  <2> QED
    BY <2>1 DEF LastOf, SelectLastInSeq
<1>6. Max(I) \in I /\ \A i \in I : Max(I) >= i
  <2> HIDE DEF I
  <2> QED
    BY <1>4 DEF Max
<1>7. p \in I /\ p >= a
  <2> HIDE DEF p, I
  <2> QED
    BY <1>1, <1>5, <1>6
<1> HIDE DEF p
<1>8. p \in Nat /\ a <= p /\ p <= Len(s) /\ s[p] = v
  BY <1>7
<1> QED
  BY <1>8 DEF p

LEMMA FlattenType ==
  ASSUME NEW X, NEW s \in Seq(Seq(X))
  PROVE  FlattenSeq(s) \in Seq(X)
<1>1. PICK f \in [0..Len(s) -> Seq(X)] : Pieces(f, s)
  BY PiecesExist
<1>2. FlattenSeq(s) = f[Len(s)]
  BY <1>1, Flattened
<1>3. Len(s) \in 0..Len(s)
  OBVIOUS
<1> QED
  BY <1>1, <1>2, <1>3

\* The same with everything in one set.
Settled(T, values) ==
  /\ values \in Seq(T) /\ Good(values) /\ values # <<>>
  /\ IsFormula(Last(values)) => Front(values) \in Seq({Note})

LEMMA Settles ==
  ASSUME NEW S, SoundSet(S), NEW values, Result(S, values)
  PROVE  \E T : S \subseteq T /\ SoundSet(T) /\ Settled(T, values)
<1>1. PICK P : (\A n \in P : IsPlain(n)) /\ values \in Seq(S \union P)
  BY DEF Result, Mixed
<1> DEFINE T == S \union P
<1>2. SoundSet(T)
  <2>1. ASSUME NEW m \in T
        PROVE  m # LIST /\ (m.k = "list" => m.a \in Seq(T) /\ Good(m.a))
    <3>1. CASE m \in P
      BY <1>1, <3>1 DEF IsPlain
    <3>2. CASE m \in S
      BY <3>2, SeqMonotonic DEF SoundSet
    <3> QED
      BY <3>1, <3>2
  <2> QED
    BY <2>1 DEF SoundSet
<1>3. S \subseteq T /\ values \in Seq(T)
  BY <1>1
<1> HIDE DEF T
<1>4. Settled(T, values)
  BY <1>3 DEF Result, Settled
<1> QED
  BY <1>2, <1>3, <1>4

\* What the conversion of an element puts on the stack; of the list of blocks, a single list of bricks.
VisitGives(S, n, args) ==
  \E T : /\ S \subseteq T /\ SoundSet(T) /\ Settled(T, Converted(n, args))
         /\ IsBlockList(n) => \E b : Converted(n, args) = <<b>> /\ b.k = "list"

LEMMA VisitResult ==
  ASSUME NEW C, IsCode(C), NEW S, C \subseteq S, SoundSet(S), NEW n \in C, NEW args \in Seq(S),
         IsBlockList(n) => Good(args), ~LacksName(n, args)
  PROVE  VisitGives(S, n, args)
<1>1. IsBlockList(n) => ~IsBlock(n)
  BY DEF IsBlockList, IsBlock, IsLst, IsStr
<1>2. CASE IsBlockList(n)
  <2>1. PICK b, T : /\ ConvertedList(args) = <<b>> /\ b.k = "list" /\ b \in T
                    /\ S \subseteq T /\ SoundSet(T) /\ Result(T, <<b>>)
    BY <1>2, ListResult
  <2>2. Converted(n, args) = <<b>>
    BY <1>1, <1>2, <2>1 DEF Converted, IsBlockOf
  <2>3. <<b>> \in Seq(T)
    BY <2>1
  <2>4. Settled(T, <<b>>)
    BY <2>1, <2>3 DEF Settled, Result
  <2> QED
    BY <2>1, <2>2, <2>4 DEF VisitGives
<1>3. CASE IsBlockOf(n, "computeFunction:of:")
  <2>1. args # <<>> /\ IsBlock(n)
    BY <1>3 DEF LacksName, IsBlockOf
  <2>2. Tail(args) \in Seq(S)
    BY <2>1, HeadTailProperties
  <2>3. Result(S, ConvertedBlock(args[1].t, Tail(args)))
    BY <2>2, BlockResult
  <2>4. Converted(n, args) = ConvertedBlock(args[1].t, Tail(args))
    BY <1>1, <1>3, <2>1 DEF Converted
  <2>5. \E T : S \subseteq T /\ SoundSet(T) /\ Settled(T, Converted(n, args))
    BY <2>3, <2>4, Settles
  <2> QED
    BY <1>1, <2>1, <2>5 DEF VisitGives
<1>4. CASE IsBlock(n) /\ ~IsBlockOf(n, "computeFunction:of:")
  <2>1. Result(S, ConvertedBlock(First(n).t, args))
    BY BlockResult
  <2>2. Converted(n, args) = ConvertedBlock(First(n).t, args)
    BY <1>1, <1>4 DEF Converted
  <2>3. \E T : S \subseteq T /\ SoundSet(T) /\ Settled(T, Converted(n, args))
    BY <2>1, <2>2, Settles
  <2> QED
    BY <1>1, <1>4, <2>3 DEF VisitGives
<1>5. CASE ~IsBlockList(n) /\ ~IsBlock(n)
  <2>1. Converted(n, args) = <<n>>
    BY <1>5 DEF Converted, IsBlockOf
  <2>2. <<n>> \in Seq(S) /\ <<n>> # <<>> /\ Last(<<n>>) = n
    BY DEF Last
  <2>3. ~IsFormula(n) /\ IsNeutral(n)
    BY Names DEF IsCode, CodeKinds, IsFormula
  <2>4. Settled(S, <<n>>)
    BY <2>2, <2>3, OneGood DEF Settled
  <2> QED
    BY <1>5, <2>1, <2>4 DEF VisitGives
<1> QED
  BY <1>2, <1>3, <1>4, <1>5

Associates(s, t, u) == s \o t \o u = s \o (t \o u)
LEMMA Associate ==
  ASSUME NEW X, NEW s \in Seq(X), NEW t \in Seq(X), NEW u \in Seq(X)
  PROVE  Associates(s, t, u)
BY ConcatAssociative DEF Associates

\* What Replace puts above what it leaves.
Puts(T, values, p) ==
  \E added : /\ added \in Seq(T \union {Note}) /\ Good(added)
             /\ stack' = SubSeq(stack, 1, p - 1) \o added
             /\ \A b : values = <<b>> => added # <<>> /\ Last(added) = b

LEMMA ReplaceResult ==
  ASSUME NEW S, NEW T, S \subseteq T, stack \in Seq(S \union {LIST}), childStack \in Seq(Seq({Note})),
         NEW n, NEW values, Settled(T, values), Start(n) \in Nat, Start(n) <= Len(stack), Start(n) >= 1, Replace(n, values)
  PROVE  childStack' \in Seq(Seq({Note})) /\ Puts(T, values, Start(n))
<1> DEFINE below   == SubSeq(stack, 1, Start(n) - 1)
           flushes == childStack # <<>> /\ AllBricks(values)
           flushed == IF flushes THEN FlattenSeq(Reverse(childStack)) ELSE <<>>
           kept    == IF flushes THEN <<>> ELSE childStack
           splits  == Len(values) > 1 /\ IsFormula(Last(values))
           put     == IF splits THEN <<Last(values)>> ELSE values
           N       == T \union {Note}
           U       == N \union {LIST}
<1>1. flushed \in Seq({Note}) /\ kept \in Seq(Seq({Note}))
  <2>1. Reverse(childStack) \in Seq(Seq({Note}))
    BY DEF Reverse
  <2>2. FlattenSeq(Reverse(childStack)) \in Seq({Note})
    BY <2>1, FlattenType
  <2> QED
    BY <2>2
<1>2. stack' = below \o flushed \o put /\ childStack' = IF splits THEN Append(kept, Front(values)) ELSE kept
  BY DEF Replace
<1>3. values \in Seq(T) /\ Good(values) /\ values # <<>> /\ (IsFormula(Last(values)) => Front(values) \in Seq({Note}))
  BY DEF Settled
<1> HIDE DEF flushed, kept
<1>4. childStack' \in Seq(Seq({Note}))
  BY <1>1, <1>2, <1>3
<1>5. put \in Seq(T) /\ Good(put)
  <2>1. Last(values) \in T
    BY <1>3 DEF Last
  <2>2. IsFormula(Last(values)) => Good(<<Last(values)>>)
    BY OneGood DEF IsFormula, IsNeutral, IsBrick
  <2> QED
    BY <1>3, <2>1, <2>2
<1>6. \A b : values = <<b>> => put = <<b>>
  <2>1. ASSUME NEW b, values = <<b>> PROVE Len(values) = 1
    BY <2>1
  <2> QED
    BY <2>1
<1> HIDE DEF put
<1> DEFINE added == flushed \o put
<1>7. flushed \in Seq(N) /\ put \in Seq(N)
  BY <1>1, <1>5, SeqMonotonic
<1>8. Good(flushed)
  <2>1. \A i \in 1..Len(flushed) : IsNeutral(flushed[i])
    <3>1. IsNeutral(Note)
      BY NodeFacts
    <3>2. \A i \in 1..Len(flushed) : flushed[i] = Note
      BY <1>1
    <3> QED
      BY <3>1, <3>2
  <2> QED
    BY <1>1, <2>1, NeutralClosed DEF Good
<1> HIDE DEF N
<1>9. added \in Seq(N) /\ Good(added)
  BY <1>5, <1>7, <1>8, GoodJoin
<1>10. stack' = below \o added
  <2>1. below \in Seq(U)
    <3>1. stack \in Seq(U)
      BY SeqMonotonic DEF N
    <3>2. \A i \in 1..Start(n) - 1 : stack[i] \in U
      BY <3>1
    <3> HIDE DEF U
    <3>3. 1 \in Int /\ Start(n) - 1 \in Int
      OBVIOUS
    <3> QED
      BY <3>2, <3>3, SubSeqProperties
  <2>2. flushed \in Seq(U) /\ put \in Seq(U)
    BY <1>7, SeqMonotonic
  <2> HIDE DEF below, U
  <2> QED
    <3>1. below \o flushed \o put = below \o (flushed \o put)
      <4>1. Associates(below, flushed, put)
        BY <2>1, <2>2, Associate
      <4> QED
        BY <4>1 DEF Associates
    <3>2. stack' = below \o flushed \o put
      BY <1>2 DEF below
    <3> HIDE DEF added
    <3>3. stack' = below \o (flushed \o put)
      BY <3>1, <3>2
    <3> QED
      BY <3>3 DEF added
<1>11. ASSUME NEW b, values = <<b>>
       PROVE  added # <<>> /\ Last(added) = b
  <2>1. put = <<b>>
    BY <1>6, <1>11
  <2>2. Len(flushed \o <<b>>) = Len(flushed) + 1 /\ Len(flushed) \in Nat /\ (flushed \o <<b>>)[Len(flushed) + 1] = b
    <3>1. flushed \in Seq(N \union {b}) /\ <<b>> \in Seq(N \union {b})
      BY <1>7, SeqMonotonic
    <3> QED
      BY <3>1
  <2>3. Len(added) = Len(flushed) + 1 /\ added[Len(flushed) + 1] = b
    BY <2>1, <2>2
  <2> HIDE DEF added
  <2> QED
    BY <2>2, <2>3 DEF Last
<1> HIDE DEF added, below
<1>12. Puts(T, values, Start(n))
  BY <1>9, <1>10, <1>11 DEF Puts, below, N
<1> QED
  BY <1>4, <1>12

-------------------------------------------------------------------------------
(* The script that is collected *)

Nested(b) ==
  LET open[i \in 0..Len(b)] == IF i = 0 THEN <<>> ELSE Nesting(open[i - 1], b[i])
  IN open[Len(b)] = <<>>

LEMMA ClosedNested ==
  ASSUME NEW X, NEW b \in Seq(X), AllBricks(b), Closed(b)
  PROVE  Nested(b)
<1> DEFINE n == Len(b)
           open == CHOOSE e : e = [i \in 0..n |-> IF i = 0 THEN <<>> ELSE Nesting(e[i - 1], b[i])]
<1>1. n \in Nat /\ \A i \in 1..n : IsBrick(b[i])
  BY DEF AllBricks
<1>2. PICK w : IsPath(w, b) /\ w[0] = <<>> /\ w[n] = <<>>
  <2>1. <<>> \in Seq(Marks)
    OBVIOUS
  <2> QED
    BY <2>1 DEF Closed, Leads
<1>3. \A i \in 1..n : w[i] = Nesting(w[i - 1], b[i])
  BY <1>1, <1>2 DEF IsPath, Opened
<1> DEFINE g == [i \in 0..n |-> w[i]]
<1>4. g = [i \in 0..n |-> IF i = 0 THEN <<>> ELSE Nesting(g[i - 1], b[i])]
  <2>1. ASSUME NEW i \in 0..n
        PROVE  w[i] = IF i = 0 THEN <<>> ELSE Nesting(g[i - 1], b[i])
    <3>1. CASE i = 0
      BY <1>2, <3>1
    <3>2. CASE i # 0
      <4>1. i \in 1..n /\ i - 1 \in 0..n
        BY <1>1, <3>2
      <4>2. g[i - 1] = w[i - 1]
        BY <4>1
      <4> HIDE DEF g
      <4> QED
        BY <1>3, <3>2, <4>1, <4>2
    <3> QED
      BY <3>1, <3>2
  <2> QED
    BY <2>1
<1>5. open = [i \in 0..n |-> IF i = 0 THEN <<>> ELSE Nesting(open[i - 1], b[i])]
  <2> HIDE DEF g
  <2> QED
    BY <1>4
<1>6. \A i \in 0..n : g[i] = IF i = 0 THEN <<>> ELSE Nesting(g[i - 1], b[i])
  <2> HIDE DEF g, open, n
  <2> QED
    BY <1>4
<1>7. \A i \in 0..n : open[i] = IF i = 0 THEN <<>> ELSE Nesting(open[i - 1], b[i])
  <2> HIDE DEF g, open, n
  <2> QED
    BY <1>5
<1>8. g[n] = <<>>
  BY <1>1, <1>2
<1> HIDE DEF g, open
<1>9. open[n] = g[n]
  <2>1. 0 \in 0..n /\ n \in 0..n /\ 0 \in Nat
    BY <1>1
  <2>2. GoOnAlike(open, g, 0, n)
    BY <1>6, <1>7, <2>1 DEF GoOnAlike
  <2>3. \A i \in 0..n : open[i] = g[i]
    BY <1>1, <2>1, <2>2, Agree
  <2> QED
    BY <2>1, <2>3
<1> QED
  BY <1>8, <1>9 DEF Nested, open

\* What is added to the script of the list a.
Added(a) == FlattenSeq([i \in DOMAIN a |-> IF IsIgnored(a[i]) THEN <<>> ELSE <<a[i]>>])

LEMMA AddedClosed ==
  ASSUME NEW S, NEW a \in Seq(S), Good(a), AllBricks(Added(a))
  PROVE  Added(a) \in Seq(S) /\ Closed(Added(a))
<1> DEFINE s == [i \in DOMAIN a |-> IF IsIgnored(a[i]) THEN <<>> ELSE <<a[i]>>]
           n == Len(a)
<1>1. n \in Nat /\ s \in Seq(Seq(S)) /\ Len(s) = n /\ (\A i \in 1..n : a[i] \in S /\ s[i] = IF IsIgnored(a[i]) THEN <<>> ELSE <<a[i]>>)
  <2>1. n \in Nat /\ DOMAIN a = 1..n /\ \A i \in 1..n : a[i] \in S
    OBVIOUS
  <2>2. ASSUME NEW i \in 1..n
        PROVE  (IF IsIgnored(a[i]) THEN <<>> ELSE <<a[i]>>) \in Seq(S)
    BY <2>1
  <2> HIDE DEF n
  <2>3. s \in Seq(Seq(S)) /\ Len(s) = n
    BY <2>1, <2>2
  <2> QED
    BY <2>1, <2>3
<1> HIDE DEF s, n
<1>2. PICK f \in [0..n -> Seq(S)] : Pieces(f, s)
  BY <1>1, PiecesExist
<1>3. f[0] = <<>> /\ \A i \in 1..n : f[i] = f[i - 1] \o s[i]
  BY <1>1, <1>2 DEF Pieces
<1>4. Added(a) = f[n] /\ f[n] \in Seq(S)
  <2>1. FlattenSeq(s) = f[n]
    BY <1>1, <1>2, Flattened
  <2>2. n \in 0..n
    BY <1>1
  <2> QED
    BY <1>2, <2>1, <2>2 DEF Added, s
<1>5. ASSUME NEW m \in Nat, m + 1 <= n
      PROVE  /\ m + 1 \in 1..n /\ m \in 0..n /\ f[m] \in Seq(S) /\ s[m + 1] \in Seq(S)
             /\ f[m + 1] = f[m] \o s[m + 1] /\ f[m + 1] \in Seq(S)
  <2>1. m + 1 \in 1..n /\ m \in 0..n /\ m + 1 \in 0..n /\ (m + 1) - 1 = m
    BY <1>1, <1>5
  <2>2. s[m + 1] \in Seq(S)
    BY <1>1, <2>1
  <2> QED
    BY <1>2, <1>3, <2>1, <2>2
<1>6. ~HasForeign(a)
  <2> DEFINE I == {m \in Nat : m <= n /\ AllBricks(f[m]) => \A i \in 1..m : IsBrick(a[i]) \/ IsIgnored(a[i])}
  <2>1. 0 \in I
    OBVIOUS
  <2>2. ASSUME NEW m \in Nat, m \in I
        PROVE  m + 1 \in I
    <3>1. SUFFICES ASSUME m + 1 <= n, AllBricks(f[m + 1])
                   PROVE  \A i \in 1..m + 1 : IsBrick(a[i]) \/ IsIgnored(a[i])
      OBVIOUS
    <3> DEFINE x == f[m]
               y == s[m + 1]
    <3>2. x \in Seq(S) /\ y \in Seq(S) /\ AllBricks(x \o y)
      BY <1>5, <3>1
    <3> HIDE DEF x, y
    <3>3. AllBricks(x) /\ AllBricks(y)
      <4>1. DOMAIN x = 1..Len(x) /\ DOMAIN y = 1..Len(y) /\ Len(x) \in Nat /\ Len(y) \in Nat /\ DOMAIN (x \o y) = 1..Len(x) + Len(y)
            /\ \A i \in 1..Len(x) + Len(y) : (x \o y)[i] = IF i <= Len(x) THEN x[i] ELSE y[i - Len(x)]
        BY <3>2
      <4>2. ASSUME NEW i \in 1..Len(x) PROVE IsBrick(x[i])
        <5>1. i \in 1..Len(x) + Len(y) /\ i <= Len(x)
          BY <4>1
        <5> QED
          BY <3>2, <4>1, <5>1 DEF AllBricks
      <4>3. ASSUME NEW i \in 1..Len(y) PROVE IsBrick(y[i])
        <5>1. i + Len(x) \in 1..Len(x) + Len(y) /\ ~(i + Len(x) <= Len(x)) /\ (i + Len(x)) - Len(x) = i
          BY <4>1
        <5> QED
          BY <3>2, <4>1, <5>1 DEF AllBricks
      <4> QED
        BY <4>1, <4>2, <4>3 DEF AllBricks
    <3>4. \A i \in 1..m : IsBrick(a[i]) \/ IsIgnored(a[i])
      BY <1>1, <2>2, <3>1, <3>3 DEF x
    <3>5. IsBrick(a[m + 1]) \/ IsIgnored(a[m + 1])
      <4>1. SUFFICES ASSUME ~IsIgnored(a[m + 1]) PROVE IsBrick(a[m + 1])
        OBVIOUS
      <4>2. y = <<a[m + 1]>>
        BY <1>1, <1>5, <3>1, <4>1 DEF y
      <4>3. 1 \in DOMAIN y /\ y[1] = a[m + 1]
        BY <4>2
      <4> QED
        BY <3>3, <4>3 DEF AllBricks
    <3> QED
      BY <3>4, <3>5
  <2>3. Nat \subseteq I
    <3> HIDE DEF I
    <3> QED
      BY <2>1, <2>2, Induction
  <2>4. \A i \in 1..n : IsBrick(a[i]) \/ IsIgnored(a[i])
    <3>1. n \in I /\ n <= n
      <4> HIDE DEF I
      <4> QED
        BY <1>1, <2>3
    <3> QED
      BY <1>4, <3>1
  <2> QED
    BY <2>4 DEF HasForeign, IsForeign, n
<1>7. ASSUME NEW o \in Seq(Marks)
      PROVE  Leads(o, f[n], o)
  <2>1. PICK w : IsPath(w, a) /\ w[0] = o /\ w[n] = o
    BY <1>6 DEF Good, Closed, Leads, n
  <2>2. w \in [0..n -> Seq(Marks)] /\ \A i \in 1..n : w[i] = Opened(w[i - 1], a[i])
    BY <2>1 DEF IsPath, n
  <2> DEFINE I == {m \in Nat : m <= n => Leads(o, f[m], w[m])}
  <2>3. 0 \in I
    <3>1. Leads(o, <<>>, o)
      <4>1. <<>> \in Seq({}) /\ \A i \in 1..Len(<<>>) : IsNeutral(<<>>[i])
        OBVIOUS
      <4> QED
        BY <4>1, NeutralClosed DEF Closed
    <3> QED
      BY <1>3, <2>1, <3>1
  <2>4. ASSUME NEW m \in Nat, m \in I
        PROVE  m + 1 \in I
    <3>1. SUFFICES ASSUME m + 1 <= n
                   PROVE  Leads(o, f[m + 1], w[m + 1])
      OBVIOUS
    <3>2. Leads(o, f[m], w[m])
      BY <1>1, <2>4, <3>1
    <3>3. m + 1 \in 1..n /\ (m + 1) - 1 = m /\ m \in 0..n /\ m + 1 \in 0..n
      BY <1>1, <3>1
    <3>4. w[m + 1] = Opened(w[m], a[m + 1]) /\ w[m] \in Seq(Marks) /\ w[m + 1] \in Seq(Marks)
      BY <2>2, <3>3
    <3>5. Leads(w[m], s[m + 1], w[m + 1])
      <4>1. CASE IsIgnored(a[m + 1])
        <5>1. s[m + 1] = <<>>
          BY <1>1, <3>3, <4>1
        <5>2. w[m + 1] = w[m]
          <6>1. Null.k = "null" /\ False.k = "bool" /\ Str("").k = "str" /\ Num("0").k = "num" /\ BrickList(<<>>).k = "list"
            BY DEF Null, False, Str, Num, BrickList, Node
          <6>2. ~IsBrick(a[m + 1])
            BY <4>1, <6>1 DEF IsIgnored, IsBrick
          <6> QED
            BY <3>4, <6>2 DEF Opened
        <5>3. Closed(<<>>)
          <6>1. <<>> \in Seq({}) /\ \A i \in 1..Len(<<>>) : IsNeutral(<<>>[i])
            OBVIOUS
          <6> QED
            BY <6>1, NeutralClosed
        <5> QED
          BY <3>4, <5>1, <5>2, <5>3 DEF Closed
      <4>2. CASE ~IsIgnored(a[m + 1])
        <5>1. s[m + 1] = <<a[m + 1]>>
          BY <1>1, <3>3, <4>2
        <5> QED
          BY <3>4, <5>1, PathOfOne
      <4> QED
        BY <4>1, <4>2
    <3>6. Leads(o, f[m] \o s[m + 1], w[m + 1])
      BY <1>5, <3>1, <3>2, <3>5, PathsJoin
    <3> QED
      BY <1>5, <3>1, <3>6
  <2>5. Nat \subseteq I
    <3> HIDE DEF I
    <3> QED
      BY <2>3, <2>4, Induction
  <2>6. n \in I /\ n <= n
    BY <1>1, <2>5
  <2> QED
    BY <2>1, <2>6
<1> QED
  BY <1>4, <1>7 DEF Closed

-------------------------------------------------------------------------------
(* The invariant *)

Walking(C, S, at, t, s) ==
  /\ IsCode(C) /\ C \subseteq S /\ SoundSet(S)
  /\ t \in Seq(Entries(C)) /\ t # <<>> /\ IsBlockList(t[Len(t)].of)
  /\ s \in Seq(S \union {LIST}) /\ Frames(S, at, t, s)
Collected(s) == \E S : SoundSet(S) /\ s \in Seq(S) /\ s # <<>> /\ Last(s).k = "list"

Walk       == stage = "traverse" => \E C, S, at : Walking(C, S, at, todo, stack)
Collecting == stage = "collect" => Collected(stack)
Waiting    == childStack \in Seq(Seq({Note}))
Inv        == Walk /\ Collecting /\ Waiting /\ LoopsAreClosed

LEMMA InitInv == TraversalInit => Inv
<1> SUFFICES ASSUME TraversalInit
             PROVE  Inv
  OBVIOUS
<1>1. stage = "traverse" /\ stack = <<>> /\ childStack = <<>>
  BY DEF TraversalInit
<1>2. PICK tree, C : IsBlockList(tree) /\ tree \in C /\ IsCode(C) /\ todo = <<[do |-> "enter", of |-> tree]>>
  BY DEF TraversalInit, IsScriptTree
<1> DEFINE at == [k \in 1..2 |-> 0]
           e == [do |-> "enter", of |-> tree]
<1>3. SoundSet(C)
  <2>1. ASSUME NEW n \in C PROVE n.k # "list" /\ n # LIST
    BY <1>2, <2>1 DEF IsCode, CodeKinds
  <2> QED
    BY <2>1 DEF SoundSet
<1>4. e \in Entries(C) /\ e.do = "enter" /\ e.of = tree
  BY <1>2 DEF Entries
<1> HIDE DEF e
<1>5. Len(<<e>>) = 1 /\ <<e>>[1] = e /\ <<e>> \in Seq(Entries(C)) /\ <<e>> # <<>>
  BY <1>4
<1>6. Frames(C, at, <<e>>, <<>>)
  <2>1. 1 + 1 = 2 /\ 0 + 1 = 1 /\ at[1] = 0 /\ at[2] = 0 /\ 1 \in 1..2 /\ 2 \in 1..2 /\ \A i \in 1..2 : at[i] = 0
    OBVIOUS
  <2>2. Len(<<>>) = 0 /\ 0..0 = {0}
    OBVIOUS
  <2>3. at \in [1..2 -> 0..0]
    OBVIOUS
  <2> HIDE DEF at
  <2>4. Segment(C, <<>>, 1, 0)
    <3>1. SubSeq(<<>>, 1, 0) = <<>>
      BY SubSeqEmpty
    <3>2. \A l \in 1..0 : FALSE
      OBVIOUS
    <3> QED
      BY <3>1, <3>2, EmptyGood DEF Segment
  <2>5. Frame(C, at, <<e>>, <<>>, 1)
    BY <1>4, <1>5, <2>1 DEF Frame
  <2>6. \A k \in 1..1 : k = 1
    OBVIOUS
  <2> QED
    BY <1>5, <2>1, <2>2, <2>3, <2>4, <2>5, <2>6 DEF Frames
<1>7. Walking(C, C, at, todo, stack)
  <2>1. todo = <<e>>
    BY <1>2 DEF e
  <2>2. stack \in Seq(C \union {LIST})
    BY <1>1
  <2> HIDE DEF at
  <2> QED
    BY <1>1, <1>2, <1>3, <1>4, <1>5, <1>6, <2>1, <2>2 DEF Walking
<1>8. Walk
  <2> HIDE DEF at
  <2> QED
    BY <1>7 DEF Walk
<1> QED
  BY <1>1, <1>8 DEF Inv, Collecting, Waiting, LoopsAreClosed

LEMMA EnterInv == Inv /\ Enter => Inv'
<1> SUFFICES ASSUME Inv, Enter
             PROVE  Inv'
  OBVIOUS
<1> DEFINE n == todo[1].of
           c == [i \in DOMAIN Children(n) |-> [do |-> "enter", of |-> Children(n)[i]]]
           v == [do |-> "visit", of |-> n]
<1>1. stage = "traverse" /\ todo # <<>> /\ todo[1].do = "enter" /\ stage' = "traverse" /\ childStack' = childStack
  BY DEF Enter
<1>2. stack' = Append(stack, NameOf(n)) /\ todo' = c \o <<v>> \o Tail(todo)
  <2>1. Head(todo) = todo[1]
    OBVIOUS
  <2>2. stack' = Append(stack, NameOf(n))
    BY <2>1 DEF Enter
  <2>3. todo' = c \o <<v>> \o Tail(todo)
    BY <2>1, Zenon DEF Enter
  <2> QED
    BY <2>2, <2>3
<1>3. PICK C, S, at : Walking(C, S, at, todo, stack)
  BY <1>1 DEF Inv, Walk
<1>4. /\ IsCode(C) /\ C \subseteq S /\ SoundSet(S) /\ todo \in Seq(Entries(C)) /\ IsBlockList(todo[Len(todo)].of)
      /\ stack \in Seq(S \union {LIST}) /\ Frames(S, at, todo, stack)
  BY <1>3 DEF Walking
<1>5. n \in C
  <2>1. todo[1] \in Entries(C)
    BY <1>1, <1>4
  <2> QED
    BY <2>1 DEF Entries
<1>6. c \in Seq(Entries(C)) /\ (\A i \in 1..Len(c) : c[i].do = "enter") /\ (~IsName(n) => c = <<>>)
  <2> DEFINE h == Children(n)
  <2>1. h \in Seq(C) /\ (~IsName(n) => h = <<>>)
    BY <1>4, <1>5, Names
  <2> HIDE DEF h
  <2>2. DOMAIN h = 1..Len(h) /\ Len(h) \in Nat /\ \A i \in 1..Len(h) : h[i] \in C
    BY <2>1
  <2> DEFINE d == [i \in 1..Len(h) |-> [do |-> "enter", of |-> h[i]]]
  <2>3. \A i \in 1..Len(h) : [do |-> "enter", of |-> h[i]] \in Entries(C)
    BY <2>2 DEF Entries
  <2>4. d \in Seq(Entries(C)) /\ Len(d) = Len(h) /\ \A i \in 1..Len(h) : d[i] = [do |-> "enter", of |-> h[i]]
    BY <2>2, <2>3
  <2>5. c = d
    BY <2>2 DEF h
  <2>6. h = <<>> => d = <<>>
    OBVIOUS
  <2>7. \A i \in 1..Len(d) : d[i].do = "enter"
    <3>1. ASSUME NEW i \in 1..Len(h) PROVE d[i].do = "enter"
      OBVIOUS
    <3> HIDE DEF d
    <3> QED
      BY <2>4, <3>1
  <2> HIDE DEF c, d
  <2> QED
    BY <2>1, <2>4, <2>5, <2>6, <2>7
<1> HIDE DEF c
<1> DEFINE s2 == Append(stack, NameOf(n))
           t2 == c \o <<v>> \o Tail(todo)
<1>7. /\ s2 \in Seq(S \union {LIST})
      /\ t2 \in Seq(Entries(C)) /\ t2 # <<>> /\ t2[Len(t2)].of = todo[Len(todo)].of
      /\ \E at2 : Frames(S, at2, t2, s2)
  BY <1>1, <1>4, <1>6, EnterFrames
<1> HIDE DEF s2, t2, n, v
<1>8. \E at2 : Walking(C, S, at2, t2, s2)
  BY <1>4, <1>7 DEF Walking
<1>9. todo' = t2 /\ stack' = s2
  BY <1>2 DEF t2, s2
<1>10. Walk'
  BY <1>8, <1>9 DEF Walk
<1> QED
  BY <1>1, <1>10 DEF Inv, Collecting, Waiting, LoopsAreClosed

LEMMA LastFrame ==
  ASSUME NEW N, NEW at, NEW s \in Seq(N \union {LIST}), Frames(N, at, <<>>, s)
  PROVE  s \in Seq(N)
<1>1. Len(s) \in Nat /\ s \in [1..Len(s) -> N \union {LIST}]
  OBVIOUS
<1>2. at[1] = 0
  <2>1. Len(<<>>) + 1 = 1
    OBVIOUS
  <2> QED
    BY <2>1 DEF Frames
<1>3. \A l \in 1..Len(s) : s[l] \in N
  <2>1. Segment(N, s, 0 + 1, Len(s))
    BY <1>2 DEF Frames
  <2> QED
    BY <2>1 DEF Segment
<1> QED
  BY <1>1, <1>3

LEMMA VisitInv == Inv /\ Visit => Inv'
<1> SUFFICES ASSUME Inv, Visit
             PROVE  Inv'
  OBVIOUS
<1> DEFINE n == todo[1].of
           p == Start(n)
           args == Arguments(n)
           values == Converted(n, args)
<1>1. stage = "traverse" /\ todo # <<>> /\ todo[1].do = "visit" /\ childStack \in Seq(Seq({Note}))
  BY DEF Visit, Inv, Waiting
<1>2. \/ LacksName(n, args) /\ stage' = "aborted" /\ childStack' = childStack
      \/ /\ ~LacksName(n, args) /\ Replace(n, values) /\ todo' = Tail(todo)
         /\ stage' = IF Len(todo) = 1 THEN "collect" ELSE stage
  <2>1. Head(todo) = todo[1]
    OBVIOUS
  <2> QED
    BY <2>1 DEF Visit
<1>3. CASE LacksName(n, args) /\ stage' = "aborted" /\ childStack' = childStack
  BY <1>1, <1>3 DEF Inv, Walk, Collecting, Waiting, LoopsAreClosed
<1>4. CASE ~LacksName(n, args) /\ Replace(n, values) /\ todo' = Tail(todo) /\ stage' = IF Len(todo) = 1 THEN "collect" ELSE stage
  <2>1. PICK C, S, at : Walking(C, S, at, todo, stack)
    BY <1>1 DEF Inv, Walk
  <2>2. /\ IsCode(C) /\ C \subseteq S /\ SoundSet(S) /\ todo \in Seq(Entries(C)) /\ IsBlockList(todo[Len(todo)].of)
        /\ stack \in Seq(S \union {LIST}) /\ Frames(S, at, todo, stack)
    BY <2>1 DEF Walking
  <2>3. n \in C /\ Len(todo) \in Nat \ {0} /\ Len(stack) \in Nat
    <3>1. todo[1] \in Entries(C) /\ Len(todo) \in Nat \ {0} /\ Len(stack) \in Nat
      BY <1>1, <2>2
    <3> QED
      BY <3>1 DEF Entries
  <2>4. at[1] \in 1..Len(stack) /\ at[2] \in Nat /\ stack[at[1]] = NameOf(n)
    <3>1. 1 \in 1..Len(todo) /\ 1 + 1 = 2 /\ 1 \in 1..Len(todo) + 1 /\ 2 \in 1..Len(todo) + 1
      BY <2>3
    <3>2. Frame(S, at, todo, stack, 1) /\ at[1] \in 0..Len(stack) /\ at[2] \in 0..Len(stack)
      BY <2>2, <3>1 DEF Frames
    <3>3. at[2] < at[1] /\ stack[at[1]] = NameOf(n)
      BY <1>1, <3>1, <3>2 DEF Frame
    <3> QED
      BY <2>3, <3>2, <3>3
  <2>5. p \in Nat /\ at[1] <= p /\ p <= Len(stack) /\ stack[p] = NameOf(n) /\ p >= 1
    <3>1. p = LastOf(stack, NameOf(n))
      BY DEF Start, LastOf
    <3> HIDE DEF p
    <3>2. p \in Nat /\ at[1] <= p /\ p <= Len(stack) /\ stack[p] = NameOf(n)
      BY <2>2, <2>4, <3>1, LastFound
    <3> QED
      BY <2>4, <3>2
  <2>6. args = SubSeq(stack, p + 1, Len(stack))
    BY DEF Arguments
  <2> HIDE DEF p, args, values
  <2>7. /\ args \in Seq(S) /\ (IsBlockList(n) => Good(args))
        /\ at[2] < p /\ Segment(S, stack, at[2] + 1, p - 1)
    BY <1>1, <2>2, <2>5, <2>6, VisitArguments
  <2>8. PICK T : /\ S \subseteq T /\ SoundSet(T) /\ Settled(T, values)
                 /\ IsBlockList(n) => \E b : values = <<b>> /\ b.k = "list"
    BY <1>4, <2>2, <2>3, <2>7, VisitResult DEF VisitGives, values
  <2>9. childStack' \in Seq(Seq({Note})) /\ Puts(T, values, p)
    <3> HIDE DEF n
    <3> QED
      BY <1>1, <1>4, <2>2, <2>5, <2>8, ReplaceResult DEF p
  <2> DEFINE N == T \union {Note}
  <2>10. PICK added : /\ added \in Seq(N) /\ Good(added) /\ stack' = SubSeq(stack, 1, p - 1) \o added
                      /\ \A b : values = <<b>> => added # <<>> /\ Last(added) = b
    BY <2>9 DEF Puts
  <2>11. SoundSet(N) /\ S \subseteq N /\ C \subseteq N
    BY <2>2, <2>8, NodeFacts, SoundMore
  <2> HIDE DEF N
  <2>12. stack' \in Seq(N \union {LIST}) /\ \E at2 : Frames(N, at2, Tail(todo), stack')
    <3> DEFINE s2 == SubSeq(stack, 1, p - 1) \o added
    <3>1. s2 \in Seq(N \union {LIST}) /\ \E at2 : Frames(N, at2, Tail(todo), s2)
      BY <1>1, <2>2, <2>5, <2>7, <2>10, <2>11, ReplaceFrames
    <3>2. stack' = s2
      BY <2>10
    <3> HIDE DEF s2
    <3> QED
      BY <3>1, <3>2
  <2>13. PICK at2 : Frames(N, at2, Tail(todo), stack')
    BY <2>12
  <2>14. Tail(todo) \in Seq(Entries(C)) /\ Len(Tail(todo)) = Len(todo) - 1 /\ \A i \in 1..Len(todo) - 1 : Tail(todo)[i] = todo[i + 1]
    BY <1>1, <2>2, HeadTailProperties
  <2> HIDE DEF n
  <2>15. CASE Len(todo) = 1
    <3>1. stage' = "collect"
      BY <1>4, <2>15
    <3>2. Tail(todo) = <<>>
      <4> DEFINE r == Tail(todo)
      <4>1. r \in Seq(Entries(C)) /\ Len(r) = 0
        BY <2>14, <2>15
      <4> HIDE DEF r
      <4>2. r = <<>>
        BY <4>1
      <4> QED
        BY <4>2 DEF r
    <3>3. stack' \in Seq(N)
      BY <2>12, <2>13, <3>2, LastFrame
    <3>4. IsBlockList(n)
      BY <2>2, <2>15 DEF n
    <3>5. PICK b : values = <<b>> /\ b.k = "list"
      BY <2>8, <3>4
    <3>6. added # <<>> /\ Last(added) = b
      BY <2>10, <3>5
    <3>7. stack' # <<>> /\ Last(stack') = b
      <4> DEFINE below == SubSeq(stack, 1, p - 1)
                 U == S \union {LIST} \union N
                 s2 == below \o added
      <4>1. below \in Seq(U) /\ added \in Seq(U)
        <5>1. \A i \in 1..p - 1 : stack[i] \in U
          <6>1. \A i \in 1..p - 1 : i \in 1..Len(stack)
            BY <2>3, <2>5
          <6> QED
            BY <2>2, <6>1
        <5>2. 1 \in Int /\ p - 1 \in Int
          BY <2>5
        <5>3. added \in Seq(U)
          BY <2>10, SeqMonotonic
        <5> HIDE DEF U
        <5> QED
          BY <5>1, <5>2, <5>3, SubSeqProperties
      <4> HIDE DEF below, U
      <4>2. s2 # <<>> /\ s2[Len(s2)] = added[Len(added)]
        BY <3>6, <4>1
      <4>3. stack' = s2
        BY <2>10 DEF below
      <4> HIDE DEF s2
      <4> QED
        BY <3>6, <4>2, <4>3 DEF Last
    <3>8. Collected(stack')
      BY <2>11, <3>3, <3>5, <3>7 DEF Collected
    <3> QED
      BY <2>9, <3>1, <3>8 DEF Inv, Walk, Collecting, Waiting, LoopsAreClosed
  <2>16. CASE Len(todo) # 1
    <3>1. stage' = "traverse"
      BY <1>1, <1>4, <2>16
    <3> DEFINE m == Len(todo)
    <3>2. m - 1 \in 1..m - 1 /\ (m - 1) + 1 = m
      <4>1. m \in Nat \ {0} /\ m # 1
        BY <2>3, <2>16
      <4> HIDE DEF m
      <4> QED
        BY <4>1
    <3>3. Tail(todo) # <<>> /\ Tail(todo)[Len(Tail(todo))] = todo[Len(todo)]
      <4> DEFINE r == Tail(todo)
      <4>1. r \in Seq(Entries(C)) /\ Len(r) = m - 1 /\ \A i \in 1..m - 1 : r[i] = todo[i + 1]
        BY <2>14
      <4> HIDE DEF r, m
      <4>2. r[m - 1] = todo[m] /\ Len(r) # 0
        BY <3>2, <4>1
      <4>3. r # <<>> /\ r[Len(r)] = todo[m]
        <5>1. r # <<>>
          BY <4>2
        <5>2. Len(r) = m - 1
          BY <4>1
        <5> QED
          BY <4>2, <5>1, <5>2
      <4> QED
        BY <4>3 DEF r, m
    <3>4. IsBlockList(Tail(todo)[Len(Tail(todo))].of)
      BY <2>2, <3>3
    <3>5. Walking(C, N, at2, Tail(todo), stack')
      BY <2>2, <2>11, <2>12, <2>13, <2>14, <3>3, <3>4 DEF Walking
    <3>6. todo' = Tail(todo)
      BY <1>4
    <3>7. Walk'
      BY <3>5, <3>6 DEF Walk
    <3> QED
      BY <2>9, <3>1, <3>7 DEF Inv, Collecting, Waiting, LoopsAreClosed
  <2> QED
    BY <2>15, <2>16
<1> QED
  BY <1>2, <1>3, <1>4

LEMMA CollectInv == Inv /\ Collect => Inv'
<1> SUFFICES ASSUME Inv, Collect
             PROVE  Inv'
  OBVIOUS
<1> DEFINE a == stack[1].a
           added == Added(a)
<1>1. stage = "collect" /\ childStack' = childStack
  BY DEF Collect
<1>2. \/ stage' = "aborted"
      \/ /\ stage' = "converted" /\ Len(stack) = 1 /\ AllBricks(added)
         /\ bricks' = <<Note>> \o added \/ bricks' = added
  BY DEF Collect, Added
<1>3. Waiting'
  BY <1>1 DEF Inv, Waiting
<1>4. CASE stage' = "aborted"
  BY <1>3, <1>4 DEF Inv, Walk, Collecting, LoopsAreClosed
<1>5. CASE /\ stage' = "converted" /\ Len(stack) = 1 /\ AllBricks(added)
           /\ bricks' = <<Note>> \o added \/ bricks' = added
  <2>1. PICK S : SoundSet(S) /\ stack \in Seq(S) /\ stack # <<>> /\ Last(stack).k = "list"
    BY <1>1 DEF Inv, Collecting, Collected
  <2>2. stack[1] \in S /\ stack[1].k = "list"
    BY <1>5, <2>1 DEF Last
  <2>3. a \in Seq(S) /\ Good(a)
    BY <2>1, <2>2 DEF SoundSet
  <2> HIDE DEF a
  <2>4. added \in Seq(S) /\ Closed(added)
    BY <1>5, <2>3, AddedClosed
  <2> HIDE DEF added
  <2> DEFINE N == S \union {Note}
  <2>5. <<Note>> \in Seq(N) /\ added \in Seq(N)
    BY <2>4, SeqMonotonic
  <2> HIDE DEF N
  <2>6. Nested(added)
    BY <1>5, <2>4, ClosedNested
  <2>7. Nested(<<Note>> \o added)
    <3> DEFINE b == <<Note>> \o added
    <3>1. Closed(<<Note>>)
      <4>1. Len(<<Note>>) = 1 /\ \A i \in 1..1 : <<Note>>[i] = Note
        OBVIOUS
      <4>2. IsNeutral(Note)
        BY NodeFacts
      <4>3. \A i \in 1..Len(<<Note>>) : IsNeutral(<<Note>>[i])
        BY <4>1, <4>2
      <4> QED
        BY <2>5, <4>3, NeutralClosed
    <3>2. Closed(b)
      BY <2>4, <2>5, <3>1, ClosedJoin
    <3>3. b \in Seq(N) /\ Len(b) = 1 + Len(added) /\ Len(added) \in Nat /\ b[1] = Note
          /\ \A i \in 2..1 + Len(added) : b[i] = added[i - 1]
      BY <2>5
    <3> HIDE DEF b
    <3>4. AllBricks(b)
      <4>1. ASSUME NEW i \in DOMAIN b
            PROVE  IsBrick(b[i])
        <5>1. i \in 1..1 + Len(added)
          BY <3>3
        <5>2. CASE i = 1
          BY <3>3, <5>2, NodeFacts
        <5>3. CASE i # 1
          <6>1. i \in 2..1 + Len(added) /\ i - 1 \in 1..Len(added)
            BY <3>3, <5>1, <5>3
          <6>2. i - 1 \in DOMAIN added
            BY <2>4, <6>1
          <6> QED
            BY <1>5, <3>3, <6>1, <6>2 DEF AllBricks
        <5> QED
          BY <5>2, <5>3
      <4> QED
        BY <4>1 DEF AllBricks
    <3>5. Nested(b)
      BY <3>2, <3>3, <3>4, ClosedNested
    <3> QED
      BY <3>5 DEF b
  <2>8. \E b : bricks' = b /\ Nested(b)
    BY <1>5, <2>6, <2>7
  <2>9. LoopsAreClosed'
    BY <2>8 DEF LoopsAreClosed, Nested
  <2> QED
    BY <1>3, <1>5, <2>9 DEF Inv, Walk, Collecting
<1> QED
  BY <1>2, <1>4, <1>5

-------------------------------------------------------------------------------
\* Whatever is converted, wherever an exception makes a note of a block and all it holds, and whatever order the blocks
\* are visited in: the start and end bricks of the script that _catrobat_script_from returns are nested.
THEOREM ClosedInEveryScript == TraversalSpec => []LoopsAreClosed
<1>1. Inv /\ UNCHANGED <<stage, hat, todo, stack, childStack, trigger, bricks>> => Inv'
  BY DEF Inv, Walk, Collecting, Waiting, LoopsAreClosed
<1>2. Inv /\ [Traverse]_<<stage, hat, todo, stack, childStack, trigger, bricks>> => Inv'
  BY <1>1, EnterInv, VisitInv, CollectInv DEF Traverse
<1>3. Inv => LoopsAreClosed
  BY DEF Inv
<1> QED
  BY <1>2, <1>3, InitInv, PTL DEF TraversalSpec
================================================================================
