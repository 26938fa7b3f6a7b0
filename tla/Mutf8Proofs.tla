---------------------------- MODULE Mutf8Proofs ----------------------------
(***************************************************************************)
(* The loops of Cursor, and with them that the transcoders of Mutf8 invert *)
(* each other, on every string of bytes.                                   *)
(*                                                                         *)
(* A loop is a recursion over the buffer, from its end to its beginning,   *)
(* because each round takes at least one byte: WholeLoop.  LoopsInverse    *)
(* lifts what the two transcoders do with one character to the strings.    *)
(* What they do with one character is the relation Spelt; the bulk of the  *)
(* proof says that each transcoder reads and writes exactly its pairs.     *)
(*                                                                         *)
(* Steps with numbers above a few hundred cite SMT: Zenon counts them in   *)
(* unary.                                                                  *)
(***************************************************************************)
EXTENDS Transcoder, WellFoundedInduction, TLAPS

(* Induction over numbers.                                                 *)

LEMMA Least ==
  ASSUME NEW T, T \subseteq Nat, T # {}
  PROVE  \E m \in T : \A k \in T : m <= k
<1> DEFINE R == OpToRel(<, Nat)
<1>1. IsWellFoundedOn(R, Nat)
  BY NatLessThanWellFounded
<1>2. PICK m \in T : \A k \in T : ~ (<<k, m>> \in R)
  <2> HIDE DEF R
  <2> QED
    BY <1>1, WFMin
<1>3. \A k \in T : ~ (k < m)
  BY <1>2 DEF OpToRel
<1> QED
  BY <1>3

LEMMA Upward ==
  ASSUME NEW S, 0 \in S, \A k \in Nat : k \in S => k + 1 \in S
  PROVE  \A k \in Nat : k \in S
<1> DEFINE T == {k \in Nat : k \notin S}
<1> SUFFICES ASSUME T # {} PROVE FALSE
  OBVIOUS
<1>1. PICK m \in T : \A k \in T : m <= k
  <2> T \subseteq Nat
    OBVIOUS
  <2> HIDE DEF T
  <2> QED
    BY Least
<1>2. m \in Nat /\ m \notin S /\ m # 0
  BY <1>1
<1>3. m - 1 \in Nat /\ m - 1 \notin T
  BY <1>1, <1>2
<1> QED
  BY <1>2, <1>3

LEMMA Downward ==
  ASSUME NEW n \in Nat, NEW S, n \in S,
         \A k \in 0 .. n : k # n /\ k + 1 \in S => k \in S
  PROVE  \A k \in 0 .. n : k \in S
<1> DEFINE T == {m \in Nat : m <= n => n - m \in S}
<1>1. 0 \in T
  OBVIOUS
<1>2. \A m \in Nat : m \in T => m + 1 \in T
  <2> SUFFICES ASSUME NEW m \in Nat, m <= n => n - m \in S, m + 1 <= n
               PROVE  n - (m + 1) \in S
    OBVIOUS
  <2>1. n - m \in S /\ n - (m + 1) \in 0 .. n /\ n - (m + 1) # n
    OBVIOUS
  <2>2. (n - (m + 1)) + 1 = n - m
    OBVIOUS
  <2> QED
    BY <2>1, <2>2
<1>3. \A m \in Nat : m \in T
  <2> HIDE DEF T
  <2> QED
    BY <1>1, <1>2, Upward
<1>4. ASSUME NEW k \in 0 .. n PROVE k \in S
  <2>1. n - k \in Nat /\ n - k <= n /\ n - (n - k) = k
    OBVIOUS
  <2> QED
    BY <1>3, <2>1
<1> QED
  BY <1>4

Closed(step) == \A p \in DOMAIN step : step[p].ok => step[p].pos \in DOMAIN step

Loop(step, n, f) ==
  [k \in 0 .. n |-> [p \in DOMAIN step |-> round(step, n, f, k, p)]]

LEMMA RoundAgree ==
  ASSUME NEW step, Closed(step), NEW n \in Nat, NEW g, NEW h, NEW k \in 0 .. n,
         NEW p \in DOMAIN step,
         k = n \/ \A q \in DOMAIN step : g[k + 1][q] = h[k + 1][q]
  PROVE round(step, n, g, k, p) = round(step, n, h, k, p)
BY DEF round, Then, Ok, Closed

LEMMA RoundsExist ==
  ASSUME NEW step, Closed(step), NEW n \in Nat
  PROVE  \E f : f = Loop(step, n, f)
<1> DEFINE D == DOMAIN step
           Good(f, k) == \A j \in k .. n : \A p \in D :
                            f[j][p] = round(step, n, f, j, p)
           S == {k \in 0 .. n : \E f : Good(f, k)}
<1>1. n \in S
  <2> DEFINE f == [j \in {n} |-> [p \in D |-> Ok(<<>>, p)]]
  <2>1. \A p \in D : f[n][p] = round(step, n, f, n, p)
    BY DEF round
  <2>2. \A j \in n .. n : j = n
    OBVIOUS
  <2> HIDE DEF f
  <2>3. Good(f, n)
    BY <2>1, <2>2
  <2> QED
    BY <2>3
<1>2. \A k \in 0 .. n : k # n /\ k + 1 \in S => k \in S
  <2> SUFFICES ASSUME NEW k \in 0 .. n, k # n, NEW f, Good(f, k + 1)
               PROVE  \E g : Good(g, k)
    OBVIOUS
  <2> DEFINE g == [j \in k .. n |-> IF j = k THEN [p \in D |-> round(step, n, f, k, p)]
                                    ELSE f[j]]
  <2>0. \A j \in k .. n : j # k => g[j] = f[j]
    OBVIOUS
  <2>1. ASSUME NEW j \in k .. n, NEW p \in D
        PROVE  g[j][p] = round(step, n, g, j, p)
    <3>1. j \in 0 .. n /\ (j = n \/ (j + 1 \in k .. n /\ j + 1 # k))
      OBVIOUS
    <3>2. j = n \/ \A q \in D : f[j + 1][q] = g[j + 1][q]
      BY <3>1, <2>0
    <3>3. round(step, n, f, j, p) = round(step, n, g, j, p)
      <4> HIDE DEF g
      <4>1. j \in 0 .. n /\ p \in DOMAIN step
        BY <3>1
      <4>2. j = n \/ \A q \in DOMAIN step : f[j + 1][q] = g[j + 1][q]
        BY <3>2
      <4> HIDE DEF D
      <4> QED
        BY <4>1, <4>2, RoundAgree
    <3>4. g[j][p] = round(step, n, f, j, p)
      <4>1. CASE j = k
        BY <4>1
      <4>2. CASE j # k
        <5>1. j \in k + 1 .. n
          BY <4>2
        <5> QED
          BY <5>1, <4>2, <2>0
      <4> QED
        BY <4>1, <4>2
    <3> QED
      BY <3>3, <3>4
  <2> HIDE DEF g
  <2> QED
    BY <2>1
<1>3. 0 \in S
  <2> HIDE DEF S
  <2>1. \A k \in 0 .. n : k \in S
    BY <1>1, <1>2, Downward
  <2> QED
    BY <2>1
<1>4. PICK f : Good(f, 0)
  BY <1>3
<1> DEFINE h == [k \in 0 .. n |-> [p \in D |-> f[k][p]]]
<1>5. ASSUME NEW k \in 0 .. n, NEW p \in D
      PROVE  h[k][p] = round(step, n, h, k, p)
  <2>1. ASSUME k # n, NEW q \in D PROVE f[k + 1][q] = h[k + 1][q]
    <3>1. k + 1 \in 0 .. n
      BY <2>1
    <3> QED
      BY <3>1
  <2>2. round(step, n, f, k, p) = round(step, n, h, k, p)
    <3> HIDE DEF h
    <3>1. k = n \/ \A q \in D : f[k + 1][q] = h[k + 1][q]
      BY <2>1
    <3> QED
      BY <3>1, RoundAgree
  <2> QED
    BY <1>4, <2>2
<1>6. h = [k \in 0 .. n |-> [p \in D |-> round(step, n, h, k, p)]]
  <2> DEFINE hh == [k \in 0 .. n |-> [p \in D |-> round(step, n, h, k, p)]]
  <2>1. ASSUME NEW k \in 0 .. n PROVE h[k] = hh[k]
    BY <1>5
  <2> QED
    BY <2>1
<1> QED
  BY <1>6 DEF Loop

\* One loop for all cursors.
LEMMA RoundsAre ==
  ASSUME NEW step, Closed(step), NEW n \in Nat
  PROVE  \E rest :
           /\ \A k \in 0 .. n : \A p \in DOMAIN step :
                rest[k][p] = round(step, n, rest, k, p)
           /\ \A p : Rounds(step, n, p) = rest[0][p]
<1> DEFINE r == CHOOSE f : f = Loop(step, n, f)
<1>1. r = Loop(step, n, r)
  BY RoundsExist
<1>2. \A p : Rounds(step, n, p) = r[0][p]
  BY Zenon DEF Rounds, Loop
<1>3. \A k \in 0 .. n : \A p \in DOMAIN step : r[k][p] = round(step, n, r, k, p)
  <2> HIDE DEF r
  <2> QED
    BY <1>1 DEF Loop
<1> HIDE DEF r
<1> QED
  BY <1>2, <1>3

-----------------------------------------------------------------------------
(* Loops whose rounds take at least one byte.                              *)

Moves(r, p, n) == r.ok \in BOOLEAN /\ r.pos \in p .. n

\* Induction from the end of a buffer to its beginning.
LEMMA FromLater ==
  ASSUME NEW n \in Nat, NEW S,
         \A p \in 0 .. n : (\A q \in p + 1 .. n : q \in S) => p \in S
  PROVE  \A p \in 0 .. n : p \in S
<1> DEFINE T == {p \in 0 .. n : \A q \in p .. n : q \in S}
<1>1. n \in T
  <2>1. n + 1 .. n = {} /\ n .. n = {n}
    OBVIOUS
  <2> QED
    BY <2>1
<1>2. \A p \in 0 .. n : p # n /\ p + 1 \in T => p \in T
  <2> SUFFICES ASSUME NEW p \in 0 .. n, p # n, p + 1 \in T PROVE p \in T
    OBVIOUS
  <2>1. \A q \in p .. n : q = p \/ q \in p + 1 .. n
    OBVIOUS
  <2> QED
    BY <2>1
<1>3. \A p \in 0 .. n : p \in T
  <2> HIDE DEF T
  <2> QED
    BY <1>1, <1>2, Downward
<1> QED
  BY <1>3

\* What a round of the loop makes of its step and of the later rounds.
from(step, rest, p) ==
  Then(step[p], LAMBDA x, q :
    IF x = <<>> THEN Ok(<<>>, q)
    ELSE Then(rest[q], LAMBDA xs, r : Ok(x \o xs, r)))

\* A loop over a buffer of n bytes whose rounds take at least one.
Taking(step, n) ==
  /\ DOMAIN step = 0 .. n
  /\ \A p \in 0 .. n :
       step[p].ok => /\ step[p].pos \in p .. n
                     /\ step[p].v # <<>> => step[p].pos # p

LEMMA WholeLoop ==
  ASSUME NEW n \in Nat, NEW step, Taking(step, n)
  PROVE  \E rest : \A p \in 0 .. n :
           rest[p] = from(step, rest, p) /\ Rounds(step, n + 1, p) = rest[p]
<1>1. PICK f : /\ \A k \in 0 .. n + 1 : \A p \in DOMAIN step :
                    f[k][p] = round(step, n + 1, f, k, p)
               /\ \A p : Rounds(step, n + 1, p) = f[0][p]
  <2>1. Closed(step) /\ n + 1 \in Nat
    BY DEF Taking, Closed
  <2> QED
    BY <2>1, RoundsAre
<1> DEFINE rest == [p \in 0 .. n |-> f[p][p]]
<1>2. ASSUME NEW k \in 0 .. n, NEW p \in 0 .. n
      PROVE  f[k][p] = Then(step[p], LAMBDA x, q :
                         IF x = <<>> THEN Ok(<<>>, q)
                         ELSE Then(f[k + 1][q], LAMBDA xs, r : Ok(x \o xs, r)))
  <2>1. k \in 0 .. n + 1 /\ k # n + 1
    OBVIOUS
  <2>2. f[k][p] = round(step, n + 1, f, k, p)
    BY <1>1, <2>1 DEF Taking
  <2> QED
    BY <2>1, <2>2 DEF round
<1> DEFINE S == {p \in 0 .. n : \A k \in 0 .. p : f[k][p] = f[p][p]}
<1>3. \A p \in 0 .. n : (\A q \in p + 1 .. n : q \in S) => p \in S
  <2> SUFFICES ASSUME NEW p \in 0 .. n, \A q \in p + 1 .. n : q \in S,
                      NEW k \in 0 .. p
               PROVE  f[k][p] = f[p][p]
    OBVIOUS
  <2> DEFINE q == step[p].pos
  <2>1. CASE step[p].ok /\ step[p].v # <<>>
    <3>1. q \in p + 1 .. n /\ k + 1 \in 0 .. q /\ p + 1 \in 0 .. q
      BY <2>1 DEF Taking
    <3>2. f[k + 1][q] = f[p + 1][q]
      BY <3>1
    <3>3. \A j \in {k, p} : f[j][p] = Then(f[j + 1][q], LAMBDA xs, r :
                                          Ok(step[p].v \o xs, r))
      BY <2>1, <1>2 DEF Then
    <3> QED
      BY <3>2, <3>3
  <2>2. CASE ~ (step[p].ok /\ step[p].v # <<>>)
    BY <2>2, <1>2 DEF Then
  <2> QED
    BY <2>1, <2>2
<1>4. \A p \in 0 .. n : p \in S
  <2> HIDE DEF S
  <2> QED
    BY <1>3, FromLater
<1>5. ASSUME NEW p \in 0 .. n
      PROVE  rest[p] = from(step, rest, p) /\ Rounds(step, n + 1, p) = rest[p]
  <2> DEFINE q == step[p].pos
  <2>1. Rounds(step, n + 1, p) = rest[p]
    BY <1>1, <1>4
  <2>2. CASE step[p].ok /\ step[p].v # <<>>
    <3>1. q \in 0 .. n /\ p + 1 \in 0 .. q
      BY <2>2 DEF Taking
    <3>2. f[p + 1][q] = rest[q]
      BY <3>1, <1>4
    <3>3. rest[p] = f[p][p]
      OBVIOUS
    <3> HIDE DEF rest
    <3> QED
      BY <2>1, <2>2, <3>2, <3>3, <1>2 DEF from, Then
  <2>3. CASE ~ (step[p].ok /\ step[p].v # <<>>)
    <3>1. rest[p] = f[p][p]
      OBVIOUS
    <3> HIDE DEF rest
    <3> QED
      BY <2>1, <2>3, <3>1, <1>2 DEF from, Then
  <2> QED
    BY <2>2, <2>3
<1> HIDE DEF rest
<1> QED
  BY <1>5
\* The bytes of x stand in s at p.
At(s, p, x) == p + Len(x) <= Len(s) /\ \A i \in 1 .. Len(x) : s[p + i] = x[i]

\* What a loop collects is of what its rounds yield.
LEMMA LoopType ==
  ASSUME NEW n \in Nat, NEW step, Taking(step, n), NEW Z,
         \A p \in 0 .. n : step[p].ok \in BOOLEAN,
         \A p \in 0 .. n : step[p].ok => step[p].v \in Seq(Z)
  PROVE  \A p \in 0 .. n :
           LET r == Rounds(step, n + 1, p) IN
           /\ r.ok \in BOOLEAN
           /\ r.ok => r.v \in Seq(Z) /\ r.pos \in p .. n
<1>1. PICK f : \A p \in 0 .. n :
                 f[p] = from(step, f, p) /\ Rounds(step, n + 1, p) = f[p]
  BY WholeLoop
<1> DEFINE Good(r, p) == /\ r.ok \in BOOLEAN
                         /\ r.ok => r.v \in Seq(Z) /\ r.pos \in p .. n
           S == {p \in 0 .. n : Good(f[p], p)}
<1>2. \A p \in 0 .. n : (\A q \in p + 1 .. n : q \in S) => p \in S
  <2> SUFFICES ASSUME NEW p \in 0 .. n, \A q \in p + 1 .. n : q \in S
               PROVE  Good(f[p], p)
    OBVIOUS
  <2> DEFINE x == step[p].v
             q == step[p].pos
  <2>0. f[p] = from(step, f, p)
    BY <1>1
  <2>1. CASE ~ step[p].ok
    BY <2>0, <2>1 DEF from, Then
  <2>2. CASE step[p].ok /\ x = <<>>
    <3>1. f[p] = Ok(<<>>, q)
      BY <2>0, <2>2 DEF from, Then
    <3> QED
      BY <2>2, <3>1 DEF Ok, Taking
  <2>3. CASE step[p].ok /\ x # <<>>
    <3>1. q \in p + 1 .. n
      BY <2>3 DEF Taking
    <3>2. Good(f[q], q)
      BY <3>1
    <3>3. f[p] = Then(f[q], LAMBDA xs, r : Ok(x \o xs, r))
      BY <2>0, <2>3 DEF from, Then
    <3>4. CASE ~ f[q].ok
      BY <3>2, <3>3, <3>4 DEF Then
    <3>5. CASE f[q].ok
      <4>1. f[p] = Ok(x \o f[q].v, f[q].pos)
        BY <3>3, <3>5 DEF Then
      <4>2. x \o f[q].v \in Seq(Z)
        BY <2>3, <3>2, <3>5
      <4> QED
        BY <3>1, <3>2, <3>5, <4>1, <4>2 DEF Ok
    <3> QED
      BY <3>2, <3>4, <3>5
  <2> QED
    BY <2>1, <2>2, <2>3
<1>3. \A p \in 0 .. n : p \in S
  <2> HIDE DEF S
  <2> QED
    BY <1>2, FromLater
<1> QED
  BY <1>1, <1>3

\* C says, per string and position, what the character there is made into;
\* at the string's end it is nothing.
Chars(C) ==
  \A s \in Seq(Byte) :
    /\ DOMAIN C[s] = 0 .. Len(s)
    /\ C[s][Len(s)] = Ok(<<>>, Len(s))
    /\ \A p \in 0 .. Len(s) - 1 :
         /\ C[s][p].ok \in BOOLEAN
         /\ C[s][p].ok => /\ C[s][p].v \in Seq(Byte) \ {<<>>}
                          /\ C[s][p].pos \in p + 1 .. Len(s)

\* Where A makes x of a character, B makes that character of x.
Undoes(B, A) ==
  \A s, t \in Seq(Byte) : \A p \in 0 .. Len(s) - 1, q \in 0 .. Len(t) :
    A[s][p].ok /\ At(t, q, A[s][p].v) =>
      /\ B[t][q].ok /\ B[t][q].pos = q + Len(A[s][p].v)
      /\ At(s, p, B[t][q].v) /\ p + Len(B[t][q].v) = A[s][p].pos

LEMMA OkIs ==
  \A v, p : Ok(v, p).ok = TRUE /\ Ok(v, p).v = v /\ Ok(v, p).pos = p
BY DEF Ok

LEMMA CharsTaking ==
  ASSUME NEW C, Chars(C), NEW s \in Seq(Byte)
  PROVE  /\ Len(s) \in Nat /\ Taking(C[s], Len(s))
         /\ \A p \in 0 .. Len(s) : C[s][p].ok \in BOOLEAN
         /\ \A p \in 0 .. Len(s) : C[s][p].ok => C[s][p].v \in Seq(Byte)
<1>1. Len(s) \in Nat
  OBVIOUS
<1>2. C[s][Len(s)].ok = TRUE /\ C[s][Len(s)].v = <<>> /\ C[s][Len(s)].pos = Len(s)
  <2>1. C[s][Len(s)] = Ok(<<>>, Len(s))
    BY DEF Chars
  <2> QED
    BY <2>1, OkIs
<1>3. <<>> \in Seq(Byte)
  OBVIOUS
<1>4. \A p \in 0 .. Len(s) : p = Len(s) \/ p \in 0 .. Len(s) - 1
  BY <1>1
<1>5. ASSUME NEW p \in 0 .. Len(s)
      PROVE  /\ C[s][p].ok \in BOOLEAN
             /\ C[s][p].ok => /\ C[s][p].v \in Seq(Byte)
                              /\ C[s][p].pos \in p .. Len(s)
                              /\ C[s][p].v # <<>> => C[s][p].pos # p
  <2>1. CASE p = Len(s)
    <3>1. p \in p .. Len(s)
      BY <1>1, <2>1
    <3> QED
      BY <1>2, <1>3, <2>1, <3>1
  <2>2. CASE p \in 0 .. Len(s) - 1
    BY <1>1, <2>2 DEF Chars
  <2> QED
    BY <1>4, <2>1, <2>2
<1>6. DOMAIN C[s] = 0 .. Len(s)
  BY DEF Chars
<1> QED
  BY <1>1, <1>5, <1>6 DEF Taking

\* Two parts that follow each other.
LEMMA AtBoth ==
  ASSUME NEW s \in Seq(Byte), NEW p \in 0 .. Len(s),
         NEW x \in Seq(Byte), NEW y \in Seq(Byte)
  PROVE  At(s, p, x \o y) <=> At(s, p, x) /\ At(s, p + Len(x), y)
<1> DEFINE m == Len(x)
           n == Len(y)
<1>1. m \in Nat /\ n \in Nat /\ Len(x \o y) = m + n /\ p \in Nat
  OBVIOUS
<1>2. \A i \in 1 .. m : (x \o y)[i] = x[i]
  OBVIOUS
<1>3. \A i \in 1 .. n : (x \o y)[m + i] = y[i]
  OBVIOUS
<1>4. ASSUME At(s, p, x \o y) PROVE At(s, p, x) /\ At(s, p + m, y)
  <2>1. \A i \in 1 .. m : i \in 1 .. m + n
    BY <1>1
  <2>2. At(s, p, x)
    BY <1>1, <1>2, <1>4, <2>1 DEF At
  <2>3. \A i \in 1 .. n : m + i \in 1 .. m + n /\ p + (m + i) = (p + m) + i
    BY <1>1
  <2>4. ASSUME NEW i \in 1 .. n PROVE s[(p + m) + i] = y[i]
    <3>1. s[p + (m + i)] = (x \o y)[m + i]
      BY <1>1, <1>4, <2>3 DEF At
    <3> QED
      BY <1>3, <2>3, <3>1
  <2>5. (p + m) + n <= Len(s)
    BY <1>1, <1>4 DEF At
  <2> QED
    BY <2>2, <2>4, <2>5 DEF At
<1>5. ASSUME At(s, p, x), At(s, p + m, y) PROVE At(s, p, x \o y)
  <2>1. ASSUME NEW i \in 1 .. m + n PROVE s[p + i] = (x \o y)[i]
    <3>1. CASE i <= m
      <4>1. i \in 1 .. m
        BY <1>1, <3>1
      <4> QED
        BY <4>1, <1>2, <1>5 DEF At
    <3>2. CASE i > m
      <4>1. i - m \in 1 .. n /\ (p + m) + (i - m) = p + i /\ m + (i - m) = i
        BY <1>1, <3>2
      <4>2. s[(p + m) + (i - m)] = y[i - m] /\ (x \o y)[m + (i - m)] = y[i - m]
        BY <4>1, <1>3, <1>5 DEF At
      <4> QED
        BY <4>1, <4>2
    <3> QED
      BY <1>1, <3>1, <3>2
  <2> QED
    BY <1>1, <1>5, <2>1 DEF At
<1> QED
  BY <1>4, <1>5

LEMMA Split ==
  \A i, j, k, m, l \in Nat :
    m = j + k /\ i + m = l => i + j \in 0 .. l /\ (i + j) + k = l
OBVIOUS

\* If B undoes A character by character, its loop undoes A's.
LEMMA LoopsInverse ==
  ASSUME NEW A, NEW B, Chars(A), Chars(B), Undoes(B, A), NEW s \in Seq(Byte)
  PROVE  LET r == Rounds(A[s], Len(s) + 1, 0) IN
         r.ok => Rounds(B[r.v], Len(r.v) + 1, 0) = Ok(s, Len(r.v))
<1> DEFINE n == Len(s)
<1>1. n \in Nat /\ Taking(A[s], n)
  BY CharsTaking
<1>2. PICK f : \A p \in 0 .. n : /\ f[p] = from(A[s], f, p)
                                /\ Rounds(A[s], n + 1, p) = f[p]
  BY <1>1, WholeLoop
<1>3. \A p \in 0 .. n : /\ f[p].ok \in BOOLEAN
                        /\ f[p].ok => f[p].v \in Seq(Byte)
  <2>1. \A p \in 0 .. n : LET r == Rounds(A[s], n + 1, p) IN
           /\ r.ok \in BOOLEAN
           /\ r.ok => r.v \in Seq(Byte) /\ r.pos \in p .. n
    <3> HIDE DEF n
    <3>1. /\ \A p \in 0 .. n : A[s][p].ok \in BOOLEAN
          /\ \A p \in 0 .. n : A[s][p].ok => A[s][p].v \in Seq(Byte)
      BY CharsTaking DEF n
    <3> QED
      BY <1>1, <3>1, LoopType
  <2> QED
    BY <2>1, <1>2
<1> DEFINE Back(t, q) == Rounds(B[t], Len(t) + 1, q)
           Good(p) ==
             f[p].ok =>
               \A t \in Seq(Byte) : \A q \in 0 .. Len(t) :
                 At(t, q, f[p].v) /\ q + Len(f[p].v) = Len(t) =>
                   /\ Back(t, q).ok = TRUE /\ Back(t, q).pos = Len(t)
                   /\ Back(t, q) = Ok(Back(t, q).v, Len(t))
                   /\ Back(t, q).v \in Seq(Byte)
                   /\ At(s, p, Back(t, q).v) /\ p + Len(Back(t, q).v) = n
           S == {p \in 0 .. n : Good(p)}
<1>4. \A p \in 0 .. n : (\A j \in p + 1 .. n : j \in S) => p \in S
  <2> SUFFICES ASSUME NEW p \in 0 .. n, \A j \in p + 1 .. n : j \in S, f[p].ok,
                      NEW t \in Seq(Byte), NEW q \in 0 .. Len(t),
                      At(t, q, f[p].v), q + Len(f[p].v) = Len(t)
               PROVE  /\ Back(t, q).ok = TRUE /\ Back(t, q).pos = Len(t)
                      /\ Back(t, q) = Ok(Back(t, q).v, Len(t))
                      /\ Back(t, q).v \in Seq(Byte)
                      /\ At(s, p, Back(t, q).v) /\ p + Len(Back(t, q).v) = n
    OBVIOUS
  <2>0. \A o \in p + 1 .. n : Good(o)
    OBVIOUS
  <2> HIDE DEF Back, Good, S
  <2>1. PICK g : \A o \in 0 .. Len(t) : g[o] = from(B[t], g, o) /\ Back(t, o) = g[o]
    <3>1. Len(t) \in Nat /\ Taking(B[t], Len(t))
      BY CharsTaking
    <3> QED
      BY <3>1, WholeLoop DEF Back
  <2>2. CASE p = n
    <3>1. A[s][p] = Ok(<<>>, n)
      BY <2>2 DEF Chars
    <3>2. f[p] = Ok(<<>>, n)
      BY <1>2, <3>1, OkIs DEF from, Then
    <3>3. q = Len(t)
      BY <3>2, OkIs
    <3>4. B[t][q] = Ok(<<>>, Len(t))
      BY <3>3 DEF Chars
    <3>5. Back(t, q) = Ok(<<>>, Len(t))
      BY <2>1, <3>4, OkIs DEF from, Then
    <3>6. At(s, p, <<>>) /\ p + Len(<<>>) = n
      BY <2>2 DEF At, n
    <3>7. <<>> \in Seq(Byte)
      OBVIOUS
    <3>8. Back(t, q).ok = TRUE /\ Back(t, q).v = <<>> /\ Back(t, q).pos = Len(t)
      BY <3>5, OkIs
    <3> QED
      BY <3>5, <3>6, <3>7, <3>8
  <2>3. CASE p # n
    <3> DEFINE x == A[s][p].v
               o == A[s][p].pos
    <3>1. p \in 0 .. n - 1
      BY <1>1, <2>3
    <3>2. f[p] = from(A[s], f, p)
      BY <1>2
    <3>3. A[s][p].ok
      BY <3>2 DEF from, Then
    <3>4. x \in Seq(Byte) /\ x # <<>> /\ o \in p + 1 .. n
      BY <3>1, <3>3 DEF Chars
    <3>5. f[p] = Then(f[o], LAMBDA xs, r : Ok(x \o xs, r))
      BY <3>2, <3>3, <3>4 DEF from, Then
    <3>6. f[o].ok
      BY <3>5 DEF Then
    <3>7. f[p].v = x \o f[o].v /\ f[o].v \in Seq(Byte)
      <4>1. f[p] = Ok(x \o f[o].v, f[o].pos)
        BY <3>5, <3>6 DEF Then
      <4>2. o \in 0 .. n
        BY <1>1, <3>4
      <4>3. f[o].v \in Seq(Byte)
        BY <3>6, <1>3, <4>2
      <4>4. f[p].v = x \o f[o].v
        BY <4>1, OkIs
      <4> QED
        BY <4>3, <4>4
    <3> HIDE DEF x, o, n
    <3>71. At(t, q, x \o f[o].v)
      BY <3>7
    <3>8. At(t, q, x) /\ At(t, q + Len(x), f[o].v)
      BY <3>4, <3>7, <3>71, AtBoth
    <3>9. /\ B[t][q].ok /\ B[t][q].pos = q + Len(x)
          /\ At(s, p, B[t][q].v) /\ p + Len(B[t][q].v) = o
      BY <3>1, <3>3, <3>8 DEF Undoes, x, o, n
    <3>10. /\ Len(x) \in Nat /\ Len(x) # 0 /\ Len(f[o].v) \in Nat
           /\ Len(f[p].v) = Len(x) + Len(f[o].v) /\ Len(t) \in Nat
      BY <3>4, <3>7
    <3>11. q + Len(x) \in 0 .. Len(t) /\ (q + Len(x)) + Len(f[o].v) = Len(t)
      <4>1. PICK j \in Nat : j = Len(x)
        BY <3>10
      <4>2. PICK k \in Nat : k = Len(f[o].v)
        BY <3>10
      <4>3. PICK l \in Nat : l = Len(t)
        BY <3>10
      <4>4. q \in Nat /\ q + (j + k) = l
        BY <3>10, <4>1, <4>2, <4>3
      <4>5. q + j \in 0 .. l /\ (q + j) + k = l
        BY <4>4
      <4> QED
        BY <4>1, <4>2, <4>3, <4>5, Zenon
    <3> DEFINE y == B[t][q].v
               w == Back(t, q + Len(x))
    <3>12. /\ w.ok = TRUE /\ w.pos = Len(t) /\ w.v \in Seq(Byte)
           /\ At(s, o, w.v) /\ o + Len(w.v) = n
      <4>1. Good(o)
        BY <2>0, <3>4
      <4> QED
        BY <4>1, <3>6, <3>8, <3>11 DEF Good, n
    <3>13. q # Len(t)
      BY <3>10
    <3>14. y \in Seq(Byte) /\ y # <<>>
      <4>1. q \in 0 .. Len(t) - 1
        BY <3>13
      <4> QED
        BY <4>1, <3>9 DEF Chars
    <3>15. Back(t, q) = Ok(y \o w.v, Len(t))
      <4>1. Back(t, q) = from(B[t], g, q) /\ w = g[q + Len(x)]
        BY <2>1, <3>11
      <4> QED
        BY <4>1, <3>9, <3>12, <3>14 DEF from, Then
    <3> HIDE DEF y, w
    <3>16. At(s, p, y \o w.v)
      <4>1. p + Len(y) = o /\ At(s, p, y)
        BY <3>9 DEF y
      <4>2. p \in 0 .. Len(s) /\ At(s, p + Len(y), w.v)
        BY <3>12, <4>1 DEF n
      <4> QED
        BY <3>12, <3>14, <4>1, <4>2, AtBoth
    <3>17. p + Len(y \o w.v) = n /\ y \o w.v \in Seq(Byte)
      <4>1. p + Len(y) = o
        BY <3>9 DEF y
      <4>2. Len(y) \in Nat /\ Len(w.v) \in Nat /\ p \in Int
        BY <3>12, <3>14, <1>1
      <4>3. Len(y \o w.v) = Len(y) + Len(w.v) /\ y \o w.v \in Seq(Byte)
        BY <3>12, <3>14
      <4>4. p + (Len(y) + Len(w.v)) = n
        BY <3>12, <4>1, <4>2
      <4> QED
        BY <4>3, <4>4
    <3> QED
      BY <3>15, <3>16, <3>17 DEF Ok
  <2> QED
    BY <2>2, <2>3
<1>5. \A p \in 0 .. n : p \in S
  <2> HIDE DEF S, n
  <2> QED
    BY <1>1, <1>4, FromLater
<1>6. SUFFICES ASSUME f[0].ok PROVE Back(f[0].v, 0) = Ok(s, Len(f[0].v))
  BY <1>1, <1>2
<1>7. f[0].v \in Seq(Byte) /\ 0 \in 0 .. Len(f[0].v)
  BY <1>1, <1>3, <1>6
<1>8. At(f[0].v, 0, f[0].v) /\ 0 + Len(f[0].v) = Len(f[0].v)
  BY <1>7 DEF At
<1> DEFINE z == Back(f[0].v, 0)
<1>9. /\ z = Ok(z.v, Len(f[0].v)) /\ z.v \in Seq(Byte)
      /\ At(s, 0, z.v) /\ Len(z.v) = n
  <2>1. Good(0)
    BY <1>1, <1>5
  <2> QED
    BY <2>1, <1>6, <1>7, <1>8
<1>10. z.v = s
  <2> HIDE DEF z
  <2>1. \A i \in 1 .. n : s[i] = z.v[i]
    BY <1>9 DEF At
  <2> QED
    BY <1>9, <2>1
<1> QED
  BY <1>9, <1>10

-----------------------------------------------------------------------------
(* The bits of code points and bytes.                                      *)

\* What division makes of a number written in the digits of a base.
LEMMA Div64 ==
  ASSUME NEW a \in Nat, NEW r \in Nat, r < 64
  PROVE  (a * 64 + r) \div 64 = a /\ (a * 64 + r) % 64 = r
BY SMT

LEMMA Div1024 ==
  ASSUME NEW a \in Nat, NEW r \in Nat, r < 1024
  PROVE  (a * 1024 + r) \div 1024 = a /\ (a * 1024 + r) % 1024 = r
BY SMT

LEMMA Div4096 ==
  ASSUME NEW a \in Nat, NEW r \in Nat, r < 4096
  PROVE  (a * 4096 + r) \div 4096 = a /\ (a * 4096 + r) % 4096 = r
BY SMT

LEMMA Div262144 ==
  ASSUME NEW a \in Nat, NEW r \in Nat, r < 262144
  PROVE  (a * 262144 + r) \div 262144 = a /\ (a * 262144 + r) % 262144 = r
BY SMT

LEMMA EncodeTwo ==
  ASSUME NEW a \in Nat, 2 <= a, a < 32, NEW x \in Nat, x < 64
  PROVE  encode_utf8(a * 64 + x) = <<192 + a, 128 + x>>
<1> DEFINE n == a * 64 + x
<1>1. n \in Nat /\ 128 <= n /\ n < 2048 /\ n \div 64 = a /\ n % 64 = x
  BY Div64, Div1024, Div4096, Div262144, SMT
<1> HIDE DEF n
<1>2. encode_utf8(n) = <<192 + (n \div 64), Cont(n)>>
  BY <1>1, SMT DEF encode_utf8
<1> QED
  BY <1>1, <1>2, SMT DEF Cont, low6, n

Three64(n, a, x, y) ==
  /\ a \in Nat /\ x \in Nat /\ y \in Nat
  /\ a < 16 /\ x < 64 /\ y < 64
  /\ n = a * 4096 + x * 64 + y

Four64(n, a, x, y, z) ==
  /\ a \in Nat /\ x \in Nat /\ y \in Nat /\ z \in Nat
  /\ a < 8 /\ x < 64 /\ y < 64 /\ z < 64
  /\ n = a * 262144 + x * 4096 + y * 64 + z

LEMMA ThreeEncoded ==
  ASSUME NEW n, NEW a, NEW x, NEW y, Three64(n, a, x, y), n >= 2048
  PROVE  encode_utf8(n) = <<224 + a, 128 + x, 128 + y>>
<1>0. /\ a \in Nat /\ a < 16 /\ x \in Nat /\ x < 64 /\ y \in Nat /\ y < 64
      /\ n = a * 4096 + (x * 64 + y) /\ n = (a * 64 + x) * 64 + y
      /\ n \in Nat /\ n < 65536
  BY SMT DEF Three64
<1>1. n \div 4096 = a
  <2>1. x * 64 + y \in Nat /\ x * 64 + y < 4096
    BY <1>0, SMT
  <2> QED
    BY <1>0, <2>1, Div4096, SMT
<1>2. n \div 64 = a * 64 + x /\ n % 64 = y
  <2>1. a * 64 + x \in Nat
    BY <1>0, SMT
  <2> QED
    BY <1>0, <2>1, Div64, SMT
<1>3. (n \div 64) % 64 = x
  BY <1>0, <1>2, Div64, SMT
<1>4. encode_utf8(n) = <<224 + (n \div 4096), Cont(n \div 64), Cont(n)>>
  BY <1>0, SMT DEF encode_utf8
<1> QED
  BY <1>1, <1>2, <1>3, <1>4, SMT DEF Cont, low6

InFour(n) == 65536 <= n /\ n <= 1114111

LEMMA FourEncoded ==
  ASSUME NEW n, NEW a, NEW x, NEW y, NEW z, Four64(n, a, x, y, z), InFour(n)
  PROVE  encode_utf8(n) = <<240 + a, 128 + x, 128 + y, 128 + z>>
<1>0. /\ a \in Nat /\ a < 8 /\ x \in Nat /\ x < 64 /\ y \in Nat /\ y < 64
      /\ z \in Nat /\ z < 64
      /\ n = a * 262144 + (x * 4096 + y * 64 + z)
      /\ n = (a * 64 + x) * 4096 + (y * 64 + z)
      /\ n = (a * 4096 + x * 64 + y) * 64 + z
      /\ n \in Nat /\ n >= 65536
  BY SMT DEF Four64, InFour
<1>1. n \div 262144 = a
  <2>1. x * 4096 + y * 64 + z \in Nat /\ x * 4096 + y * 64 + z < 262144
    BY <1>0, SMT
  <2> QED
    BY <1>0, <2>1, Div262144, SMT
<1>2. n \div 64 = a * 4096 + x * 64 + y /\ n % 64 = z
  <2>1. a * 4096 + x * 64 + y \in Nat
    BY <1>0, SMT
  <2> QED
    BY <1>0, <2>1, Div64, SMT
<1>3. (n \div 64) % 64 = y
  <2>1. n \div 64 = (a * 64 + x) * 64 + y /\ a * 64 + x \in Nat
    BY <1>0, <1>2, SMT
  <2> QED
    BY <1>0, <2>1, Div64, SMT
<1>4. (n \div 4096) % 64 = x
  <2>1. a * 64 + x \in Nat /\ y * 64 + z \in Nat /\ y * 64 + z < 4096
    BY <1>0, SMT
  <2>2. n \div 4096 = a * 64 + x
    BY <1>0, <2>1, Div4096, SMT
  <2> QED
    BY <1>0, <2>2, Div64, SMT
<1>5. encode_utf8(n) =
        <<240 + (n \div 262144), Cont(n \div 4096), Cont(n \div 64), Cont(n)>>
  BY <1>0, SMT DEF encode_utf8
<1> QED
  BY <1>1, <1>2, <1>3, <1>4, <1>5, SMT DEF Cont, low6

\* A code point is the sum of its digits.
LEMMA Division ==
  ASSUME NEW n \in Nat
  PROVE  /\ n \div 64 \in Nat
         /\ 64 * (n \div 64) <= n /\ n < 64 * (n \div 64) + 64
BY SMT

LEMMA ThreeDigits ==
  ASSUME NEW n \in Nat, n < 65536
  PROVE  \E a, x, y : Three64(n, a, x, y)
<1> DEFINE m == n \div 64
           a == m \div 64
           x == m - 64 * a
           y == n - 64 * m
<1>1. m \in Nat /\ 64 * m <= n /\ n < 64 * m + 64
  BY SMT
<1> HIDE DEF m
<1>2. a \in Nat /\ 64 * a <= m /\ m < 64 * a + 64
  BY <1>1, SMT
<1> HIDE DEF a
<1>3. x \in Nat /\ x < 64 /\ y \in Nat /\ y < 64
  BY <1>1, <1>2, SMT
<1>4. a < 16 /\ n = a * 4096 + x * 64 + y
  BY <1>1, <1>2, SMT
<1> HIDE DEF x, y
<1>5. Three64(n, a, x, y)
  BY <1>2, <1>3, <1>4, SMT DEF Three64
<1> QED
  BY <1>5, SMT

LEMMA FourDigits ==
  ASSUME NEW n \in Nat, n <= 1114111
  PROVE  \E a, x, y, z : Four64(n, a, x, y, z)
<1> DEFINE m == n \div 64
           l == m \div 64
           a == l \div 64
           x == l - 64 * a
           y == m - 64 * l
           z == n - 64 * m
<1>1. m \in Nat /\ 64 * m <= n /\ n < 64 * m + 64
  BY SMT
<1> HIDE DEF m
<1>2. l \in Nat /\ 64 * l <= m /\ m < 64 * l + 64
  BY <1>1, SMT
<1> HIDE DEF l
<1>3. a \in Nat /\ 64 * a <= l /\ l < 64 * a + 64
  BY <1>2, SMT
<1> HIDE DEF a
<1>4. x \in Nat /\ x < 64 /\ y \in Nat /\ y < 64 /\ z \in Nat /\ z < 64
  BY <1>1, <1>2, <1>3, SMT
<1>5. a < 8 /\ n = a * 262144 + x * 4096 + y * 64 + z
  BY <1>1, <1>2, <1>3, SMT
<1> HIDE DEF x, y, z
<1>6. Four64(n, a, x, y, z)
  BY <1>3, <1>4, <1>5, SMT DEF Four64
<1> QED
  BY <1>6, SMT

\* The bytes of three and four byte characters.
Bytes3(s, p, a, x, y) ==
  p + 3 <= Len(s) /\ s[p + 1] = 224 + a /\ s[p + 2] = 128 + x /\ s[p + 3] = 128 + y

Bytes4(s, p, a, x, y, z) ==
  /\ p + 4 <= Len(s) /\ s[p + 1] = 240 + a /\ s[p + 2] = 128 + x
  /\ s[p + 3] = 128 + y /\ s[p + 4] = 128 + z

LEMMA ByteOf ==
  ASSUME NEW s \in Seq(Byte), NEW i \in 1 .. Len(s)
  PROVE  s[i] \in Byte /\ s[i] \in Nat /\ s[i] < 256
<1>1. s[i] \in Byte
  OBVIOUS
<1>2. \A b \in Byte : b \in Nat /\ b < 256
  BY DEF Byte
<1> QED
  BY <1>1, <1>2

LEMMA ContRead ==
  ASSUME NEW b \in Nat, b < 256, is_cont(b)
  PROVE  b - 128 \in Nat /\ b - 128 < 64 /\ low6(b) = b - 128 /\ b = 128 + (b - 128)
BY SMT DEF is_cont, low6

LEMMA ContWritten ==
  ASSUME NEW x \in Nat, x < 64
  PROVE  is_cont(128 + x) /\ low6(128 + x) = x
BY SMT DEF is_cont, low6

LEMMA Lead2Read ==
  ASSUME NEW b \in Nat, b < 256, lead2(b)
  PROVE  b - 192 \in Nat /\ b - 192 < 32 /\ b % 32 = b - 192 /\ b = 192 + (b - 192)
BY SMT DEF lead2

LEMMA Lead3Read ==
  ASSUME NEW b \in Nat, b < 256, lead3(b)
  PROVE  b - 224 \in Nat /\ b - 224 < 16 /\ b % 16 = b - 224 /\ b = 224 + (b - 224)
BY SMT DEF lead3

LEMMA Lead4Read ==
  ASSUME NEW b \in Nat, b < 256, lead4(b)
  PROVE  b - 240 \in Nat /\ b - 240 < 8 /\ b % 8 = b - 240 /\ b = 240 + (b - 240)
BY SMT DEF lead4

LEMMA Lead2Written ==
  ASSUME NEW a \in Nat, a < 32
  PROVE  lead2(192 + a) /\ (192 + a) % 32 = a
BY SMT DEF lead2

LEMMA Lead3Written ==
  ASSUME NEW a \in Nat, a < 16
  PROVE  /\ lead3(224 + a) /\ (224 + a) % 16 = a
         /\ ~ lead2(224 + a)
BY SMT DEF lead2, lead3

LEMMA Lead4Written ==
  ASSUME NEW a \in Nat, a < 8
  PROVE  /\ lead4(240 + a) /\ (240 + a) % 8 = a
         /\ ~ lead2(240 + a) /\ ~ lead3(240 + a)
BY SMT DEF lead2, lead3, lead4

LEMMA ThreeRead ==
  ASSUME NEW s \in Seq(Byte), NEW p \in Nat, ThreeBytes(s, p)
  PROVE  \E a, x, y : Bytes3(s, p, a, x, y) /\ Three64(cp3(s, p), a, x, y)
<1> DEFINE a == s[p + 1] - 224
           x == s[p + 2] - 128
           y == s[p + 3] - 128
<1>1. p + 1 \in 1 .. Len(s) /\ p + 2 \in 1 .. Len(s) /\ p + 3 \in 1 .. Len(s)
  BY SMT DEF ThreeBytes
<1>2. a \in Nat /\ a < 16 /\ s[p + 1] % 16 = a /\ s[p + 1] = 224 + a
  BY <1>1, ByteOf, Lead3Read, ZenonT(30) DEF ThreeBytes
<1>3. x \in Nat /\ x < 64 /\ low6(s[p + 2]) = x /\ s[p + 2] = 128 + x
  BY <1>1, ByteOf, ContRead, Zenon DEF ThreeBytes
<1>4. y \in Nat /\ y < 64 /\ low6(s[p + 3]) = y /\ s[p + 3] = 128 + y
  BY <1>1, ByteOf, ContRead, Zenon DEF ThreeBytes
<1> HIDE DEF a, x, y
<1>5. Bytes3(s, p, a, x, y)
  BY <1>2, <1>3, <1>4, Zenon DEF Bytes3, ThreeBytes
<1>6. Three64(cp3(s, p), a, x, y)
  BY <1>2, <1>3, <1>4, SMT DEF Three64, cp3
<1> QED
  BY <1>5, <1>6, Zenon

LEMMA ThreeWritten ==
  ASSUME NEW s \in Seq(Byte), NEW p \in Nat, NEW n, NEW a, NEW x, NEW y,
         Three64(n, a, x, y), Bytes3(s, p, a, x, y)
  PROVE  ThreeBytes(s, p) /\ cp3(s, p) = n
<1>0. a \in Nat /\ a < 16 /\ x \in Nat /\ x < 64 /\ y \in Nat /\ y < 64
  BY SMT DEF Three64
<1>1. /\ lead3(s[p + 1]) /\ s[p + 1] % 16 = a
      /\ is_cont(s[p + 2]) /\ low6(s[p + 2]) = x
      /\ is_cont(s[p + 3]) /\ low6(s[p + 3]) = y
  <2>1. lead3(224 + a) /\ (224 + a) % 16 = a
    BY <1>0, Lead3Written
  <2>2. is_cont(128 + x) /\ low6(128 + x) = x /\ is_cont(128 + y) /\ low6(128 + y) = y
    BY <1>0, ContWritten
  <2> QED
    BY <2>1, <2>2 DEF Bytes3
<1>2. ThreeBytes(s, p)
  BY <1>1, Zenon DEF ThreeBytes, Bytes3
<1>3. cp3(s, p) = n
  BY <1>1, SMT DEF cp3, Three64
<1> QED
  BY <1>2, <1>3

LEMMA FourRead ==
  ASSUME NEW s \in Seq(Byte), NEW p \in Nat, Four(s, p)
  PROVE  \E a, x, y, z : Bytes4(s, p, a, x, y, z) /\ Four64(cp4(s, p), a, x, y, z)
<1> DEFINE a == s[p + 1] - 240
           x == s[p + 2] - 128
           y == s[p + 3] - 128
           z == s[p + 4] - 128
<1>0. /\ p + 4 <= Len(s) /\ lead4(s[p + 1])
      /\ is_cont(s[p + 2]) /\ is_cont(s[p + 3]) /\ is_cont(s[p + 4])
  BY SMT DEF Four
<1>1. /\ p + 1 \in 1 .. Len(s) /\ p + 2 \in 1 .. Len(s)
      /\ p + 3 \in 1 .. Len(s) /\ p + 4 \in 1 .. Len(s)
  BY <1>0, SMT
<1>2. a \in Nat /\ a < 8 /\ s[p + 1] % 8 = a /\ s[p + 1] = 240 + a
  BY <1>0, <1>1, ByteOf, Lead4Read, ZenonT(30)
<1>3. x \in Nat /\ x < 64 /\ low6(s[p + 2]) = x /\ s[p + 2] = 128 + x
  BY <1>0, <1>1, ByteOf, ContRead, Zenon
<1>4. y \in Nat /\ y < 64 /\ low6(s[p + 3]) = y /\ s[p + 3] = 128 + y
  BY <1>0, <1>1, ByteOf, ContRead, Zenon
<1>5. z \in Nat /\ z < 64 /\ low6(s[p + 4]) = z /\ s[p + 4] = 128 + z
  BY <1>0, <1>1, ByteOf, ContRead, Zenon
<1> HIDE DEF a, x, y, z
<1>6. Bytes4(s, p, a, x, y, z)
  BY <1>0, <1>2, <1>3, <1>4, <1>5, Zenon DEF Bytes4
<1>7. Four64(cp4(s, p), a, x, y, z)
  BY <1>2, <1>3, <1>4, <1>5, SMT DEF Four64, cp4
<1> QED
  BY <1>6, <1>7, Zenon

LEMMA FourWritten ==
  ASSUME NEW s \in Seq(Byte), NEW p \in Nat, NEW n, NEW a, NEW x, NEW y, NEW z,
         Four64(n, a, x, y, z), Bytes4(s, p, a, x, y, z), InFour(n)
  PROVE  Four(s, p) /\ cp4(s, p) = n
<1>1. /\ lead4(s[p + 1]) /\ s[p + 1] % 8 = a
      /\ is_cont(s[p + 2]) /\ low6(s[p + 2]) = x
      /\ is_cont(s[p + 3]) /\ low6(s[p + 3]) = y
      /\ is_cont(s[p + 4]) /\ low6(s[p + 4]) = z
  <2>1. a \in Nat /\ a < 8 /\ x \in Nat /\ x < 64 /\ y \in Nat /\ y < 64
        /\ z \in Nat /\ z < 64
    BY SMT DEF Four64
  <2>2. lead4(240 + a) /\ (240 + a) % 8 = a
    BY <2>1, Lead4Written, SMT
  <2>3. /\ is_cont(128 + x) /\ low6(128 + x) = x
        /\ is_cont(128 + y) /\ low6(128 + y) = y
        /\ is_cont(128 + z) /\ low6(128 + z) = z
    BY <2>1, ContWritten, SMT
  <2> QED
    BY <2>2, <2>3, SMT DEF Bytes4
<1>2. cp4(s, p) = n
  BY <1>1, SMT DEF cp4, Four64
<1>3. Four(s, p)
  BY <1>1, <1>2, SMT DEF Four, Bytes4, InFour
<1> QED
  BY <1>2, <1>3

LEMMA FewBytes ==
  /\ \A i \in 1 .. 1 : i = 1
  /\ \A i \in 1 .. 2 : i = 1 \/ i = 2
  /\ \A i \in 1 .. 3 : i = 1 \/ i = 2 \/ i = 3
  /\ \A i \in 1 .. 4 : i = 1 \/ i = 2 \/ i = 3 \/ i = 4
OBVIOUS

LEMMA At1 ==
  ASSUME NEW s \in Seq(Byte), NEW p \in Nat, NEW b
  PROVE  At(s, p, <<b>>) <=> p + 1 <= Len(s) /\ s[p + 1] = b
BY FewBytes DEF At

LEMMA At2 ==
  ASSUME NEW s \in Seq(Byte), NEW p \in Nat, NEW b, NEW c
  PROVE  At(s, p, <<b, c>>) <=> p + 2 <= Len(s) /\ s[p + 1] = b /\ s[p + 2] = c
BY FewBytes DEF At

LEMMA At3 ==
  ASSUME NEW s \in Seq(Byte), NEW p \in Nat, NEW b, NEW c, NEW d
  PROVE  At(s, p, <<b, c, d>>) <=>
           p + 3 <= Len(s) /\ s[p + 1] = b /\ s[p + 2] = c /\ s[p + 3] = d
BY FewBytes DEF At

LEMMA At4 ==
  ASSUME NEW s \in Seq(Byte), NEW p \in Nat, NEW b, NEW c, NEW d, NEW e
  PROVE  At(s, p, <<b, c, d, e>>) <=>
           /\ p + 4 <= Len(s) /\ s[p + 1] = b /\ s[p + 2] = c /\ s[p + 3] = d
           /\ s[p + 4] = e
BY FewBytes DEF At

Join(h, l) == 65536 + (h - 55296) * 1024 + l - 56320

LEMMA JoinIn ==
  ASSUME NEW h \in Nat, NEW l \in Nat, High(h), Low(l)
  PROVE  InFour(Join(h, l)) /\ Join(h, l) \in Nat
BY SMT DEF High, Low, Join, InFour

LEMMA JoinDiv ==
  ASSUME NEW h \in Nat, NEW l \in Nat, High(h), Low(l)
  PROVE  /\ 55296 + ((Join(h, l) - 65536) \div 1024) = h
         /\ 56320 + ((Join(h, l) - 65536) % 1024) = l
<1> DEFINE a == h - 55296
           r == l - 56320
<1>1. a \in Nat /\ r \in Nat /\ r < 1024 /\ Join(h, l) - 65536 = a * 1024 + r
  BY SMT DEF High, Low, Join
<1>2. h = 55296 + a /\ l = 56320 + r
  BY SMT
<1> HIDE DEF a, r
<1>3. (a * 1024 + r) \div 1024 = a /\ (a * 1024 + r) % 1024 = r
  BY <1>1, Div1024, SMT
<1> QED
  BY <1>1, <1>2, <1>3, SMT

LEMMA JoinSplit ==
  ASSUME NEW h \in Nat, NEW l \in Nat, High(h), Low(l)
  PROVE  surrogates(Join(h, l)) = encode_utf8(h) \o encode_utf8(l)
<1> DEFINE j == Join(h, l)
<1>1. /\ 55296 + ((j - 65536) \div 1024) = h
      /\ 56320 + ((j - 65536) % 1024) = l
  BY JoinDiv, SMT
<1> HIDE DEF j
<1>2. surrogates(j) = encode_utf8(h) \o encode_utf8(l)
  BY <1>1, SMT DEF surrogates
<1> QED
  BY <1>2, SMT DEF j

IsPair(n, h, l) == h \in Nat /\ l \in Nat /\ High(h) /\ Low(l) /\ n = Join(h, l)

LEMMA JoinOf ==
  ASSUME NEW n \in Nat, InFour(n)
  PROVE  \E h, l : IsPair(n, h, l)
<1> DEFINE j == n - 65536
           a == j \div 1024
           h == 55296 + a
           l == 56320 + (j - 1024 * a)
<1>1. j \in Nat /\ j <= 1048575 /\ n = j + 65536
  BY SMT DEF InFour
<1> HIDE DEF j
<1>2. a \in Nat /\ 1024 * a <= j /\ j < 1024 * a + 1024
  BY <1>1, SMT
<1> HIDE DEF a
<1>3. h \in Nat /\ l \in Nat /\ High(h) /\ Low(l) /\ n = Join(h, l)
  BY <1>1, <1>2, SMT DEF High, Low, Join
<1> HIDE DEF h, l
<1>4. IsPair(n, h, l)
  BY <1>3, SMT DEF IsPair
<1> QED
  BY <1>4, SMT

Two64(n, a, x) ==
  a \in Nat /\ x \in Nat /\ 2 <= a /\ a < 32 /\ x < 64 /\ n = a * 64 + x

Bytes2(s, p, a, x) == p + 2 <= Len(s) /\ s[p + 1] = 192 + a /\ s[p + 2] = 128 + x

LEMMA TwoRead ==
  ASSUME NEW s \in Seq(Byte), NEW p \in Nat, Two(s, p)
  PROVE  \E a, x : Bytes2(s, p, a, x) /\ Two64(cp2(s, p), a, x)
<1> DEFINE a == s[p + 1] - 192
           x == s[p + 2] - 128
<1>1. p + 1 \in 1 .. Len(s) /\ p + 2 \in 1 .. Len(s)
  BY SMT DEF Two
<1>2. a \in Nat /\ a < 32 /\ s[p + 1] % 32 = a /\ s[p + 1] = 192 + a
  BY <1>1, ByteOf, Lead2Read, ZenonT(30) DEF Two
<1>3. x \in Nat /\ x < 64 /\ low6(s[p + 2]) = x /\ s[p + 2] = 128 + x
  BY <1>1, ByteOf, ContRead, Zenon DEF Two
<1> HIDE DEF a, x
<1>4. 2 <= a
  BY <1>2, SMT DEF Two
<1>5. Bytes2(s, p, a, x)
  BY <1>2, <1>3, SMT DEF Bytes2, Two
<1>6. Two64(cp2(s, p), a, x)
  BY <1>2, <1>3, <1>4, SMT DEF Two64, cp2
<1> QED
  BY <1>5, <1>6, Zenon

LEMMA TwoWritten ==
  ASSUME NEW s \in Seq(Byte), NEW p \in Nat, NEW n, NEW a, NEW x,
         Two64(n, a, x), Bytes2(s, p, a, x)
  PROVE  Two(s, p) /\ cp2(s, p) = n
<1>0. a \in Nat /\ 2 <= a /\ a < 32 /\ x \in Nat /\ x < 64
  BY SMT DEF Two64
<1>1. lead2(192 + a) /\ (192 + a) % 32 = a
  BY <1>0, Lead2Written, SMT
<1>2. is_cont(128 + x) /\ low6(128 + x) = x
  BY <1>0, ContWritten, SMT
<1>3. Two(s, p)
  BY <1>0, <1>1, <1>2, SMT DEF Two, Bytes2
<1>4. cp2(s, p) = n
  BY <1>1, <1>2, SMT DEF cp2, Two64, Bytes2
<1> QED
  BY <1>3, <1>4, SMT

LEMMA TwoEncoded ==
  ASSUME NEW n, NEW a, NEW x, Two64(n, a, x)
  PROVE  encode_utf8(n) = <<192 + a, 128 + x>>
<1>0. /\ a \in Nat /\ 2 <= a /\ a < 32 /\ x \in Nat /\ x < 64
      /\ n = a * 64 + x /\ n \in Nat /\ 128 <= n /\ n < 2048
  BY SMT DEF Two64
<1>1. n \div 64 = a /\ n % 64 = x
  BY <1>0, Div64, SMT
<1>2. encode_utf8(n) = <<192 + (n \div 64), Cont(n)>>
  BY <1>0, SMT DEF encode_utf8
<1> QED
  BY <1>1, <1>2, SMT DEF Cont, low6

\* The characters: their bytes u in UTF-8 and m in MUTF-8.
NulAs(u, m) == u = <<0>> /\ m = <<192, 128>>
AsciiAs(u, m) == \E b \in Nat : 0 < b /\ b < 128 /\ u = <<b>> /\ m = u
TwoAs(u, m) == \E n, a, x : Two64(n, a, x) /\ u = <<192 + a, 128 + x>> /\ m = u
ThreeAs(u, m) ==
  \E n, a, x, y : /\ Three64(n, a, x, y) /\ n >= 2048 /\ ~ High(n) /\ ~ Low(n)
                  /\ u = <<224 + a, 128 + x, 128 + y>> /\ m = u
FourAs(u, m) ==
  \E n, h, l, a, x, y, z :
    /\ IsPair(n, h, l) /\ Four64(n, a, x, y, z) /\ InFour(n)
    /\ u = <<240 + a, 128 + x, 128 + y, 128 + z>>
    /\ m = encode_utf8(h) \o encode_utf8(l)

Spelt(u, m) ==
  NulAs(u, m) \/ AsciiAs(u, m) \/ TwoAs(u, m) \/ ThreeAs(u, m) \/ FourAs(u, m)

LEMMA SurrogateRead ==
  ASSUME NEW n \in Nat, High(n) \/ Low(n)
  PROVE  /\ n >= 2048
         /\ \E a, x, y : Three64(n, a, x, y)
                         /\ encode_utf8(n) = <<224 + a, 128 + x, 128 + y>>
<1>1. n < 65536 /\ n >= 2048
  BY SMT DEF High, Low
<1>2. PICK a, x, y : Three64(n, a, x, y)
  BY <1>1, ThreeDigits, SMT
<1>3. encode_utf8(n) = <<224 + a, 128 + x, 128 + y>>
  BY <1>1, <1>2, ThreeEncoded, SMT
<1> QED
  BY <1>1, <1>2, <1>3, SMT

\* The sequences of bytes that are not 0.
NonZero == Byte \ {0}

LEMMA BytesAre ==
  /\ \A x \in Nat : x < 64 => 128 + x \in NonZero
  /\ \A a \in Nat : a < 32 => 192 + a \in NonZero
  /\ \A a \in Nat : a < 16 => 224 + a \in NonZero
  /\ \A a \in Nat : a < 8 => 240 + a \in NonZero
  /\ \A b \in Nat : 0 < b /\ b < 128 => b \in NonZero
  /\ 192 \in NonZero /\ 128 \in NonZero /\ 0 \in Byte
  /\ \A b \in NonZero : b \in Byte
BY SMT DEF NonZero, Byte

LEMMA Joined ==
  ASSUME NEW Z, NEW x \in Seq(Z), NEW y \in Seq(Z)
  PROVE  /\ x \o y \in Seq(Z) /\ Len(x \o y) = Len(x) + Len(y)
         /\ Len(x) \in Nat /\ Len(y) \in Nat
OBVIOUS

LEMMA SurrogateType ==
  ASSUME NEW k \in Nat, High(k) \/ Low(k)
  PROVE  encode_utf8(k) \in Seq(NonZero) /\ Len(encode_utf8(k)) = 3
<1>1. PICK b, c, d : /\ Three64(k, b, c, d)
                     /\ encode_utf8(k) = <<224 + b, 128 + c, 128 + d>>
  BY SurrogateRead, SMT
<1>2. 224 + b \in NonZero /\ 128 + c \in NonZero /\ 128 + d \in NonZero
  BY <1>1, BytesAre, SMT DEF Three64
<1> QED
  BY <1>1, <1>2, SMT

LEMMA SpeltType ==
  ASSUME NEW u, NEW m, Spelt(u, m)
  PROVE  /\ u \in Seq(Byte) /\ u # <<>>
         /\ m \in Seq(NonZero) /\ m # <<>>
<1>1. CASE NulAs(u, m)
  <2>1. 0 \in Byte /\ 192 \in NonZero /\ 128 \in NonZero
    BY BytesAre, SMT
  <2> QED
    BY <1>1, <2>1, SMT DEF NulAs
<1>2. CASE AsciiAs(u, m)
  <2>1. PICK b \in Nat : 0 < b /\ b < 128 /\ u = <<b>> /\ m = u
    BY <1>2, SMT DEF AsciiAs
  <2>2. b \in NonZero /\ b \in Byte
    BY <2>1, BytesAre, SMT
  <2> QED
    BY <2>1, <2>2, SMT
<1>3. CASE TwoAs(u, m)
  <2>1. PICK n, a, x : Two64(n, a, x) /\ u = <<192 + a, 128 + x>> /\ m = u
    BY <1>3, SMT DEF TwoAs
  <2>2. 192 + a \in NonZero /\ 128 + x \in NonZero
    BY <2>1, BytesAre, SMT DEF Two64
  <2>3. 192 + a \in Byte /\ 128 + x \in Byte
    BY <2>2, BytesAre, SMT
  <2> QED
    BY <2>1, <2>2, <2>3, SMT
<1>4. CASE ThreeAs(u, m)
  <2>1. PICK n, a, x, y : Three64(n, a, x, y)
                          /\ u = <<224 + a, 128 + x, 128 + y>> /\ m = u
    BY <1>4, SMT DEF ThreeAs
  <2>2. 224 + a \in NonZero /\ 128 + x \in NonZero /\ 128 + y \in NonZero
    BY <2>1, BytesAre, SMT DEF Three64
  <2>3. 224 + a \in Byte /\ 128 + x \in Byte /\ 128 + y \in Byte
    BY <2>2, BytesAre, SMT
  <2> QED
    BY <2>1, <2>2, <2>3, SMT
<1>5. CASE FourAs(u, m)
  <2>1. PICK n, h, l, a, x, y, z :
          /\ IsPair(n, h, l) /\ Four64(n, a, x, y, z) /\ InFour(n)
          /\ u = <<240 + a, 128 + x, 128 + y, 128 + z>>
          /\ m = encode_utf8(h) \o encode_utf8(l)
    BY <1>5, SMT DEF FourAs
  <2>2. /\ 240 + a \in NonZero /\ 128 + x \in NonZero /\ 128 + y \in NonZero
        /\ 128 + z \in NonZero
    BY <2>1, BytesAre, SMT DEF Four64
  <2>3. 240 + a \in Byte /\ 128 + x \in Byte /\ 128 + y \in Byte /\ 128 + z \in Byte
    BY <2>2, BytesAre, SMT
  <2>4. u \in Seq(Byte) /\ u # <<>>
    BY <2>1, <2>3, SMT
  <2>6. /\ encode_utf8(h) \in Seq(NonZero) /\ Len(encode_utf8(h)) = 3
        /\ encode_utf8(l) \in Seq(NonZero) /\ Len(encode_utf8(l)) = 3
    BY <2>1, SurrogateType, SMT DEF IsPair
  <2>7. m \in Seq(NonZero) /\ Len(m) = Len(encode_utf8(h)) + Len(encode_utf8(l))
    BY <2>1, <2>6, Joined, Zenon
  <2>8. m \in Seq(NonZero) /\ m # <<>>
    <3>1. Len(m) = 6
      BY <2>6, <2>7, SMT
    <3> QED
      BY <2>7, <3>1, SMT
  <2> QED
    BY <2>4, <2>8, SMT
<1> QED
  BY <1>1, <1>2, <1>3, <1>4, <1>5, SMT DEF Spelt

-----------------------------------------------------------------------------
(* One character.                                                          *)

LEMMA SeqNonZero ==
  ASSUME NEW x \in Seq(NonZero)
  PROVE  x \in Seq(Byte)
<1>1. NonZero \subseteq Byte
  BY BytesAre, Zenon
<1> HIDE DEF NonZero
<1> QED
  BY <1>1

LEMMA ThreeIsNot ==
  ASSUME NEW t \in Seq(Byte), NEW q \in Nat, ThreeBytes(t, q)
  PROVE  t[q + 1] # 0 /\ ~ Nul(t, q) /\ ~ Ascii(t, q) /\ ~ Two(t, q)
<1>1. PICK a, x, y : Bytes3(t, q, a, x, y) /\ Three64(cp3(t, q), a, x, y)
  BY ThreeRead, SMT
<1>2. a \in Nat /\ a < 16 /\ t[q + 1] = 224 + a
  BY <1>1, SMT DEF Three64, Bytes3
<1>3. ~ lead2(224 + a)
  BY <1>2, Lead3Written, SMT
<1> QED
  BY <1>2, <1>3, SMT DEF Ascii, Two, Nul

\* A surrogate where its three bytes stand, and the other way round.
LEMMA SurrogateAt ==
  ASSUME NEW t \in Seq(Byte), NEW q \in Nat, NEW n \in Nat, High(n) \/ Low(n),
         At(t, q, encode_utf8(n))
  PROVE  ThreeBytes(t, q) /\ cp3(t, q) = n
<1>1. PICK a, x, y : /\ Three64(n, a, x, y)
                     /\ encode_utf8(n) = <<224 + a, 128 + x, 128 + y>>
  BY SurrogateRead, SMT
<1>2. Bytes3(t, q, a, x, y)
  BY <1>1, At3, SMT DEF Bytes3
<1> QED
  BY <1>1, <1>2, ThreeWritten, SMT

LEMMA SurrogateFrom ==
  ASSUME NEW s \in Seq(Byte), NEW p \in Nat, ThreeBytes(s, p),
         High(cp3(s, p)) \/ Low(cp3(s, p))
  PROVE  cp3(s, p) \in Nat /\ At(s, p, encode_utf8(cp3(s, p)))
<1>1. PICK a, x, y : Bytes3(s, p, a, x, y) /\ Three64(cp3(s, p), a, x, y)
  BY ThreeRead, SMT
<1>2. cp3(s, p) \in Nat /\ cp3(s, p) >= 2048
  <2>1. cp3(s, p) \in Nat
    BY <1>1, SMT DEF Three64
  <2> QED
    BY <2>1, SMT DEF High, Low
<1>3. encode_utf8(cp3(s, p)) = <<224 + a, 128 + x, 128 + y>>
  BY <1>1, <1>2, ThreeEncoded, SMT
<1>4. At(s, p, <<224 + a, 128 + x, 128 + y>>)
  BY <1>1, At3, SMT DEF Bytes3
<1> QED
  BY <1>2, <1>3, <1>4, SMT

LEMMA Utf8Takes ==
  ASSUME NEW t \in Seq(Byte), NEW q \in Nat, NEW u, NEW m, Spelt(u, m), At(t, q, u)
  PROVE  utf8_char(t, q) = Ok(m, q + Len(u))
<1>1. CASE NulAs(u, m)
  <2>1. u = <<0>> /\ m = <<192, 128>> /\ Len(u) = 1
    BY <1>1, SMT DEF NulAs
  <2>2. t[q + 1] = 0
    BY <2>1, At1, SMT
  <2> QED
    BY <2>1, <2>2, SMT DEF utf8_char
<1>2. CASE AsciiAs(u, m)
  <2>1. PICK b \in Nat : 0 < b /\ b < 128 /\ u = <<b>> /\ m = u
    BY <1>2, SMT DEF AsciiAs
  <2>2. t[q + 1] = b /\ Len(u) = 1
    BY <2>1, At1, SMT
  <2> QED
    BY <2>1, <2>2, SMT DEF utf8_char, Ascii
<1>3. CASE TwoAs(u, m)
  <2>1. PICK n, a, x : Two64(n, a, x) /\ u = <<192 + a, 128 + x>> /\ m = u
    BY <1>3, SMT DEF TwoAs
  <2>2. Bytes2(t, q, a, x) /\ Len(u) = 2
    BY <2>1, At2, SMT DEF Bytes2
  <2>3. Two(t, q)
    BY <2>1, <2>2, TwoWritten, SMT
  <2>4. t[q + 1] # 0 /\ ~ Ascii(t, q)
    BY <2>1, <2>2, SMT DEF Two64, Bytes2, Ascii
  <2>5. utf8_char(t, q) = Ok(<<t[q + 1], t[q + 2]>>, q + 2)
    BY <2>3, <2>4, SMT DEF utf8_char
  <2> QED
    BY <2>1, <2>2, <2>5, SMT DEF Bytes2
<1>4. CASE ThreeAs(u, m)
  <2>1. PICK n, a, x, y :
          /\ Three64(n, a, x, y) /\ n >= 2048 /\ ~ High(n) /\ ~ Low(n)
          /\ u = <<224 + a, 128 + x, 128 + y>> /\ m = u
    BY <1>4, SMT DEF ThreeAs
  <2>2. Bytes3(t, q, a, x, y) /\ Len(u) = 3
    BY <2>1, At3, SMT DEF Bytes3
  <2>3. ThreeBytes(t, q) /\ cp3(t, q) = n
    BY <2>1, <2>2, ThreeWritten, SMT
  <2>4. Three(t, q)
    BY <2>1, <2>3, SMT DEF Three
  <2>5. t[q + 1] # 0 /\ ~ Ascii(t, q) /\ ~ Two(t, q)
    <3>1. a \in Nat /\ a < 16 /\ t[q + 1] = 224 + a
      BY <2>1, <2>2, SMT DEF Three64, Bytes3
    <3>2. ~ lead2(224 + a)
      BY <3>1, Lead3Written, SMT
    <3> QED
      BY <3>1, <3>2, SMT DEF Ascii, Two
  <2>6. utf8_char(t, q) = Ok(<<t[q + 1], t[q + 2], t[q + 3]>>, q + 3)
    BY <2>4, <2>5, SMT DEF utf8_char
  <2> QED
    BY <2>1, <2>2, <2>6, SMT DEF Bytes3
<1>5. CASE FourAs(u, m)
  <2>1. PICK n, h, l, a, x, y, z :
          /\ IsPair(n, h, l) /\ Four64(n, a, x, y, z) /\ InFour(n)
          /\ u = <<240 + a, 128 + x, 128 + y, 128 + z>>
          /\ m = encode_utf8(h) \o encode_utf8(l)
    BY <1>5, SMT DEF FourAs
  <2>2. Bytes4(t, q, a, x, y, z) /\ Len(u) = 4
    BY <2>1, At4, SMT DEF Bytes4
  <2>3. Four(t, q) /\ cp4(t, q) = n
    BY <2>1, <2>2, FourWritten, SMT
  <2>4. t[q + 1] # 0 /\ ~ Ascii(t, q) /\ ~ Two(t, q) /\ ~ Three(t, q)
    <3>1. a \in Nat /\ a < 8 /\ t[q + 1] = 240 + a
      BY <2>1, <2>2, SMT DEF Four64, Bytes4
    <3>2. ~ lead2(240 + a) /\ ~ lead3(240 + a)
      BY <3>1, Lead4Written, SMT
    <3> QED
      BY <3>1, <3>2, SMT DEF Ascii, Two, Three, ThreeBytes
  <2>5. utf8_char(t, q) = Ok(surrogates(n), q + 4)
    BY <2>3, <2>4, SMT DEF utf8_char
  <2>6. surrogates(n) = m
    <3>1. h \in Nat /\ l \in Nat /\ High(h) /\ Low(l) /\ n = Join(h, l)
      BY <2>1, SMT DEF IsPair
    <3> QED
      BY <2>1, <3>1, JoinSplit, SMTT(30)
  <2> QED
    BY <2>2, <2>5, <2>6, SMT
<1> QED
  BY <1>1, <1>2, <1>3, <1>4, <1>5, SMT DEF Spelt

LEMMA Utf8Reads ==
  ASSUME NEW s \in Seq(Byte), NEW p \in 0 .. Len(s) - 1, utf8_char(s, p).ok
  PROVE  \E u : /\ At(s, p, u) /\ Spelt(u, utf8_char(s, p).v)
                /\ utf8_char(s, p).pos = p + Len(u)
<1> DEFINE r == utf8_char(s, p)
<1>0. p \in Nat /\ p + 1 <= Len(s) /\ p + 1 \in 1 .. Len(s) /\ Len(s) \in Nat
  BY SMT
<1>00. s[p + 1] \in Nat /\ s[p + 1] < 256
  BY <1>0, ByteOf, SMT
<1>1. CASE s[p + 1] = 0
  <2> DEFINE u == <<0>>
             m == <<192, 128>>
  <2>1. r = Ok(m, p + 1)
    BY <1>1, SMT DEF utf8_char
  <2>2. At(s, p, u) /\ Len(u) = 1
    BY <1>0, <1>1, At1, SMT
  <2>3. Spelt(u, m)
    BY SMT DEF Spelt, NulAs
  <2>20. r.v = m /\ r.pos = p + 1
    BY <2>1, SMT DEF Ok
  <2>22. r.pos = p + Len(u)
    BY <2>2, <2>20, SMT
  <2> HIDE DEF u, m, r
  <2> QED
    BY <2>2, <2>3, <2>20, <2>22, Zenon DEF r
<1>2. CASE s[p + 1] # 0 /\ Ascii(s, p)
  <2> DEFINE u == <<s[p + 1]>>
  <2>1. r = Ok(u, p + 1)
    BY <1>2, SMT DEF utf8_char
  <2>2. At(s, p, u) /\ Len(u) = 1
    BY <1>0, At1, SMT
  <2>3. AsciiAs(u, u)
    BY <1>2, <1>00, SMT DEF AsciiAs, Ascii
  <2>20. r.v = u /\ r.pos = p + 1
    BY <2>1, SMT DEF Ok
  <2>21. Spelt(u, u)
    BY <2>3, SMT DEF Spelt
  <2>22. r.pos = p + Len(u)
    BY <2>2, <2>20, SMT
  <2> HIDE DEF u, r
  <2> QED
    BY <2>2, <2>21, <2>20, <2>22, Zenon DEF r
<1>3. CASE s[p + 1] # 0 /\ ~ Ascii(s, p) /\ Two(s, p)
  <2>1. PICK a, x : Bytes2(s, p, a, x) /\ Two64(cp2(s, p), a, x)
    BY <1>0, <1>3, TwoRead, SMT
  <2> DEFINE u == <<192 + a, 128 + x>>
  <2>2. r = Ok(u, p + 2)
    BY <1>3, <2>1, SMT DEF utf8_char, Bytes2
  <2>3. At(s, p, u) /\ Len(u) = 2
    BY <1>0, <2>1, At2, SMT DEF Bytes2
  <2>4. TwoAs(u, u)
    BY <2>1, SMT DEF TwoAs
  <2>20. r.v = u /\ r.pos = p + 2
    BY <2>2, SMT DEF Ok
  <2>21. Spelt(u, u)
    BY <2>4, SMT DEF Spelt
  <2>22. r.pos = p + Len(u)
    BY <2>3, <2>20, SMT
  <2> HIDE DEF u, r
  <2> QED
    BY <2>3, <2>21, <2>20, <2>22, Zenon DEF r
<1>4. CASE s[p + 1] # 0 /\ ~ Ascii(s, p) /\ ~ Two(s, p) /\ Three(s, p)
  <2>1. PICK a, x, y : Bytes3(s, p, a, x, y) /\ Three64(cp3(s, p), a, x, y)
    BY <1>0, <1>4, ThreeRead, SMT DEF Three
  <2> DEFINE u == <<224 + a, 128 + x, 128 + y>>
  <2>2. r = Ok(u, p + 3)
    BY <1>4, <2>1, SMT DEF utf8_char, Bytes3
  <2>3. At(s, p, u) /\ Len(u) = 3
    BY <1>0, <2>1, At3, SMT DEF Bytes3
  <2>4. ThreeAs(u, u)
    BY <1>4, <2>1, SMT DEF ThreeAs, Three
  <2>20. r.v = u /\ r.pos = p + 3
    BY <2>2, SMT DEF Ok
  <2>21. Spelt(u, u)
    BY <2>4, SMT DEF Spelt
  <2>22. r.pos = p + Len(u)
    BY <2>3, <2>20, SMT
  <2> HIDE DEF u, r
  <2> QED
    BY <2>3, <2>21, <2>20, <2>22, Zenon DEF r
<1>5. CASE s[p + 1] # 0 /\ ~ Ascii(s, p) /\ ~ Two(s, p) /\ ~ Three(s, p) /\ Four(s, p)
  <2>1. PICK a, x, y, z : Bytes4(s, p, a, x, y, z) /\ Four64(cp4(s, p), a, x, y, z)
    BY <1>0, <1>5, FourRead, SMT
  <2> DEFINE u == <<240 + a, 128 + x, 128 + y, 128 + z>>
             n == cp4(s, p)
  <2>2. r = Ok(surrogates(n), p + 4)
    BY <1>5, SMT DEF utf8_char
  <2>3. At(s, p, u) /\ Len(u) = 4
    BY <1>0, <2>1, At4, SMT DEF Bytes4
  <2>4. n \in Nat /\ InFour(n)
    <3>1. n \in Nat
      BY <2>1, SMT DEF Four64
    <3> QED
      BY <1>5, <3>1, SMT DEF Four, InFour
  <2>5. PICK h, l : IsPair(n, h, l)
    BY <2>4, JoinOf, SMT
  <2>6. surrogates(n) = encode_utf8(h) \o encode_utf8(l)
    <3>1. h \in Nat /\ l \in Nat /\ High(h) /\ Low(l) /\ n = Join(h, l)
      BY <2>5, SMT DEF IsPair
    <3> QED
      BY <3>1, JoinSplit, SMT
  <2> HIDE DEF n
  <2>7. FourAs(u, surrogates(n))
    BY <2>1, <2>4, <2>5, <2>6, SMTT(30) DEF FourAs, n
  <2>20. r.v = surrogates(n) /\ r.pos = p + 4
    BY <2>2, SMT DEF Ok
  <2>21. Spelt(u, surrogates(n))
    BY <2>7, SMT DEF Spelt
  <2>22. r.pos = p + Len(u)
    BY <2>3, <2>20, SMT
  <2> HIDE DEF u, r
  <2> QED
    BY <2>3, <2>21, <2>20, <2>22, Zenon DEF r
<1>6. CASE /\ s[p + 1] # 0 /\ ~ Ascii(s, p) /\ ~ Two(s, p) /\ ~ Three(s, p)
           /\ ~ Four(s, p)
  BY <1>6, SMT DEF utf8_char, Err
<1> QED
  BY <1>1, <1>2, <1>3, <1>4, <1>5, <1>6, SMT

LEMMA Mutf8Takes ==
  ASSUME NEW t \in Seq(Byte), NEW q \in Nat, NEW u, NEW m, Spelt(u, m), At(t, q, m)
  PROVE  mutf8_char(t, q) = Ok(u, q + Len(m))
<1>1. CASE NulAs(u, m)
  <2>1. u = <<0>> /\ m = <<192, 128>> /\ Len(m) = 2
    BY <1>1, SMT DEF NulAs
  <2>2. q + 2 <= Len(t) /\ t[q + 1] = 192 /\ t[q + 2] = 128
    BY <2>1, At2, SMT
  <2>3. Nul(t, q) /\ ~ Ascii(t, q)
    BY <2>2, SMT DEF Nul, Ascii
  <2> QED
    BY <2>1, <2>3, SMT DEF mutf8_char
<1>2. CASE AsciiAs(u, m)
  <2>1. PICK b \in Nat : 0 < b /\ b < 128 /\ u = <<b>> /\ m = u
    BY <1>2, SMT DEF AsciiAs
  <2>2. t[q + 1] = b /\ Len(u) = 1
    BY <2>1, At1, SMT
  <2> QED
    BY <2>1, <2>2, SMT DEF mutf8_char, Ascii
<1>3. CASE TwoAs(u, m)
  <2>1. PICK n, a, x : Two64(n, a, x) /\ u = <<192 + a, 128 + x>> /\ m = u
    BY <1>3, SMT DEF TwoAs
  <2>2. Bytes2(t, q, a, x) /\ Len(u) = 2
    BY <2>1, At2, SMT DEF Bytes2
  <2>3. Two(t, q) /\ cp2(t, q) = n
    BY <2>1, <2>2, TwoWritten, SMT
  <2>4. ~ Nul(t, q) /\ ~ Ascii(t, q)
    BY <2>1, <2>2, SMT DEF Two64, Bytes2, Ascii, Nul
  <2>5. mutf8_char(t, q) = Ok(encode_utf8(n), q + 2)
    BY <2>3, <2>4, SMT DEF mutf8_char
  <2> QED
    BY <2>1, <2>2, <2>5, TwoEncoded, SMT
<1>4. CASE ThreeAs(u, m)
  <2>1. PICK n, a, x, y :
          /\ Three64(n, a, x, y) /\ n >= 2048 /\ ~ High(n) /\ ~ Low(n)
          /\ u = <<224 + a, 128 + x, 128 + y>> /\ m = u
    BY <1>4, SMT DEF ThreeAs
  <2>2. Bytes3(t, q, a, x, y) /\ Len(u) = 3
    BY <2>1, At3, SMT DEF Bytes3
  <2>3. ThreeBytes(t, q) /\ cp3(t, q) = n
    BY <2>1, <2>2, ThreeWritten, SMT
  <2>4. Three(t, q)
    BY <2>1, <2>3, SMT DEF Three
  <2>5. ~ Nul(t, q) /\ ~ Ascii(t, q) /\ ~ Two(t, q)
    <3>1. a \in Nat /\ a < 16 /\ t[q + 1] = 224 + a
      BY <2>1, <2>2, SMT DEF Three64, Bytes3
    <3>2. ~ lead2(224 + a)
      BY <3>1, Lead3Written, SMT
    <3> QED
      BY <3>1, <3>2, SMT DEF Ascii, Two, Nul
  <2>6. mutf8_char(t, q) = Ok(encode_utf8(n), q + 3)
    BY <2>3, <2>4, <2>5, SMT DEF mutf8_char
  <2> QED
    BY <2>1, <2>2, <2>6, ThreeEncoded, SMT
<1>5. CASE FourAs(u, m)
  <2>1. PICK n, h, l, a, x, y, z :
          /\ IsPair(n, h, l) /\ Four64(n, a, x, y, z) /\ InFour(n)
          /\ u = <<240 + a, 128 + x, 128 + y, 128 + z>>
          /\ m = encode_utf8(h) \o encode_utf8(l)
    BY <1>5, SMT DEF FourAs
  <2>2. h \in Nat /\ l \in Nat /\ High(h) /\ Low(l) /\ n = Join(h, l)
    BY <2>1, SMT DEF IsPair
  <2>3. /\ encode_utf8(h) \in Seq(NonZero) /\ Len(encode_utf8(h)) = 3
        /\ encode_utf8(l) \in Seq(NonZero) /\ Len(encode_utf8(l)) = 3
    BY <2>2, SurrogateType, SMT
  <2>4. /\ encode_utf8(h) \in Seq(Byte) /\ encode_utf8(l) \in Seq(Byte)
    BY <2>3, SeqNonZero, SMT
  <2>5. /\ At(t, q, encode_utf8(h)) /\ At(t, q + 3, encode_utf8(l)) /\ Len(m) = 6
    <3>1. Len(m) = Len(encode_utf8(h)) + Len(encode_utf8(l))
      BY <2>1, <2>4, Joined, Zenon
    <3>2. Len(m) = 6
      BY <2>3, <3>1, SMT
    <3>3. q \in 0 .. Len(t)
      BY <3>2, SMT DEF At
    <3>4. At(t, q, encode_utf8(h)) /\ At(t, q + Len(encode_utf8(h)), encode_utf8(l))
      BY <2>1, <2>4, <3>3, AtBoth, Zenon
    <3> QED
      BY <2>3, <3>2, <3>4, SMT
  <2>6. ThreeBytes(t, q) /\ cp3(t, q) = h
    BY <2>2, <2>5, SurrogateAt, SMT
  <2>7. ThreeBytes(t, q + 3) /\ cp3(t, q + 3) = l
    <3>1. q + 3 \in Nat
      BY SMT
    <3> QED
      BY <2>2, <2>5, <3>1, SurrogateAt, SMT
  <2>8. Pair(t, q) /\ ~ Three(t, q) /\ merged(t, q) = n
    BY <2>2, <2>6, <2>7, SMT DEF Pair, Three, merged, Join
  <2>9. ~ Nul(t, q) /\ ~ Ascii(t, q) /\ ~ Two(t, q)
    BY <2>6, ThreeIsNot, SMT
  <2>10. mutf8_char(t, q) = Ok(encode_utf8(n), q + 6)
    BY <2>8, <2>9, SMT DEF mutf8_char
  <2> QED
    <3>1. encode_utf8(n) = u
      BY <2>1, FourEncoded, SMT
    <3>2. q + 6 = q + Len(m)
      BY <2>5, SMT
    <3> QED
      BY <2>10, <3>1, <3>2, SMT
<1> QED
  BY <1>1, <1>2, <1>3, <1>4, <1>5, SMT DEF Spelt

LEMMA Mutf8Reads ==
  ASSUME NEW s \in Seq(Byte), NEW p \in 0 .. Len(s) - 1, mutf8_char(s, p).ok
  PROVE  \E m : /\ At(s, p, m) /\ Spelt(mutf8_char(s, p).v, m)
                /\ mutf8_char(s, p).pos = p + Len(m)
<1> DEFINE r == mutf8_char(s, p)
<1>0. p \in Nat /\ p + 1 <= Len(s) /\ p + 1 \in 1 .. Len(s) /\ Len(s) \in Nat
  BY SMT
<1>00. s[p + 1] \in Nat /\ s[p + 1] < 256
  BY <1>0, ByteOf, SMT
<1>1. CASE Ascii(s, p)
  <2> DEFINE u == <<s[p + 1]>>
  <2>1. r = Ok(u, p + 1)
    BY <1>1, SMT DEF mutf8_char
  <2>2. At(s, p, u) /\ Len(u) = 1
    BY <1>0, At1, SMT
  <2>3. AsciiAs(u, u)
    BY <1>1, <1>00, SMT DEF AsciiAs, Ascii
  <2>20. r.v = u /\ r.pos = p + 1
    BY <2>1, SMT DEF Ok
  <2>21. Spelt(u, u)
    BY <2>3, SMT DEF Spelt
  <2>22. r.pos = p + Len(u)
    BY <2>2, <2>20, SMT
  <2> HIDE DEF u, r
  <2> QED
    BY <2>2, <2>21, <2>20, <2>22, Zenon DEF r
<1>2. CASE ~ Ascii(s, p) /\ Nul(s, p)
  <2> DEFINE u == <<0>>
             m == <<192, 128>>
  <2>1. r = Ok(u, p + 2)
    BY <1>2, SMT DEF mutf8_char
  <2>2. At(s, p, m) /\ Len(m) = 2
    BY <1>0, <1>2, At2, SMT DEF Nul
  <2>3. Spelt(u, m)
    BY SMT DEF Spelt, NulAs
  <2>20. r.v = u /\ r.pos = p + 2
    BY <2>1, SMT DEF Ok
  <2>22. r.pos = p + Len(m)
    BY <2>2, <2>20, SMT
  <2> HIDE DEF u, m, r
  <2> QED
    BY <2>2, <2>3, <2>20, <2>22, Zenon DEF r
<1>3. CASE ~ Nul(s, p) /\ ~ Ascii(s, p) /\ Two(s, p)
  <2>1. PICK a, x : Bytes2(s, p, a, x) /\ Two64(cp2(s, p), a, x)
    BY <1>0, <1>3, TwoRead, SMT
  <2> DEFINE u == <<192 + a, 128 + x>>
  <2>2. r = Ok(encode_utf8(cp2(s, p)), p + 2)
    BY <1>3, SMT DEF mutf8_char
  <2>3. encode_utf8(cp2(s, p)) = u
    BY <2>1, TwoEncoded, SMT
  <2>4. At(s, p, u) /\ Len(u) = 2
    BY <1>0, <2>1, At2, SMT DEF Bytes2
  <2>5. TwoAs(u, u)
    BY <2>1, SMT DEF TwoAs
  <2>20. r.v = u /\ r.pos = p + 2
    BY <2>2, <2>3, SMT DEF Ok
  <2>21. Spelt(u, u)
    BY <2>5, SMT DEF Spelt
  <2>22. r.pos = p + Len(u)
    BY <2>4, <2>20, SMT
  <2> HIDE DEF u, r
  <2> QED
    BY <2>4, <2>21, <2>20, <2>22, Zenon DEF r
<1>4. CASE ~ Nul(s, p) /\ ~ Ascii(s, p) /\ ~ Two(s, p) /\ Three(s, p)
  <2>1. PICK a, x, y : Bytes3(s, p, a, x, y) /\ Three64(cp3(s, p), a, x, y)
    BY <1>0, <1>4, ThreeRead, SMT DEF Three
  <2> DEFINE u == <<224 + a, 128 + x, 128 + y>>
  <2>2. r = Ok(encode_utf8(cp3(s, p)), p + 3)
    BY <1>4, SMT DEF mutf8_char
  <2>3. encode_utf8(cp3(s, p)) = u
    BY <1>4, <2>1, ThreeEncoded, SMT DEF Three
  <2>4. At(s, p, u) /\ Len(u) = 3
    BY <1>0, <2>1, At3, SMT DEF Bytes3
  <2>5. ThreeAs(u, u)
    BY <1>4, <2>1, SMT DEF ThreeAs, Three
  <2>20. r.v = u /\ r.pos = p + 3
    BY <2>2, <2>3, SMT DEF Ok
  <2>21. Spelt(u, u)
    BY <2>5, SMT DEF Spelt
  <2>22. r.pos = p + Len(u)
    BY <2>4, <2>20, SMT
  <2> HIDE DEF u, r
  <2> QED
    BY <2>4, <2>21, <2>20, <2>22, Zenon DEF r
<1>5. CASE ~ Nul(s, p) /\ ~ Ascii(s, p) /\ ~ Two(s, p) /\ ~ Three(s, p) /\ Pair(s, p)
  <2> DEFINE h == cp3(s, p)
             l == cp3(s, p + 3)
             n == merged(s, p)
             m == encode_utf8(h) \o encode_utf8(l)
  <2>1. h \in Nat /\ High(h) /\ At(s, p, encode_utf8(h))
    <3>1. ThreeBytes(s, p) /\ High(cp3(s, p))
      BY <1>5, SMT DEF Pair
    <3> QED
      BY <1>0, <3>1, SurrogateFrom, SMT
  <2>2. l \in Nat /\ Low(l) /\ At(s, p + 3, encode_utf8(l))
    <3>1. ThreeBytes(s, p + 3) /\ Low(cp3(s, p + 3)) /\ p + 3 \in Nat
      BY <1>0, <1>5, SMT DEF Pair
    <3> QED
      BY <3>1, SurrogateFrom, SMT
  <2>3. n = Join(h, l)
    BY SMT DEF merged, Join
  <2>4. r = Ok(encode_utf8(n), p + 6)
    BY <1>5, SMT DEF mutf8_char
  <2> HIDE DEF h, l, n
  <2>5. n \in Nat /\ InFour(n) /\ IsPair(n, h, l)
    BY <2>1, <2>2, <2>3, JoinIn, SMT DEF IsPair
  <2>6. PICK a, x, y, z : Four64(n, a, x, y, z)
    BY <2>5, FourDigits, SMT DEF InFour
  <2>7. encode_utf8(n) = <<240 + a, 128 + x, 128 + y, 128 + z>>
    BY <2>5, <2>6, FourEncoded, SMT
  <2>8. FourAs(encode_utf8(n), m)
    BY <2>5, <2>6, <2>7, SMT DEF FourAs
  <2>9. At(s, p, m) /\ Len(m) = 6
    <3>1. /\ encode_utf8(h) \in Seq(NonZero) /\ Len(encode_utf8(h)) = 3
          /\ encode_utf8(l) \in Seq(NonZero) /\ Len(encode_utf8(l)) = 3
      BY <2>1, <2>2, SurrogateType, SMT
    <3>2. encode_utf8(h) \in Seq(Byte) /\ encode_utf8(l) \in Seq(Byte)
      BY <3>1, SeqNonZero, SMT
    <3>3. Len(m) = Len(encode_utf8(h)) + Len(encode_utf8(l))
      BY <3>2, Joined, Zenon
    <3>4. p \in 0 .. Len(s)
      BY <1>0, SMT
    <3>5. At(s, p + Len(encode_utf8(h)), encode_utf8(l))
      BY <2>2, <3>1, SMT
    <3>6. At(s, p, m)
      BY <2>1, <3>2, <3>4, <3>5, AtBoth, Zenon
    <3> QED
      BY <3>1, <3>3, <3>6, SMT
  <2> HIDE DEF m
  <2>20. r.v = encode_utf8(n) /\ r.pos = p + 6
    BY <2>4, SMT DEF Ok
  <2>21. Spelt(encode_utf8(n), m)
    BY <2>8, SMT DEF Spelt
  <2>22. r.pos = p + Len(m)
    BY <2>9, <2>20, SMT
  <2> HIDE DEF m, r
  <2> QED
    BY <2>9, <2>21, <2>20, <2>22, Zenon DEF r
<1>6. CASE /\ ~ Nul(s, p) /\ ~ Ascii(s, p) /\ ~ Two(s, p) /\ ~ Three(s, p)
           /\ ~ Pair(s, p)
  BY <1>6, SMT DEF mutf8_char, Err
<1> QED
  BY <1>1, <1>2, <1>3, <1>4, <1>5, <1>6, SMT

-----------------------------------------------------------------------------
(* Whole strings.                                                          *)

\* What each transcoder makes of the character at a cursor.
encoding ==
  [s \in Seq(Byte) |-> [p \in Offsets(s) |->
     IF p = Len(s) THEN Ok(<<>>, p) ELSE utf8_char(s, p)]]
decoding ==
  [s \in Seq(Byte) |-> [p \in Offsets(s) |->
     IF p = Len(s) THEN Ok(<<>>, p) ELSE mutf8_char(s, p)]]

LEMMA CharAt ==
  ASSUME NEW s \in Seq(Byte)
  PROVE  /\ Len(s) \in Nat
         /\ DOMAIN encoding[s] = 0 .. Len(s) /\ DOMAIN decoding[s] = 0 .. Len(s)
         /\ encoding[s][Len(s)] = Ok(<<>>, Len(s))
         /\ decoding[s][Len(s)] = Ok(<<>>, Len(s))
         /\ \A p \in 0 .. Len(s) - 1 : /\ encoding[s][p] = utf8_char(s, p)
                                       /\ decoding[s][p] = mutf8_char(s, p)
         /\ utf8_to_mutf8(s) = Rounds(encoding[s], Len(s) + 1, 0)
         /\ mutf8_to_utf8(s) = Rounds(decoding[s], Len(s) + 1, 0)
<1>1. /\ encoding[s] = [p \in 0 .. Len(s) |->
                          IF p = Len(s) THEN Ok(<<>>, p) ELSE utf8_char(s, p)]
      /\ decoding[s] = [p \in 0 .. Len(s) |->
                          IF p = Len(s) THEN Ok(<<>>, p) ELSE mutf8_char(s, p)]
  BY Zenon DEF encoding, decoding, Offsets
<1>2. Len(s) \in Nat /\ Len(s) \in 0 .. Len(s)
  BY SMT
<1>3. \A p \in 0 .. Len(s) - 1 : p \in 0 .. Len(s) /\ p # Len(s)
  BY SMT
<1>4. utf8_to_mutf8(s) = Rounds(encoding[s], Len(s) + 1, 0)
  BY <1>1, Zenon DEF utf8_to_mutf8, Offsets
<1>5. mutf8_to_utf8(s) = Rounds(decoding[s], Len(s) + 1, 0)
  BY <1>1, Zenon DEF mutf8_to_utf8, Offsets
<1> QED
  BY <1>1, <1>2, <1>3, <1>4, <1>5, Zenon

LEMMA LenPos ==
  ASSUME NEW s \in Seq(Byte), NEW p \in 0 .. Len(s) - 1, NEW x, At(s, p, x),
         Len(x) \in Nat, Len(x) # 0
  PROVE  p + Len(x) \in p + 1 .. Len(s)
<1>1. PICK n \in Nat : n = Len(x)
  BY Zenon
<1>2. p + n <= Len(s) /\ n # 0 /\ p \in Nat /\ Len(s) \in Nat
  BY <1>1, SMT DEF At
<1>3. p + n \in p + 1 .. Len(s)
  BY <1>2, SMT
<1> QED
  BY <1>1, <1>3, Zenon

LEMMA NonEmpty ==
  ASSUME NEW Z, NEW x \in Seq(Z), x # <<>>
  PROVE  Len(x) \in Nat /\ Len(x) # 0
OBVIOUS

LEMMA EncodingChars == Chars(encoding)
<1> SUFFICES ASSUME NEW s \in Seq(Byte), NEW p \in 0 .. Len(s) - 1
             PROVE  /\ utf8_char(s, p).ok \in BOOLEAN
                    /\ utf8_char(s, p).ok =>
                         /\ utf8_char(s, p).v \in Seq(Byte) \ {<<>>}
                         /\ utf8_char(s, p).pos \in p + 1 .. Len(s)
  BY CharAt, Zenon DEF Chars
<1>1. utf8_char(s, p).ok \in BOOLEAN
  BY SMT DEF utf8_char, Ok, Err
<1>2. ASSUME utf8_char(s, p).ok
      PROVE  /\ utf8_char(s, p).v \in Seq(Byte) \ {<<>>}
             /\ utf8_char(s, p).pos \in p + 1 .. Len(s)
  <2>1. PICK u : /\ At(s, p, u) /\ Spelt(u, utf8_char(s, p).v)
                 /\ utf8_char(s, p).pos = p + Len(u)
    BY <1>2, Utf8Reads, Zenon
  <2>2. /\ u \in Seq(Byte) /\ u # <<>>
        /\ utf8_char(s, p).v \in Seq(NonZero) /\ utf8_char(s, p).v # <<>>
    BY <2>1, SpeltType, Zenon
  <2> QED
    BY <2>1, <2>2, NonEmpty, LenPos, SeqNonZero, Zenon
<1> QED
  BY <1>1, <1>2, Zenon

LEMMA DecodingChars == Chars(decoding)
<1> SUFFICES ASSUME NEW s \in Seq(Byte), NEW p \in 0 .. Len(s) - 1
             PROVE  /\ mutf8_char(s, p).ok \in BOOLEAN
                    /\ mutf8_char(s, p).ok =>
                         /\ mutf8_char(s, p).v \in Seq(Byte) \ {<<>>}
                         /\ mutf8_char(s, p).pos \in p + 1 .. Len(s)
  BY CharAt, Zenon DEF Chars
<1>1. mutf8_char(s, p).ok \in BOOLEAN
  BY SMT DEF mutf8_char, Ok, Err
<1>2. ASSUME mutf8_char(s, p).ok
      PROVE  /\ mutf8_char(s, p).v \in Seq(Byte) \ {<<>>}
             /\ mutf8_char(s, p).pos \in p + 1 .. Len(s)
  <2>1. PICK m : /\ At(s, p, m) /\ Spelt(mutf8_char(s, p).v, m)
                 /\ mutf8_char(s, p).pos = p + Len(m)
    BY <1>2, Mutf8Reads, Zenon
  <2>2. /\ m \in Seq(NonZero) /\ m # <<>>
        /\ mutf8_char(s, p).v \in Seq(Byte) /\ mutf8_char(s, p).v # <<>>
    BY <2>1, SpeltType, Zenon
  <2> QED
    BY <2>1, <2>2, NonEmpty, LenPos, Zenon
<1> QED
  BY <1>1, <1>2, Zenon

LEMMA LaterByte ==
  ASSUME NEW t \in Seq(Byte), NEW q \in 0 .. Len(t), NEW x, At(t, q, x),
         Len(x) \in Nat, Len(x) # 0
  PROVE  q \in 0 .. Len(t) - 1 /\ q \in Nat
<1>1. PICK n \in Nat : n = Len(x)
  BY Zenon
<1>2. q + n <= Len(t) /\ n # 0 /\ q \in Nat /\ Len(t) \in Nat
  BY <1>1, SMT DEF At
<1> QED
  BY <1>2, SMT

LEMMA DecodingUndoes == Undoes(decoding, encoding)
<1> SUFFICES ASSUME NEW s \in Seq(Byte), NEW t \in Seq(Byte),
                    NEW p \in 0 .. Len(s) - 1, NEW q \in 0 .. Len(t),
                    encoding[s][p].ok, At(t, q, encoding[s][p].v)
             PROVE  /\ decoding[t][q].ok
                    /\ decoding[t][q].pos = q + Len(encoding[s][p].v)
                    /\ At(s, p, decoding[t][q].v)
                    /\ p + Len(decoding[t][q].v) = encoding[s][p].pos
  BY DEF Undoes
<1> DEFINE r == encoding[s][p]
           m == r.v
<1>1. r = utf8_char(s, p) /\ r.ok /\ At(t, q, m)
  BY CharAt, Zenon
<1> HIDE DEF r
<1>2. PICK u : At(s, p, u) /\ Spelt(u, m) /\ r.pos = p + Len(u)
  BY <1>1, Utf8Reads, Zenon
<1> HIDE DEF m
<1>3. Len(m) \in Nat /\ Len(m) # 0
  BY <1>2, SpeltType, NonEmpty, Zenon
<1>4. q \in 0 .. Len(t) - 1 /\ q \in Nat
  BY <1>1, <1>3, LaterByte, Zenon
<1>5. decoding[t][q] = Ok(u, q + Len(m))
  BY <1>1, <1>2, <1>4, Mutf8Takes, CharAt, Zenon
<1>6. /\ decoding[t][q].ok = TRUE /\ decoding[t][q].v = u
      /\ decoding[t][q].pos = q + Len(m)
  BY <1>5, SMT DEF Ok
<1> QED
  BY <1>2, <1>6 DEF r, m

LEMMA EncodingUndoes == Undoes(encoding, decoding)
<1> SUFFICES ASSUME NEW s \in Seq(Byte), NEW t \in Seq(Byte),
                    NEW p \in 0 .. Len(s) - 1, NEW q \in 0 .. Len(t),
                    decoding[s][p].ok, At(t, q, decoding[s][p].v)
             PROVE  /\ encoding[t][q].ok
                    /\ encoding[t][q].pos = q + Len(decoding[s][p].v)
                    /\ At(s, p, encoding[t][q].v)
                    /\ p + Len(encoding[t][q].v) = decoding[s][p].pos
  BY DEF Undoes
<1> DEFINE r == decoding[s][p]
           u == r.v
<1>1. r = mutf8_char(s, p) /\ r.ok /\ At(t, q, u)
  BY CharAt, Zenon
<1> HIDE DEF r
<1>2. PICK m : At(s, p, m) /\ Spelt(u, m) /\ r.pos = p + Len(m)
  BY <1>1, Mutf8Reads, Zenon
<1> HIDE DEF u
<1>3. Len(u) \in Nat /\ Len(u) # 0
  BY <1>2, SpeltType, NonEmpty, Zenon
<1>4. q \in 0 .. Len(t) - 1 /\ q \in Nat
  BY <1>1, <1>3, LaterByte, Zenon
<1>5. encoding[t][q] = Ok(m, q + Len(u))
  BY <1>1, <1>2, <1>4, Utf8Takes, CharAt, Zenon
<1>6. /\ encoding[t][q].ok = TRUE /\ encoding[t][q].v = m
      /\ encoding[t][q].pos = q + Len(u)
  BY <1>5, SMT DEF Ok
<1> QED
  BY <1>2, <1>6 DEF r, u

\* What the transcoders return.
LEMMA Transcoded ==
  ASSUME NEW s \in Seq(Byte)
  PROVE  /\ utf8_to_mutf8(s).ok \in BOOLEAN /\ mutf8_to_utf8(s).ok \in BOOLEAN
         /\ utf8_to_mutf8(s).ok => utf8_to_mutf8(s).v \in Seq(NonZero)
         /\ mutf8_to_utf8(s).ok => mutf8_to_utf8(s).v \in Seq(Byte)
<1>1. /\ Len(s) \in Nat /\ Taking(encoding[s], Len(s)) /\ Taking(decoding[s], Len(s))
      /\ \A p \in 0 .. Len(s) : encoding[s][p].ok \in BOOLEAN
      /\ \A p \in 0 .. Len(s) : decoding[s][p].ok \in BOOLEAN
      /\ \A p \in 0 .. Len(s) : decoding[s][p].ok => decoding[s][p].v \in Seq(Byte)
  BY EncodingChars, DecodingChars, CharsTaking, Zenon
<1>2. 0 \in 0 .. Len(s)
  BY <1>1, SMT
<1>3. \A p \in 0 .. Len(s) : encoding[s][p].ok => encoding[s][p].v \in Seq(NonZero)
  <2> SUFFICES ASSUME NEW p \in 0 .. Len(s), encoding[s][p].ok
               PROVE  encoding[s][p].v \in Seq(NonZero)
    OBVIOUS
  <2>1. CASE p = Len(s)
    <3>1. encoding[s][p] = Ok(<<>>, p)
      BY <2>1, CharAt, Zenon
    <3> QED
      BY <3>1, SMT DEF Ok
  <2>2. CASE p # Len(s)
    <3>1. p \in 0 .. Len(s) - 1
      BY <1>1, <2>2, SMT
    <3>2. PICK u : Spelt(u, encoding[s][p].v)
      BY <3>1, CharAt, Utf8Reads, Zenon
    <3> QED
      BY <3>2, SpeltType, Zenon
  <2> QED
    BY <2>1, <2>2
<1>4. LET r == Rounds(encoding[s], Len(s) + 1, 0) IN
      r.ok \in BOOLEAN /\ (r.ok => r.v \in Seq(NonZero))
  BY <1>1, <1>2, <1>3, LoopType, Zenon
<1>5. LET r == Rounds(decoding[s], Len(s) + 1, 0) IN
      r.ok \in BOOLEAN /\ (r.ok => r.v \in Seq(Byte))
  BY <1>1, <1>2, LoopType, Zenon
<1> QED
  BY <1>4, <1>5, CharAt, Zenon

\* Whatever UTF-8 the encoder accepts comes back from the decoder, and no byte
\* that it writes is 0, for every string of bytes.
THEOREM EncoderInverted ==
  ASSUME NEW s \in Seq(Byte), utf8_to_mutf8(s).ok
  PROVE  LET m == utf8_to_mutf8(s).v IN
         mutf8_to_utf8(m) = Ok(s, Len(m)) /\ \A i \in DOMAIN m : m[i] # 0
<1> DEFINE m == utf8_to_mutf8(s).v
<1>1. m \in Seq(NonZero)
  BY Transcoded, Zenon
<1>2. m \in Seq(Byte)
  BY <1>1, SeqNonZero, Zenon
<1>3. mutf8_to_utf8(m) = Ok(s, Len(m))
  <2>1. Rounds(decoding[m], Len(m) + 1, 0) = Ok(s, Len(m))
    <3>1. Rounds(encoding[s], Len(s) + 1, 0) = utf8_to_mutf8(s)
      BY CharAt, Zenon
    <3>2. LET r == Rounds(encoding[s], Len(s) + 1, 0) IN
          r.ok => Rounds(decoding[r.v], Len(r.v) + 1, 0) = Ok(s, Len(r.v))
      BY EncodingChars, DecodingChars, DecodingUndoes, LoopsInverse, Zenon
    <3> QED
      BY <3>1, <3>2, Zenon
  <2> QED
    BY <1>2, <2>1, CharAt, Zenon
<1>4. \A i \in DOMAIN m : m[i] # 0
  <2> HIDE DEF m
  <2>1. \A i \in DOMAIN m : m[i] \in NonZero
    BY <1>1, SMT
  <2> QED
    BY <2>1, Zenon DEF NonZero
<1> QED
  BY <1>3, <1>4

\* Whatever MUTF-8 the decoder accepts is what the encoder writes for the
\* result, for every string of bytes.
THEOREM DecoderInverted ==
  ASSUME NEW s \in Seq(Byte), mutf8_to_utf8(s).ok
  PROVE  LET u == mutf8_to_utf8(s).v IN utf8_to_mutf8(u) = Ok(s, Len(u))
<1> DEFINE u == mutf8_to_utf8(s).v
<1>1. u \in Seq(Byte)
  BY Transcoded, Zenon
<1>2. Rounds(encoding[u], Len(u) + 1, 0) = Ok(s, Len(u))
  <2>1. Rounds(decoding[s], Len(s) + 1, 0) = mutf8_to_utf8(s)
    BY CharAt, Zenon
  <2>2. LET r == Rounds(decoding[s], Len(s) + 1, 0) IN
        r.ok => Rounds(encoding[r.v], Len(r.v) + 1, 0) = Ok(s, Len(r.v))
    BY EncodingChars, DecodingChars, EncodingUndoes, LoopsInverse, Zenon
  <2> QED
    BY <2>1, <2>2, Zenon
<1> QED
  BY <1>1, <1>2, CharAt, Zenon

-----------------------------------------------------------------------------

LEMMA TextType == Mutf8Spec => [](text \in Seq(Byte))
<1>1. Mutf8Init => text \in Seq(Byte)
  BY DEF Mutf8Init
<1>2. text \in Seq(Byte) /\ [Mutf8Next]_mutf8Vars => (text \in Seq(Byte))'
  <2> SUFFICES ASSUME text \in Seq(Byte), [Mutf8Next]_mutf8Vars
               PROVE  text' \in Seq(Byte)
    OBVIOUS
  <2>1. ASSUME NEW p \in Pieces, AppendPiece(p) PROVE text' \in Seq(Byte)
    <3>1. p \in Seq(Byte)
      BY PiecesAreBytes
    <3>2. text' = text \o p
      BY <2>1 DEF AppendPiece
    <3> QED
      BY <3>1, <3>2
  <2>2. CASE UNCHANGED mutf8Vars
    BY <2>2 DEF mutf8Vars
  <2> QED
    BY <2>1, <2>2 DEF Mutf8Next
<1> QED
  BY <1>1, <1>2, PTL DEF Mutf8Spec

\* The transcoders invert each other on the texts made of any pieces
\* (mutf8_to_utf8 and utf8_to_mutf8 of mutf8.cpp).
THEOREM TextsRoundTrip == Mutf8Spec => []TranscodersInvert
<1>1. text \in Seq(Byte) => TranscodersInvert
  BY EncoderInverted, DecoderInverted
       DEF TranscodersInvert, Utf8RoundTrips, Mutf8IsCanonical
<1> QED
  BY <1>1, TextType, PTL

=============================================================================
