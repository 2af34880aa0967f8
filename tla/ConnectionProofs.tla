-------------------------- MODULE ConnectionProofs --------------------------
(***************************************************************************)
(* Proofs about Connection, for any number of units, any hello length, any *)
(* window size and any stream capacity.  Units are numbered, so a stretch  *)
(* of a stream is a run of consecutive numbers, and the bytes of one       *)
(* direction are at every moment cut into such runs, each in its place.    *)
(***************************************************************************)
EXTENDS Connection, SequenceTheorems, TLAPS

-----------------------------------------------------------------------------
(* The units a + 1 to b. *)
Run(a, b) == [i \in 1..(b - a) |-> a + i]

(* A run is a sequence as long as it says. *)
LEMMA RunIsSeq ==
  ASSUME NEW a \in Int, NEW b \in Int, a <= b
  PROVE  /\ Run(a, b) \in Seq(Int)
         /\ Len(Run(a, b)) = b - a
         /\ \A i \in 1..(b - a) : Run(a, b)[i] = a + i
         /\ a >= 0 => Run(a, b) \in Seq(Nat)
<1>1. b - a \in Nat
  OBVIOUS
<1>2. Run(a, b) \in [1..(b - a) -> Int]
  BY DEF Run
<1>3. a >= 0 => Run(a, b) \in [1..(b - a) -> Nat]
  BY DEF Run
<1>4. Run(a, b) \in Seq(Int) /\ (a >= 0 => Run(a, b) \in Seq(Nat))
  BY <1>1, <1>2, <1>3
<1>5. Len(Run(a, b)) = b - a
  BY <1>1, <1>2, <1>4, LenProperties
<1>6. QED
  BY <1>4, <1>5 DEF Run

LEMMA RunEmpty == ASSUME NEW a \in Int PROVE Run(a, a) = <<>>
<1>1. Run(a, a) \in Seq(Int) /\ Len(Run(a, a)) = 0
  BY RunIsSeq
<1>2. QED
  BY <1>1, EmptySeq

(* A sequence with the length and the units of a run is that run. *)
LEMMA IsRun ==
  ASSUME NEW a \in Int, NEW b \in Int, a <= b, NEW s \in Seq(Int),
         Len(s) = b - a, \A i \in 1..(b - a) : s[i] = a + i
  PROVE  s = Run(a, b)
<1>1. /\ Run(a, b) \in Seq(Int) /\ Len(Run(a, b)) = b - a
      /\ \A i \in 1..(b - a) : Run(a, b)[i] = a + i
  BY RunIsSeq
<1>2. \A i \in 1..Len(s) : s[i] = Run(a, b)[i]
  BY <1>1
<1>3. QED
  BY <1>1, <1>2, SeqEqual

LEMMA RunOne == ASSUME NEW a \in Int PROVE <<a + 1>> = Run(a, a + 1)
<1> DEFINE s == <<a + 1>>
<1>1. s \in Seq(Int) /\ Len(s) = 1 /\ s[1] = a + 1
  OBVIOUS
<1>2. a + 1 \in Int /\ a <= a + 1 /\ (a + 1) - a = 1
  OBVIOUS
<1> HIDE DEF s
<1>3. \A i \in 1..1 : s[i] = a + i
  BY <1>1
<1>4. s = Run(a, a + 1)
  BY <1>1, <1>2, <1>3, IsRun
<1>5. QED
  BY <1>4 DEF s

LEMMA RunJoin ==
  ASSUME NEW a \in Int, NEW b \in Int, NEW c \in Int, a <= b, b <= c
  PROVE  Run(a, b) \o Run(b, c) = Run(a, c)
<1>1. /\ Run(a, b) \in Seq(Int) /\ Len(Run(a, b)) = b - a
      /\ \A i \in 1..(b - a) : Run(a, b)[i] = a + i
  BY RunIsSeq
<1>2. /\ Run(b, c) \in Seq(Int) /\ Len(Run(b, c)) = c - b
      /\ \A i \in 1..(c - b) : Run(b, c)[i] = b + i
  BY RunIsSeq
<1>0. a <= c
  OBVIOUS
<1>3. /\ Run(a, c) \in Seq(Int) /\ Len(Run(a, c)) = c - a
      /\ \A i \in 1..(c - a) : Run(a, c)[i] = a + i
  BY <1>0, RunIsSeq
<1> DEFINE s == Run(a, b) \o Run(b, c)
<1>c. /\ s \in Seq(Int) /\ Len(s) = Len(Run(a, b)) + Len(Run(b, c))
      /\ \A i \in 1 .. Len(Run(a, b)) + Len(Run(b, c)) :
           s[i] = IF i <= Len(Run(a, b)) THEN Run(a, b)[i]
                  ELSE Run(b, c)[i - Len(Run(a, b))]
  BY <1>1, <1>2, ConcatProperties, Zenon
<1> HIDE DEF s
<1>4. s \in Seq(Int) /\ Len(s) = c - a
  BY <1>1, <1>2, <1>c
<1>5. ASSUME NEW i \in 1..(c - a) PROVE s[i] = a + i
  <2>1. CASE i <= b - a
    BY <1>1, <1>2, <1>c, <2>1
  <2>2. CASE i > b - a
    <3>1. i - (b - a) \in 1..(c - b)
      BY <2>2
    <3>2. s[i] = Run(b, c)[i - (b - a)]
      BY <1>1, <1>2, <1>c, <2>2
    <3>3. QED
      BY <1>2, <3>1, <3>2
  <2>3. QED
    BY <2>1, <2>2
<1>6. s = Run(a, c)
  BY <1>3, <1>4, <1>5, SeqEqual
<1>7. QED
  BY <1>6 DEF s

(* A prefix of a run, and what is left without it. *)
LEMMA RunCut ==
  ASSUME NEW a \in Int, NEW b \in Int, NEW c \in Int, a <= b, b <= c
  PROVE  /\ SubSeq(Run(a, c), 1, b - a) = Run(a, b)
         /\ SubSeq(Run(a, c), b - a + 1, c - a) = Run(b, c)
<1>0. a <= c
  OBVIOUS
<1> DEFINE r == Run(a, c)
<1>1. r \in Seq(Int) /\ Len(r) = c - a /\ \A i \in 1..(c - a) : r[i] = a + i
  BY <1>0, RunIsSeq
<1> HIDE DEF r
<1>2. SubSeq(r, 1, b - a) = Run(a, b)
  <2> DEFINE s == SubSeq(r, 1, b - a)
  <2>1. s \in Seq(Int) /\ Len(s) = b - a /\ \A i \in 1..(b - a) : s[i] = r[i]
    BY <1>1
  <2> HIDE DEF s
  <2>2. \A i \in 1..(b - a) : s[i] = a + i
    BY <1>1, <2>1
  <2>3. s = Run(a, b)
    BY <2>1, <2>2, IsRun
  <2>4. QED
    BY <2>3 DEF s
<1>3. SubSeq(r, b - a + 1, c - a) = Run(b, c)
  <2> DEFINE s == SubSeq(r, b - a + 1, c - a)
  <2>1. /\ s \in Seq(Int) /\ Len(s) = c - b
        /\ \A i \in 1..(c - b) : s[i] = r[b - a + i]
    BY <1>1
  <2> HIDE DEF s
  <2>2. \A i \in 1..(c - b) : b - a + i \in 1..(c - a) /\ a + (b - a + i) = b + i
    OBVIOUS
  <2>3. \A i \in 1..(c - b) : s[i] = b + i
    BY <1>1, <2>1, <2>2
  <2>4. s = Run(b, c)
    BY <2>1, <2>3, IsRun
  <2>5. QED
    BY <2>4 DEF s
<1>4. QED
  BY <1>2, <1>3 DEF r

LEMMA RunPart ==
  ASSUME NEW a \in Int, NEW b \in Int, NEW p \in Nat, NEW q \in Nat,
         p <= q, q <= b - a
  PROVE  SubSeq(Run(a, b), p + 1, q) = Run(a + p, a + q)
<1> DEFINE r == Run(a, b)
           s == SubSeq(r, p + 1, q)
<1>0. a <= b
  OBVIOUS
<1>1. r \in Seq(Int) /\ Len(r) = b - a /\ \A i \in 1..(b - a) : r[i] = a + i
  BY <1>0, RunIsSeq
<1> HIDE DEF r
<1>2. /\ s \in Seq(Int) /\ Len(s) = q - p
      /\ \A i \in 1..(q - p) : s[i] = r[p + i]
  BY <1>1
<1> HIDE DEF s
<1>3. \A i \in 1..(q - p) : p + i \in 1..(b - a) /\ a + (p + i) = (a + p) + i
  OBVIOUS
<1>4. \A i \in 1..(q - p) : s[i] = (a + p) + i
  BY <1>1, <1>2, <1>3
<1>5. a + p \in Int /\ a + q \in Int /\ a + p <= a + q /\ (a + q) - (a + p) = q - p
  OBVIOUS
<1>6. s = Run(a + p, a + q)
  BY <1>2, <1>4, <1>5, IsRun
<1>7. QED
  BY <1>6 DEF r, s

LEMMA RunHead ==
  ASSUME NEW a \in Int, NEW b \in Int, a < b
  PROVE  Head(Run(a, b)) = a + 1 /\ Tail(Run(a, b)) = Run(a + 1, b)
<1>1. /\ Run(a, b) \in Seq(Int) /\ Len(Run(a, b)) = b - a
      /\ \A i \in 1..(b - a) : Run(a, b)[i] = a + i
  BY RunIsSeq
<1>2. Head(Run(a, b)) = a + 1
  BY <1>1
<1>3. a + 1 \in Int /\ a <= a + 1 /\ a + 1 <= b /\ (a + 1) - a + 1 = 2
  OBVIOUS
<1>4. SubSeq(Run(a, b), 2, b - a) = Run(a + 1, b)
  <2>1. SubSeq(Run(a, b), (a + 1) - a + 1, b - a) = Run(a + 1, b)
    BY <1>3, RunCut
  <2>2. QED
    BY <1>3, <2>1
<1>5. Tail(Run(a, b)) = SubSeq(Run(a, b), 2, b - a)
  <2>1. Run(a, b) # <<>>
    BY <1>1
  <2>2. Tail(Run(a, b)) = SubSeq(Run(a, b), 2, Len(Run(a, b)))
    BY ONLY <1>1, <2>1, TailIsSubSeq, Zenon
  <2>3. QED
    BY ONLY <1>1, <2>2, Zenon
<1>6. QED
  BY <1>2, <1>4, <1>5
-----------------------------------------------------------------------------
(* The lesser of two numbers, and the sequence of one sequence, flattened. *)
LEMMA LesserOf ==
  ASSUME NEW a \in Int, NEW b \in Int
  PROVE  Min({a, b}) = IF a <= b THEN a ELSE b
<1> DEFINE m == IF a <= b THEN a ELSE b
<1>1. m \in {a, b} /\ \A y \in {a, b} : m <= y
  OBVIOUS
<1>2. \A x \in {a, b} : (\A y \in {a, b} : x <= y) => x = m
  OBVIOUS
<1> HIDE DEF m
<1>3. Min({a, b}) = m
  BY <1>1, <1>2 DEF Min
<1>4. QED
  BY <1>3 DEF m

LEMMA FlattenNone == FlattenSeq(<<>>) = <<>>
  BY DEF FlattenSeq

LEMMA FlattenOne ==
  ASSUME NEW s PROVE FlattenSeq(<<s>>) = s
<1> DEFINE F(f) == [i \in 1..1 |-> IF i = 1 THEN s ELSE f[i - 1] \o <<s>>[i]]
           g    == CHOOSE f : f = F(f)
<1>1. \E f : f = F(f)
  <2> DEFINE h == [i \in 1..1 |-> s]
  <2>1. F(h) = h
    OBVIOUS
  <2>2. QED
    BY <2>1
<1>2. g = F(g)
  BY <1>1
<1>3. g[1] = s
  BY <1>2
<1>4. Len(<<s>>) = 1 /\ <<s>>[1] = s
  OBVIOUS
<1>5. FlattenSeq(<<s>>) = g[1]
  BY <1>4 DEF FlattenSeq
<1>6. QED
  BY <1>3, <1>5

-----------------------------------------------------------------------------
(* A sequence of chunks that cuts the units a + 1 to b at the points o. *)
Cuts(s, o, a, b) ==
  /\ o \in [0..Len(s) -> Nat]
  /\ o[0] = a /\ o[Len(s)] = b
  /\ \A i \in 1..Len(s) :
       o[i - 1] <= o[i] /\ o[i] <= b /\ s[i] = Run(o[i - 1], o[i])

Chunked(s, a, b) == \E o : Cuts(s, o, a, b)

LEMMA NoChunk ==
  /\ \A a \in Nat : Chunked(<<>>, a, a)
  /\ \A a, b \in Nat : Chunked(<<>>, a, b) => a = b
<1>1. ASSUME NEW a \in Nat PROVE Chunked(<<>>, a, a)
  <2> DEFINE o == [i \in 0..0 |-> a]
  <2>1. Cuts(<<>>, o, a, a)
    BY DEF Cuts
  <2>2. QED
    BY <2>1 DEF Chunked
<1>2. ASSUME NEW a \in Nat, NEW b \in Nat, Chunked(<<>>, a, b) PROVE a = b
  BY <1>2 DEF Chunked, Cuts
<1>3. QED
  BY <1>1, <1>2

LEMMA OneChunk ==
  ASSUME NEW a \in Nat, NEW b \in Nat, a <= b
  PROVE  Chunked(<< Run(a, b) >>, a, b)
<1> DEFINE s == << Run(a, b) >>
           o == [i \in 0..1 |-> IF i = 0 THEN a ELSE b]
<1>1. Len(s) = 1 /\ s[1] = Run(a, b)
  OBVIOUS
<1>2. o \in [0..1 -> Nat] /\ o[0] = a /\ o[1] = b
  OBVIOUS
<1> HIDE DEF s, o
<1>3. \A i \in 1..1 : o[i - 1] = a /\ o[i] = b /\ s[i] = Run(a, b)
  BY <1>1, <1>2
<1>4. Cuts(s, o, a, b)
  BY <1>1, <1>2, <1>3 DEF Cuts
<1>5. QED
  BY <1>4 DEF Chunked, s

LEMMA FirstChunk ==
  ASSUME NEW a \in Nat, NEW b \in Nat, NEW s \in Seq(Seq(Nat)), s # <<>>,
         Chunked(s, a, b)
  PROVE  \E c \in Nat : /\ a <= c /\ c <= b /\ Head(s) = Run(a, c)
                        /\ Chunked(Tail(s), c, b)
<1>1. PICK o : Cuts(s, o, a, b)
  BY DEF Chunked
<1>2. Len(s) \in Nat /\ Len(s) >= 1 /\ Len(Tail(s)) = Len(s) - 1
  OBVIOUS
<1>3. /\ Head(s) = s[1] /\ \A i \in 1..(Len(s) - 1) : Tail(s)[i] = s[i + 1]
  BY <1>2
<1> DEFINE u == [i \in 0..(Len(s) - 1) |-> o[i + 1]]
           t == Tail(s)
<1>4. o[1] \in Nat /\ a <= o[1] /\ o[1] <= b /\ s[1] = Run(a, o[1])
  <2>1. 1 \in 1..Len(s) /\ 1 \in 0..Len(s) /\ 1 - 1 = 0
    BY <1>2
  <2>2. o[1 - 1] <= o[1] /\ o[1] <= b /\ s[1] = Run(o[1 - 1], o[1])
    BY <1>1, <2>1 DEF Cuts
  <2>3. o[1] \in Nat /\ o[0] = a
    BY <1>1, <2>1 DEF Cuts
  <2>4. QED
    BY <2>1, <2>2, <2>3
<1>5. u \in [0..Len(t) -> Nat] /\ u[0] = o[1] /\ u[Len(t)] = b
  <2>1. \A i \in 0..(Len(s) - 1) : i + 1 \in 0..Len(s)
    BY <1>2
  <2>2. u \in [0..(Len(s) - 1) -> Nat]
    BY <1>1, <2>1 DEF Cuts
  <2>3. u[0] = o[1] /\ u[Len(s) - 1] = o[Len(s)]
    BY <1>2
  <2>4. QED
    BY <1>1, <1>2, <2>2, <2>3 DEF Cuts
<1>6. ASSUME NEW i \in 1..Len(t)
      PROVE  u[i - 1] <= u[i] /\ u[i] <= b /\ t[i] = Run(u[i - 1], u[i])
  <2>1. /\ i \in 0..(Len(s) - 1) /\ i - 1 \in 0..(Len(s) - 1)
        /\ (i - 1) + 1 = i /\ (i + 1) - 1 = i /\ i + 1 \in 1..Len(s)
    BY <1>2
  <2>2. u[i] = o[i + 1] /\ u[i - 1] = o[i]
    BY <2>1
  <2>3. o[i] <= o[i + 1] /\ o[i + 1] <= b /\ s[i + 1] = Run(o[i], o[i + 1])
    BY <1>1, <2>1 DEF Cuts
  <2>4. t[i] = s[i + 1]
    BY <1>2, <1>3
  <2>5. QED
    BY <2>2, <2>3, <2>4
<1>7. Cuts(t, u, o[1], b)
  <2> HIDE DEF u, t
  <2> QED
    BY <1>5, <1>6 DEF Cuts
<1>8. Chunked(Tail(s), o[1], b)
  BY <1>7 DEF Chunked
<1>9. QED
  BY <1>3, <1>4, <1>8

(* splitInChunks cuts what it is given into chunks that follow each other, and
   unless the window covers it all, none of them is all of it. *)
LEMMA SplitIsChunked ==
  ASSUME NEW a \in Nat, NEW b \in Nat, a < b, NEW size \in Int
  PROVE  LET s == splitInChunks(Run(a, b), size) IN
           /\ s \in Seq(Seq(Nat))
           /\ Chunked(s, a, b)
           /\ b - a > 1 /\ size < b - a => \A i \in DOMAIN s : Len(s[i]) < b - a
<1> DEFINE r == Run(a, b)
           n == b - a
           s == splitInChunks(r, size)
<1>1. r \in Seq(Nat) /\ Len(r) = n /\ n \in Nat /\ n >= 1
  BY RunIsSeq
<1> SUFFICES /\ s \in Seq(Seq(Nat))
             /\ Chunked(s, a, b)
             /\ n > 1 /\ size < n => \A i \in DOMAIN s : Len(s[i]) < n
  OBVIOUS
<1> HIDE DEF r
<1>2. CASE size <= 0 /\ n = 1
  <2>1. s = <<r>>
    BY <1>1, <1>2 DEF splitInChunks
  <2>2. <<r>> \in Seq(Seq(Nat))
    BY <1>1
  <2>3. Chunked(<<r>>, a, b)
    BY OneChunk DEF r
  <2>4. QED
    BY <1>1, <1>2, <2>1, <2>2, <2>3
<1>3. CASE size <= 0 /\ n > 1
  <2>1. s = << SubSeq(r, 1, 1), SubSeq(r, 2, n) >>
    BY <1>1, <1>3, SMTT(30) DEF splitInChunks
  <2>2. /\ a + 1 \in Nat /\ a <= a + 1 /\ a + 1 <= b
        /\ (a + 1) - a = 1 /\ b - (a + 1) = n - 1
    BY <1>3
  <2>3. SubSeq(r, 1, 1) = Run(a, a + 1) /\ SubSeq(r, 2, n) = Run(a + 1, b)
    <3>1. /\ SubSeq(r, 0 + 1, 1) = Run(a + 0, a + 1)
          /\ SubSeq(r, 1 + 1, n) = Run(a + 1, a + n)
      <4>1. /\ 0 \in Nat /\ 1 \in Nat /\ n \in Nat /\ 0 <= 1 /\ 1 <= n
            /\ n <= b - a /\ 1 <= b - a /\ a \in Int /\ b \in Int
        BY <1>1, <1>3
      <4>2. QED
        BY <4>1, RunPart, ZenonT(30) DEF r
    <3>2. a + 0 = a /\ a + n = b /\ 0 + 1 = 1 /\ 1 + 1 = 2
      OBVIOUS
    <3>3. QED
      BY <3>1, <3>2
  <2>4. /\ Run(a, a + 1) \in Seq(Nat) /\ Len(Run(a, a + 1)) = 1
        /\ Run(a + 1, b) \in Seq(Nat) /\ Len(Run(a + 1, b)) = n - 1
    <3> DEFINE k == a + 1
    <3>1. /\ k \in Int /\ a \in Int /\ b \in Int /\ a <= k /\ k <= b
          /\ k - a = 1 /\ b - k = n - 1 /\ a >= 0 /\ k >= 0
      BY <2>2
    <3> HIDE DEF k, n
    <3>2. Run(a, k) \in Seq(Nat) /\ Len(Run(a, k)) = 1
      BY <3>1, RunIsSeq
    <3>3. Run(k, b) \in Seq(Nat) /\ Len(Run(k, b)) = n - 1
      BY <3>1, RunIsSeq
    <3>4. QED
      BY <3>2, <3>3 DEF k
  <2> DEFINE o == [i \in 0..2 |-> IF i = 0 THEN a ELSE IF i = 1 THEN a + 1 ELSE b]
  <2>5. o \in [0..2 -> Nat] /\ o[0] = a /\ o[1] = a + 1 /\ o[2] = b
    BY <2>2
  <2> HIDE DEF o
  <2>6. /\ s \in Seq(Seq(Nat)) /\ Len(s) = 2 /\ s[1] = Run(a, a + 1)
        /\ s[2] = Run(a + 1, b) /\ DOMAIN s = 1..2
    <3> HIDE DEF s
    <3> DEFINE x == Run(a, a + 1)
               y == Run(a + 1, b)
    <3>1. x \in Seq(Nat) /\ y \in Seq(Nat) /\ s = <<x, y>>
      BY <2>1, <2>3, <2>4
    <3> HIDE DEF x, y
    <3>2. /\ s \in Seq(Seq(Nat)) /\ Len(s) = 2 /\ s[1] = x
          /\ s[2] = y /\ DOMAIN s = 1..2
      BY <3>1
    <3>3. QED
      BY <3>2 DEF x, y
  <2> HIDE DEF s
  <2>7. \A i \in 1..2 : (i = 1 /\ i - 1 = 0) \/ (i = 2 /\ i - 1 = 1)
    OBVIOUS
  <2>8. Cuts(s, o, a, b)
    BY <2>2, <2>5, <2>6, <2>7 DEF Cuts
  <2>9. \A i \in DOMAIN s : Len(s[i]) < n
    <3>1. Len(s[1]) = 1 /\ Len(s[2]) = n - 1
      BY <2>4, <2>6
    <3>2. \A i \in DOMAIN s : i = 1 \/ i = 2
      BY <2>6, <2>7
    <3>3. 1 < n /\ n - 1 < n
      BY <1>3
    <3>4. QED
      BY <3>1, <3>2, <3>3
  <2>10. QED
    BY <2>6, <2>8, <2>9 DEF Chunked
<1>4. CASE size > 0
  <2> DEFINE m == (n + size - 1) \div size
             e(i) == IF i * size <= n THEN i * size ELSE n
             o == [i \in 0..m |-> a + e(i)]
  <2>1. /\ m \in Nat /\ m >= 1
        /\ n <= m * size /\ m * size <= n + size - 1
    BY <1>1, <1>4
  <2>2. \A i \in 0..m : i * size \in Nat /\ e(i) \in Nat /\ e(i) <= n
    BY <1>1, <1>4, <2>1
  <2>3. e(0) = 0 /\ e(m) = n
    BY <1>1, <2>1
  <2>4. ASSUME NEW i \in 1..m
        PROVE  /\ i - 1 \in 0..m /\ e(i - 1) = (i - 1) * size
               /\ e(i - 1) <= e(i) /\ e(i) - e(i - 1) <= size
    <3>1. i - 1 \in 0..m /\ i * size = (i - 1) * size + size
      BY <1>4, <2>1
    <3>2. (i - 1) * size <= (m - 1) * size
      BY <1>4, <2>1
    <3>3. (m - 1) * size = m * size - size
      BY <1>4, <2>1
    <3>4. (i - 1) * size < n
      BY <1>1, <1>4, <2>1, <2>2, <3>1, <3>2, <3>3
    <3>5. QED
      BY <1>1, <1>4, <2>2, <3>1, <3>4
  <2>5. s = [i \in 1..m |-> SubSeq(r, (i - 1) * size + 1, Min({i * size, n}))]
    BY <1>1, <1>4 DEF splitInChunks
  <2> HIDE DEF m
  <2>6. ASSUME NEW i \in 1..m
        PROVE  /\ s[i] = Run(a + e(i - 1), a + e(i))
               /\ s[i] \in Seq(Nat) /\ Len(s[i]) = e(i) - e(i - 1)
    <3>1. Min({i * size, n}) = e(i)
      <4>1. i * size \in Int /\ n \in Int
        BY <1>1, <2>1, <2>2
      <4>2. QED
        BY <4>1, LesserOf
    <3>2. s[i] = SubSeq(r, e(i - 1) + 1, e(i))
      <4>1. s[i] = SubSeq(r, (i - 1) * size + 1, Min({i * size, n}))
        BY <2>5
      <4>2. e(i - 1) = (i - 1) * size
        BY <2>4
      <4> HIDE DEF e, s
      <4>3. QED
        BY <3>1, <4>1, <4>2
    <3> HIDE DEF s, e
    <3>3. e(i - 1) \in Nat /\ e(i) \in Nat /\ e(i - 1) <= e(i) /\ e(i) <= b - a
      BY <2>1, <2>2, <2>4
    <3>4. s[i] = Run(a + e(i - 1), a + e(i))
      <4> DEFINE x == e(i - 1)
                 y == e(i)
      <4>1. x \in Nat /\ y \in Nat /\ x <= y /\ y <= b - a /\ a \in Int /\ b \in Int
        BY <3>3
      <4> HIDE DEF x, y
      <4>2. SubSeq(r, x + 1, y) = Run(a + x, a + y)
        BY <4>1, RunPart DEF r
      <4>3. QED
        BY <3>2, <4>2 DEF x, y
    <3>5. /\ a + e(i - 1) \in Int /\ a + e(i) \in Int /\ a + e(i - 1) >= 0
          /\ a + e(i - 1) <= a + e(i)
          /\ (a + e(i)) - (a + e(i - 1)) = e(i) - e(i - 1)
      BY <3>3
    <3> DEFINE p == a + e(i - 1)
               q == a + e(i)
    <3>6. p \in Int /\ q \in Int /\ p >= 0 /\ p <= q /\ q - p = e(i) - e(i - 1)
      BY <3>5
    <3>7. s[i] = Run(p, q)
      BY <3>4
    <3> HIDE DEF p, q
    <3>8. s[i] \in Seq(Nat) /\ Len(s[i]) = e(i) - e(i - 1)
      BY <3>6, <3>7, RunIsSeq
    <3>9. QED
      BY <3>4, <3>8
  <2>7. s \in Seq(Seq(Nat)) /\ Len(s) = m /\ DOMAIN s = 1..m
    <3>1. DOMAIN s = 1..m
      BY <2>5
    <3>2. s \in [1..m -> Seq(Nat)]
      <4> DEFINE f(i) == SubSeq(r, (i - 1) * size + 1, Min({i * size, n}))
      <4>1. s = [i \in 1..m |-> f(i)]
        BY <2>5
      <4>2. \A i \in 1..m : f(i) \in Seq(Nat)
        BY <2>5, <2>6
      <4> HIDE DEF s, f
      <4>3. QED
        BY <4>1, <4>2
    <3> HIDE DEF s
    <3>3. QED
      BY <2>1, <3>1, <3>2
  <2>8. o \in [0..m -> Nat] /\ o[0] = a /\ o[m] = b
    <3> HIDE DEF e
    <3>1. \A i \in 0..m : a + e(i) \in Nat
      BY <2>2
    <3>2. 0 \in 0..m /\ m \in 0..m
      BY <2>1
    <3>3. QED
      BY <2>3, <3>1, <3>2
  <2>9. ASSUME NEW i \in 1..m
        PROVE  o[i - 1] <= o[i] /\ o[i] <= b /\ s[i] = Run(o[i - 1], o[i])
    <3> HIDE DEF e, s
    <3>1. i \in 0..m /\ i - 1 \in 0..m
      BY <2>1
    <3>2. o[i - 1] = a + e(i - 1) /\ o[i] = a + e(i)
      BY <3>1
    <3>3. QED
      BY <2>2, <2>4, <2>6, <3>1, <3>2
  <2> HIDE DEF o
  <2>10. Cuts(s, o, a, b)
    <3> HIDE DEF s
    <3> QED
      BY <2>7, <2>8, <2>9 DEF Cuts
  <2>11. size < n => \A i \in DOMAIN s : Len(s[i]) < n
    <3> HIDE DEF s, e, n
    <3>1. ASSUME size < n, NEW i \in 1..m PROVE Len(s[i]) < n
      <4>1. i \in 0..m /\ i - 1 \in 0..m
        BY <2>1
      <4>2. e(i) \in Nat /\ e(i - 1) \in Nat /\ e(i) - e(i - 1) <= size
        BY <2>2, <2>4, <4>1
      <4>3. Len(s[i]) = e(i) - e(i - 1)
        BY <2>6
      <4>4. QED
        BY <1>1, <3>1, <4>2, <4>3
    <3>2. QED
      BY <2>7, <3>1
  <2>12. QED
    <3> HIDE DEF s, n
    <3> QED
      BY <2>7, <2>10, <2>11 DEF Chunked
<1>5. QED
  BY <1>1, <1>2, <1>3, <1>4
-----------------------------------------------------------------------------
(* What the model's ways to change a stream leave of the others. *)
Streams == {"c2p", "p2c", "s2p", "p2s"}
Stream  == [q : Seq(Int), fin : BOOLEAN]

(* The queue of stream s becomes v. *)
Queued(s, v) ==
  /\ str' \in [Streams -> Stream]
  /\ str'[s].q = v
  /\ \A t \in Streams \ {s} : str'[t].q = str[t].q
  /\ \A t \in Streams : str'[t].fin = str[t].fin

LEMMA QueueChange ==
  ASSUME str \in [Streams -> Stream], NEW s \in Streams, NEW v \in Seq(Int),
         str' = [str EXCEPT ![s].q = v]
  PROVE  Queued(s, v)
<1>1. str[s] \in Stream /\ str' = [str EXCEPT ![s] = [str[s] EXCEPT !.q = v]]
  OBVIOUS
<1> DEFINE r == [str[s] EXCEPT !.q = v]
<1>2. r \in Stream /\ r.q = v /\ r.fin = str[s].fin
  BY <1>1 DEF Stream
<1> HIDE DEF r
<1>3. str' = [str EXCEPT ![s] = r]
  BY <1>1 DEF r
<1>4. QED
  BY <1>2, <1>3 DEF Queued

LEMMA PutIs ==
  ASSUME str \in [Streams -> Stream], NEW s \in Streams, NEW u \in Seq(Int)
  PROVE  /\ Put(s, u) \in [Streams -> Stream]
         /\ Put(s, u)[s].q = str[s].q \o u
         /\ \A t \in Streams \ {s} : Put(s, u)[t].q = str[t].q
         /\ \A t \in Streams : Put(s, u)[t].fin = str[t].fin
<1> DEFINE v == str[s].q \o u
           r == [str[s] EXCEPT !.q = v]
<1>1. str[s] \in Stream /\ str[s].q \in Seq(Int)
  BY DEF Stream
<1>2. v \in Seq(Int)
  BY <1>1
<1>3. Put(s, u) = [str EXCEPT ![s] = r]
  BY DEF Put
<1> HIDE DEF v
<1>4. r \in Stream /\ r.q = v /\ r.fin = str[s].fin
  BY <1>1, <1>2 DEF Stream
<1> HIDE DEF r
<1>5. QED
  BY <1>3, <1>4 DEF v

(* The 502 is one unit on the client's stream. *)
LEMMA BadGatewayIs ==
  ASSUME str \in [Streams -> Stream]
  PROVE  LET st == Put("p2c", <<BadGateway>>) IN
           /\ st \in [Streams -> Stream]
           /\ st["p2c"].q = str["p2c"].q \o <<BadGateway>>
           /\ \A t \in Streams \ {"p2c"} : st[t].q = str[t].q
           /\ \A t \in Streams : st[t].fin = str[t].fin
<1>1. <<BadGateway>> \in Seq(Int) /\ "p2c" \in Streams
  BY DEF BadGateway, Streams
<1>2. QED
  BY <1>1, PutIs

LEMMA PutQueues ==
  ASSUME str \in [Streams -> Stream], NEW s \in Streams, NEW u \in Seq(Int),
         str' = Put(s, u)
  PROVE  Queued(s, str[s].q \o u)
<1>1. str[s].q \in Seq(Int)
  BY DEF Stream
<1>2. str[s].q \o u \in Seq(Int)
  BY <1>1
<1>3. str' = [str EXCEPT ![s].q = str[s].q \o u]
  BY DEF Put
<1>4. QED
  BY <1>2, <1>3, QueueChange

LEMMA RestQueues ==
  ASSUME str \in [Streams -> Stream], NEW s \in Streams,
         NEW n \in 1..Len(str[s].q), str' = Rest(s, n)
  PROVE  Queued(s, SubSeq(str[s].q, n + 1, Len(str[s].q)))
<1>1. str[s].q \in Seq(Int)
  BY DEF Stream
<1>2. SubSeq(str[s].q, n + 1, Len(str[s].q)) \in Seq(Int)
  BY <1>1
<1>3. str' = [str EXCEPT ![s].q = SubSeq(str[s].q, n + 1, Len(str[s].q))]
  BY DEF Rest
<1>4. QED
  BY <1>2, <1>3, QueueChange

(* Only FINs are added: that of s, or those Close() sends. *)
LEMMA FinEnds ==
  ASSUME str \in [Streams -> Stream], NEW s \in Streams, str' = Fin(s)
  PROVE  /\ str' \in [Streams -> Stream]
         /\ str'[s].fin
         /\ \A t \in Streams \ {s} : str'[t].fin = str[t].fin
         /\ \A t \in Streams : str'[t].q = str[t].q
<1>1. str[s] \in Stream /\ str' = [str EXCEPT ![s] = [str[s] EXCEPT !.fin = TRUE]]
  BY DEF Fin
<1> DEFINE r == [str[s] EXCEPT !.fin = TRUE]
<1>2. r \in Stream /\ r.fin /\ r.q = str[s].q
  BY <1>1, Zenon DEF Stream
<1> HIDE DEF r
<1>3. str' = [str EXCEPT ![s] = r]
  BY <1>1 DEF r
<1>4. QED
  BY <1>2, <1>3

LEMMA ClosedEnds ==
  ASSUME NEW st \in [Streams -> Stream], str' = Closed(st)
  PROVE  /\ str' \in [Streams -> Stream]
         /\ \A t \in Streams : str'[t].q = st[t].q
         /\ \A t \in Streams : st[t].fin => str'[t].fin
         /\ "l" \in open => str'["p2c"].fin
         /\ "r" \in open => str'["p2s"].fin
<1> DEFINE c(s) == \E p \in Peers : s = In(p) /\ Conn(p) \in open
           r(s) == [st[s] EXCEPT !.fin = st[s].fin \/ c(s)]
<1>1. str' = [s \in Streams |-> r(s)]
  BY DEF Closed
<1>2. ASSUME NEW s \in Streams
      PROVE  /\ r(s) \in Stream /\ r(s).q = st[s].q
             /\ r(s).fin <=> st[s].fin \/ c(s)
  <2>1. st[s] \in Stream
    OBVIOUS
  <2>2. (st[s].fin \/ c(s)) \in BOOLEAN
    OBVIOUS
  <2> HIDE DEF c
  <2>3. QED
    BY <2>1, <2>2, Zenon DEF Stream
<1>3. ("l" \in open => c("p2c")) /\ ("r" \in open => c("p2s"))
  BY DEF Peers, In, Conn
<1> HIDE DEF c, r
<1>4. QED
  BY <1>1, <1>2, <1>3 DEF Streams
-----------------------------------------------------------------------------
(* The first unit meant for each peer, less one: a CONNECT is not forwarded,
   and it is answered with Ok200, which is unit 0. *)
Base == IF conf.mode = "http" THEN 0 ELSE 1
Top  == IF conf.mode = "http" THEN 0 ELSE -1

(* Before the dial: k units are consumed, none is forwarded. *)
Waiting(k) ==
  /\ Delivered("server") = <<>> /\ pend = <<>>
  /\ \E z \in Nat : /\ k <= z /\ z <= sent["client"]
                    /\ br = Run(k, z)
                    /\ str["c2p"].q = Run(z, sent["client"])

(* While the hello is read: what came of it is in pend. *)
Reading ==
  /\ conf.mode = "connect"
  /\ Delivered("server") = <<>>
  /\ \E y, z \in Nat : /\ 1 <= y /\ y <= z /\ z <= sent["client"]
                       /\ y - 1 < conf.helloLen
                       /\ pend = IF y = 1 THEN <<>> ELSE << Run(1, y) >>
                       /\ br = Run(y, z)
                       /\ str["c2p"].q = Run(z, sent["client"])

(* The client's units are spread over what was delivered, the writes to be
   made, the copy buffer, the bufio.Reader and the stream, in this order. *)
Flowing ==
  \E w, x, y, z \in Nat :
    /\ Base <= w /\ w <= x /\ x <= y /\ y <= z /\ z <= sent["client"]
    /\ Delivered("server") = Run(Base, w)
    /\ Chunked(pend, w, x)
    /\ buf["up"] = Run(x, y)
    /\ br = Run(y, z)
    /\ str["c2p"].q = Run(z, sent["client"])

Landed ==
  \/ Delivered("server") = <<>>
  \/ \E w \in Nat : /\ Base <= w /\ w <= sent["client"]
                    /\ Delivered("server") = Run(Base, w)

UpInv ==
  /\ pc = "readRequest" => Waiting(0)
  /\ pc \in {"resolve", "write200"} => Waiting(1)
  /\ pc = "write200" => conf.mode = "connect"
  /\ pc = "readHello" => Reading
  /\ pc = "forward" => Flowing
  /\ cp["up"] # "none" => Flowing /\ pend = <<>>
  /\ pc = "ended" => Landed

DownInv ==
  /\ pc \in {"readRequest", "resolve", "write200"} => Delivered("client") = <<>>
  /\ pc \in {"readHello", "forward"} => Delivered("client") = Run(Top, 0)
  /\ cp["down"] = "none" => str["s2p"].q = Run(0, sent["server"])
  /\ cp["down"] # "none" =>
       \E w, y \in Nat :
         /\ w <= y /\ y <= sent["server"]
         /\ Delivered("client") = Run(Top, w)
         /\ buf["down"] = Run(w, y)
         /\ str["s2p"].q = Run(y, sent["server"])
  /\ pc = "ended" /\ cp["down"] = "none" =>
       Delivered("client") \in {<<>>, Run(Top, 0), <<BadGateway>>}

(* The stages of handle and of the two goroutines go together. *)
StageInv ==
  /\ pc \notin {"pipe", "ended"} => \A d \in Directions : cp[d] = "none"
  /\ pc = "pipe" => \A d \in Directions : cp[d] # "none"
  /\ pc = "ended" => \A d \in Directions : cp[d] \in {"none", "exited"}
  /\ (cp["up"] = "none") <=> (cp["down"] = "none")
  /\ \A d \in Directions : cp[d] \in {"none", "read"} => buf[d] = <<>>
  /\ pc # "ended" => "l" \in open
  /\ pc \in {"write200", "readHello", "forward", "pipe"} => "r" \in open
  /\ helloWrites # <<>> => pc \in {"forward", "pipe", "ended"}
  /\ pc = "ended" =>
       open = {} /\ str["p2c"].fin /\ (helloWrites # <<>> => str["p2s"].fin)

(* A direction that ended by itself ended because its source did. *)
EndInv ==
  rst = {} /\ timedOut = {} =>
    \A d \in Directions : cp[d] \in {"shut", "exited"} =>
      /\ str[From(d)].fin /\ str[From(d)].q = <<>>
      /\ buf[d] = <<>> /\ Buffered(d) = <<>>

Splits ==
  conf.exploit /\ conf.helloLen > 1 /\ conf.window < conf.helloLen

ChunkInv ==
  Splits /\ pc = "forward" =>
    \A i \in DOMAIN pend : Len(pend[i]) < conf.helloLen

Typed == TypeOK /\ sent \in [Peers -> Nat]

Inv == Typed /\ StageInv /\ UpInv /\ DownInv /\ EndInv /\ ChunkInv /\ HelloFragmented

-----------------------------------------------------------------------------
LEMMA ConfFacts ==
  ASSUME conf \in Configs
  PROVE  /\ conf.mode \in {"http", "connect"}
         /\ conf.helloLen \in Nat /\ conf.helloLen >= 1
         /\ conf.helloLen < ClientUnits
         /\ conf.window \in Int
<1>1. /\ conf.mode \in Modes /\ conf.helloLen \in HelloLens
      /\ conf.window \in WindowSizes
  BY Zenon DEF Configs
<1>2. conf.mode \in {"http", "connect"}
  BY <1>1, ModesKnown
<1>3. /\ conf.helloLen \in Nat \ {0} /\ conf.helloLen < ClientUnits
      /\ conf.window \in Int
  BY <1>1, HelloFits, WindowsInt
<1>4. QED
  BY <1>2, <1>3

(* The parts of TypeOK as the proofs use them. *)
LEMMA TypeFacts ==
  ASSUME TypeOK
  PROVE  /\ conf \in Configs
         /\ br \in Seq(Nat) /\ pend \in Seq(Seq(Nat))
         /\ buf \in [Directions -> Seq(Nat)]
         /\ str \in [Streams -> Stream]
         /\ \A s \in Streams : str[s].q \in Seq(Int)
         /\ got \in [Peers -> Seq(Int)]
         /\ helloWrites \in Seq(Nat)
         /\ cp \in [Directions -> {"none", "read", "write", "shut", "exited"}]
  BY DEF TypeOK, Streams, Stream

(* A read of n units of a run, and what it leaves. *)
LEMMA ReadRun ==
  ASSUME NEW z \in Nat, NEW m \in Nat, z <= m, NEW n \in 1..Len(Run(z, m))
  PROVE  /\ z + n \in Nat /\ z < z + n /\ z + n <= m
         /\ SubSeq(Run(z, m), 1, n) = Run(z, z + n)
         /\ SubSeq(Run(z, m), n + 1, Len(Run(z, m))) = Run(z + n, m)
<1> DEFINE q == Run(z, m)
<1>0. z \in Int /\ m \in Int
  OBVIOUS
<1>1. Len(q) = m - z /\ z \in Int /\ m \in Int
  BY <1>0, RunIsSeq
<1>2. n \in Nat /\ n >= 1 /\ n <= m - z
  BY <1>1
<1>3. SubSeq(q, 0 + 1, n) = Run(z + 0, z + n)
  <2>1. 0 \in Nat /\ 0 <= n
    BY <1>2
  <2>2. QED
    BY <1>1, <1>2, <2>1, RunPart
<1>4. SubSeq(q, n + 1, m - z) = Run(z + n, z + (m - z))
  <2>1. m - z \in Nat /\ m - z <= m - z
    BY <1>2
  <2>2. QED
    BY <1>1, <1>2, <2>1, RunPart
<1>5. 0 + 1 = 1 /\ z + 0 = z /\ z + (m - z) = m
  OBVIOUS
<1>6. QED
  BY <1>1, <1>2, <1>3, <1>4, <1>5

(* What the proxy has not read of a peer's stream is its latest units. *)
LEMMA Unread ==
  ASSUME Inv, pc # "ended"
  PROVE  /\ \E z \in Nat : /\ z <= sent["client"]
                           /\ str["c2p"].q = Run(z, sent["client"])
         /\ \E z \in Nat : /\ z <= sent["server"]
                           /\ str["s2p"].q = Run(z, sent["server"])
<1>1. \E z \in Nat : z <= sent["client"] /\ str["c2p"].q = Run(z, sent["client"])
  <2>1. CASE pc \in {"readRequest", "resolve", "write200"}
    BY <2>1 DEF Inv, UpInv, Waiting
  <2>2. CASE pc = "readHello"
    BY <2>2 DEF Inv, UpInv, Reading
  <2>3. CASE pc = "forward" \/ pc = "pipe"
    <3>1. Flowing
      BY <2>3 DEF Inv, UpInv, StageInv, Directions
    <3>2. QED
      BY <3>1 DEF Flowing
  <2>4. QED
    BY <2>1, <2>2, <2>3 DEF Inv, Typed, TypeOK
<1>2. \E z \in Nat : z <= sent["server"] /\ str["s2p"].q = Run(z, sent["server"])
  <2>1. sent["server"] \in Nat
    BY DEF Inv, Typed, Peers
  <2>2. CASE cp["down"] = "none"
    <3>1. 0 \in Nat /\ 0 <= sent["server"]
      BY <2>1
    <3>2. str["s2p"].q = Run(0, sent["server"])
      BY <2>2 DEF Inv, DownInv
    <3>3. QED
      BY <3>1, <3>2
  <2>3. CASE cp["down"] # "none"
    BY <2>1, <2>3 DEF Inv, DownInv
  <2>4. QED
    BY <2>2, <2>3
<1>3. QED
  BY <1>1, <1>2

(* ReadHello moves the units y + 1 to k of the hello from br to pend. *)
HelloAt(y, k, z) ==
  /\ 1 <= y /\ y < k /\ k <= z /\ z <= sent["client"]
  /\ br = Run(y, z) /\ br' = Run(k, z)
  /\ str["c2p"].q = Run(z, sent["client"])
  /\ \/ /\ k - 1 < conf.helloLen
        /\ pend' = << Run(1, k) >> /\ pc' = "readHello"
     \/ /\ k - 1 = conf.helloLen /\ pc' = "forward"
        /\ pend' = IF conf.exploit THEN splitInChunks(Run(1, k), conf.window)
                                   ELSE << Run(1, k) >>

LEMMA HelloRead ==
  ASSUME Inv, ReadHello
  PROVE  /\ \E y, k, z \in Nat : HelloAt(y, k, z)
         /\ conf.mode = "connect" /\ Delivered("server") = <<>>
<1>1. /\ pc = "readHello" /\ br # <<>> /\ Reading
      /\ conf.helloLen \in Nat /\ conf.helloLen >= 1
  BY ConfFacts DEF Inv, Typed, TypeOK, UpInv, ReadHello
<1>2. PICK y \in Nat, z \in Nat :
         /\ 1 <= y /\ y <= z /\ z <= sent["client"]
         /\ y - 1 < conf.helloLen
         /\ pend = IF y = 1 THEN <<>> ELSE << Run(1, y) >>
         /\ br = Run(y, z)
         /\ str["c2p"].q = Run(z, sent["client"])
  BY <1>1 DEF Reading
<1> DEFINE sofar == FlattenSeq(pend)
           n     == Min({Len(br), conf.helloLen - Len(sofar)})
           raw   == sofar \o SubSeq(br, 1, n)
           k     == y + n
<1>3. sofar = Run(1, y)
  BY <1>2, FlattenNone, FlattenOne, RunEmpty
<1>4. Len(sofar) = y - 1 /\ Len(br) = z - y
  <2>1. 1 \in Int /\ y \in Int /\ z \in Int
    OBVIOUS
  <2>2. QED
    BY <1>2, <1>3, <2>1, RunIsSeq
<1>5. y < z
  BY <1>1, <1>2, RunEmpty
<1>6. n = IF z - y <= conf.helloLen - (y - 1) THEN z - y
          ELSE conf.helloLen - (y - 1)
  <2> HIDE DEF sofar
  <2>1. z - y \in Int /\ conf.helloLen - (y - 1) \in Int
    BY <1>1
  <2>2. QED
    BY <1>4, <2>1, LesserOf
<1> HIDE DEF n, sofar
<1>7. n \in 1..Len(br) /\ k \in Nat /\ y < k /\ k <= z /\ k - 1 <= conf.helloLen
  BY <1>1, <1>2, <1>4, <1>5, <1>6, SMTT(30)
<1>8. SubSeq(br, 1, n) = Run(y, k) /\ SubSeq(br, n + 1, Len(br)) = Run(k, z)
  <2>1. y <= z /\ br = Run(y, z) /\ n \in 1..Len(br)
    BY <1>2, <1>7
  <2>2. /\ SubSeq(br, 1, n) = Run(y, y + n)
        /\ SubSeq(br, n + 1, Len(br)) = Run(y + n, z)
    BY <2>1, ReadRun, Zenon
  <2>3. QED
    BY <2>2
<1>9. raw = Run(1, k) /\ Len(raw) = k - 1
  <2>1. 1 \in Int /\ y \in Int /\ k \in Int /\ 1 <= y /\ y <= k /\ 1 <= k
    BY <1>2, <1>7
  <2> HIDE DEF k
  <2>2. raw = Run(1, k)
    BY <1>3, <1>8, <2>1, RunJoin, ZenonT(30)
  <2>3. QED
    BY <2>1, <2>2, RunIsSeq
<1>10. /\ br' = SubSeq(br, n + 1, Len(br))
       /\ IF Len(raw) < conf.helloLen
          THEN pend' = <<raw>> /\ pc' = pc
          ELSE /\ pend' = IF conf.exploit THEN splitInChunks(raw, conf.window)
                                          ELSE <<raw>>
               /\ pc' = "forward"
  BY DEF ReadHello, n, sofar
<1> HIDE DEF k, raw
<1>11. HelloAt(y, k, z)
  <2>1. CASE Len(raw) < conf.helloLen
    BY <1>1, <1>2, <1>7, <1>8, <1>9, <1>10, <2>1 DEF HelloAt
  <2>2. CASE ~(Len(raw) < conf.helloLen)
    <3>1. k - 1 = conf.helloLen
      BY <1>1, <1>7, <1>9, <2>2
    <3>2. QED
      BY <1>2, <1>7, <1>8, <1>9, <1>10, <2>2, <3>1 DEF HelloAt
  <2>3. QED
    BY <2>1, <2>2
<1>12. QED
  BY <1>1, <1>7, <1>11 DEF Reading

-----------------------------------------------------------------------------
(* Every step keeps the types. *)
LEMMA Typing == Inv /\ [Next]_vars => Typed'
<1> SUFFICES ASSUME Inv, [Next]_vars PROVE Typed'
  OBVIOUS
<1> USE DEF handleVars, copyVars, peerVars, histVars
<1>t. /\ TypeOK /\ sent \in [Peers -> Nat] /\ str \in [Streams -> Stream]
      /\ \A s \in Streams : str[s].q \in Seq(Int)
      /\ Streams = {"c2p", "p2c", "s2p", "p2s"}
  BY TypeFacts DEF Inv, Typed, Streams
<1>p. /\ {"client", "server"} = Peers /\ {"up", "down"} = Directions
      /\ \A p \in Peers : In(p) \in Streams /\ Out(p) \in Streams
      /\ \A d \in Directions : From(d) \in Streams /\ To(d) \in Streams
  BY DEF Peers, Directions, In, Out, From, To, Source, Target, Streams
<1>a. ASSUME NEW st \in [Streams -> Stream], Abandon(st) PROVE Typed'
  <2>1. str' \in [Streams -> Stream]
    BY <1>a, ClosedEnds DEF Abandon
  <2>2. QED
    BY <1>t, <1>a, <2>1 DEF Abandon, Typed, TypeOK, Stream
<1>1. CASE FillBuffer
  <2>1. PICK n \in 1..Len(str["c2p"].q) : br' = First("c2p", n) /\ str' = Rest("c2p", n)
    BY <1>1 DEF FillBuffer
  <2>2. PICK z \in Nat : z <= sent["client"] /\ str["c2p"].q = Run(z, sent["client"])
    BY <1>1, Unread DEF FillBuffer
  <2>3. sent["client"] \in Nat
    BY <1>t, <1>p
  <2>4. First("c2p", n) = Run(z, z + n) /\ z + n \in Nat /\ z < z + n
    <3>1. n \in 1..Len(Run(z, sent["client"]))
      BY <2>2
    <3>2. /\ SubSeq(Run(z, sent["client"]), 1, n) = Run(z, z + n)
          /\ z + n \in Nat /\ z < z + n
      BY <2>2, <2>3, <3>1, ReadRun
    <3>3. QED
      BY <2>2, <3>2 DEF First
  <2>5. br' \in Seq(Nat)
    BY <2>1, <2>4, RunIsSeq
  <2>6. str' \in [Streams -> Stream]
    BY <1>t, <2>1, RestQueues DEF Queued
  <2>7. QED
    BY <1>1, <1>t, <2>5, <2>6 DEF FillBuffer, Typed, TypeOK, Stream
<1>2. CASE RejectRequest \/ RefuseOrDialFails \/ HandshakeFails \/ ForwardFails \/ EndPipe
  BY <1>2, <1>a, <1>t
     DEF RejectRequest, RefuseOrDialFails, HandshakeFails, ForwardFails, EndPipe
<1>3. CASE AcceptRequest
  <2>1. br' \in Seq(Nat)
    BY <1>3, <1>t DEF AcceptRequest, TypeOK
  <2>2. QED
    BY <1>3, <1>t, <2>1 DEF AcceptRequest, Typed, TypeOK
<1>4. CASE ResolveFails
  BY <1>4, <1>a, <1>t, BadGatewayIs DEF ResolveFails
<1>5. CASE Dial
  <2>1. << <<1>> >> \in Seq(Seq(Nat))
    <3>1. <<1>> \in Seq(Nat)
      OBVIOUS
    <3> DEFINE u == <<1>>
    <3> HIDE DEF u
    <3>2. u \in Seq(Nat) => <<u>> \in Seq(Seq(Nat))
      OBVIOUS
    <3>3. QED
      BY <3>1, <3>2 DEF u
  <2>2. pend' \in Seq(Seq(Nat)) /\ pc' \in {"forward", "write200"}
    BY <1>5, <1>t, <2>1 DEF Dial, TypeOK
  <2>3. QED
    BY <1>5, <1>t, <2>2 DEF Dial, Typed, TypeOK
<1>6. CASE Write200
  <2>1. <<Ok200>> \in Seq(Int)
    BY DEF Ok200
  <2>2. str' \in [Streams -> Stream]
    BY <1>6, <1>t, <2>1, PutQueues DEF Write200, Queued
  <2>3. QED
    BY <1>6, <1>t, <2>2 DEF Write200, Typed, TypeOK, Stream
<1>7. CASE ReadHello
  <2>1. PICK y \in Nat, k \in Nat, z \in Nat : HelloAt(y, k, z)
    BY <1>7, HelloRead
  <2>2. Run(1, k) \in Seq(Nat) /\ Run(k, z) \in Seq(Nat)
    <3>1. /\ 1 \in Int /\ k \in Int /\ z \in Int /\ 1 <= k /\ k <= z
          /\ 1 >= 0 /\ k >= 0
      BY <2>1 DEF HelloAt
    <3>2. QED
      BY <3>1, RunIsSeq
  <2>3. << Run(1, k) >> \in Seq(Seq(Nat))
    BY <2>2
  <2>4. splitInChunks(Run(1, k), conf.window) \in Seq(Seq(Nat))
    <3>1. conf.window \in Int /\ 1 \in Nat /\ 1 < k
      BY <1>t, <2>1, ConfFacts DEF TypeOK, HelloAt
    <3>2. QED
      BY <3>1, SplitIsChunked
  <2>5. br' \in Seq(Nat) /\ pend' \in Seq(Seq(Nat)) /\ pc' \in {"readHello", "forward"}
    BY <2>1, <2>2, <2>3, <2>4 DEF HelloAt
  <2>6. QED
    BY <1>7, <1>t, <2>5 DEF ReadHello, Typed, TypeOK
<1>8. CASE ForwardWrite
  <2>1. /\ Head(pend) \in Seq(Nat) /\ Tail(pend) \in Seq(Seq(Nat))
        /\ Head(pend) \in Seq(Int) /\ Len(Head(pend)) \in Nat
    <3>1. pend \in Seq(Seq(Nat)) /\ pend # <<>>
      BY <1>8, <1>t, TypeFacts DEF ForwardWrite
    <3>2. Head(pend) \in Seq(Nat) /\ Tail(pend) \in Seq(Seq(Nat))
      BY ONLY <3>1
    <3>3. QED
      BY ONLY <3>2
  <2>2. str' \in [Streams -> Stream]
    BY <1>8, <1>t, <2>1, PutQueues DEF ForwardWrite, Queued
  <2>3. helloWrites' \in Seq(Nat)
    BY <1>8, <1>t, <2>1 DEF ForwardWrite, TypeOK
  <2>4. QED
    BY <1>8, <1>t, <2>1, <2>2, <2>3 DEF ForwardWrite, Typed, TypeOK, Stream
<1>9. CASE StartPipe
  BY <1>9, <1>t DEF StartPipe, Typed, TypeOK
<1>10. ASSUME NEW d \in Directions, CopyRead(d) PROVE Typed'
  <2>1. CASE Buffered(d) # <<>>
    <3>1. br \in Seq(Nat) /\ br # <<>> /\ buf' = [buf EXCEPT ![d] = br] /\ br' = <<>>
      BY <1>10, <1>t, <2>1, TypeFacts DEF CopyRead, Buffered
    <3>2. buf' \in [Directions -> Seq(Nat)] /\ buf'[d] # <<>>
      <4>1. buf \in [Directions -> Seq(Nat)]
        BY <1>t, TypeFacts
      <4>2. QED
        BY ONLY <3>1, <4>1, d \in Directions
    <3>3. QED
      BY <1>10, <1>t, <2>1, <3>1, <3>2, SMTT(30) DEF CopyRead, Typed, TypeOK
  <2>2. CASE Buffered(d) = <<>>
    <3>1. PICK n \in 1..Len(str[From(d)].q) :
             buf' = [buf EXCEPT ![d] = First(From(d), n)] /\ str' = Rest(From(d), n)
      BY <1>10, <2>2 DEF CopyRead
    <3>2. pc # "ended"
      BY <1>10 DEF CopyRead, Inv, StageInv
    <3>3. PICK z \in Nat, m \in Nat : z <= m /\ str[From(d)].q = Run(z, m)
      BY <1>t, <1>p, <3>2, Unread DEF From, Out, Source, Directions
    <3>4. First(From(d), n) = Run(z, z + n) /\ z + n \in Nat /\ z < z + n
      <4>1. n \in 1..Len(Run(z, m))
        BY <3>3
      <4>2. /\ SubSeq(Run(z, m), 1, n) = Run(z, z + n)
            /\ z + n \in Nat /\ z < z + n
        BY <3>3, <4>1, ReadRun
      <4>3. QED
        BY <3>3, <4>2 DEF First
    <3>5. First(From(d), n) \in Seq(Nat) /\ First(From(d), n) # <<>>
      <4>1. /\ First(From(d), n) \in Seq(Nat)
            /\ Len(First(From(d), n)) = (z + n) - z
        BY <3>4, RunIsSeq, SMTT(30)
      <4>2. QED
        BY <3>4, <4>1
    <3>6. buf' \in [Directions -> Seq(Nat)] /\ buf'[d] # <<>>
      BY <1>t, <3>1, <3>5 DEF TypeOK
    <3>7. str' \in [Streams -> Stream]
      BY <1>t, <1>p, <3>1, RestQueues DEF Queued
    <3>8. QED
      BY <1>10, <1>t, <2>2, <3>1, <3>6, <3>7 DEF CopyRead, Typed, TypeOK, Stream
  <2>3. QED
    BY <2>1, <2>2
<1>11. ASSUME NEW d \in Directions, CopyWrite(d) PROVE Typed'
  <2>1. buf[d] \in Seq(Nat) /\ buf[d] # <<>>
    BY <1>11, <1>t DEF CopyWrite, TypeOK
  <2>2. /\ <<Head(buf[d])>> \in Seq(Int) /\ Tail(buf[d]) \in Seq(Nat)
        /\ Len(buf[d]) # 1 => Tail(buf[d]) # <<>>
    <3>1. Head(buf[d]) \in Nat /\ Tail(buf[d]) \in Seq(Nat)
      BY <2>1
    <3>2. Len(Tail(buf[d])) = Len(buf[d]) - 1 /\ Len(buf[d]) \in Nat \ {0}
      BY <2>1
    <3>3. \A h \in Nat : <<h>> \in Seq(Int)
      OBVIOUS
    <3>4. <<Head(buf[d])>> \in Seq(Int)
      BY ONLY <3>1, <3>3, Zenon
    <3>5. Len(buf[d]) # 1 => Tail(buf[d]) # <<>>
      <4>1. Len(buf[d]) # 1 => Len(Tail(buf[d])) # 0
        BY <3>2
      <4>2. Len(<<>>) = 0
        OBVIOUS
      <4>3. QED
        BY <4>1, <4>2
    <3>6. QED
      BY <3>1, <3>4, <3>5
  <2>3. str' \in [Streams -> Stream]
    BY <1>11, <1>t, <1>p, <2>2, PutQueues DEF CopyWrite, Queued
  <2>4. /\ buf' = [buf EXCEPT ![d] = Tail(buf[d])]
        /\ buf' \in [Directions -> Seq(Nat)]
    BY <1>11, <1>t, <2>2 DEF CopyWrite, TypeOK
  <2>5. \A e \in Directions : cp'[e] = "write" => buf'[e] # <<>>
    BY <1>11, <1>t, <2>2, <2>4 DEF CopyWrite, TypeOK
  <2>6. QED
    BY <1>11, <1>t, <2>3, <2>4, <2>5 DEF CopyWrite, Typed, TypeOK, Stream
<1>12. ASSUME NEW d \in Directions, CopyEnds(d) \/ CopyTimesOut(d) PROVE Typed'
  BY <1>12, <1>t DEF CopyEnds, CopyTimesOut, Typed, TypeOK
<1>13. ASSUME NEW d \in Directions, HalfClose(d) PROVE Typed'
  <2>1. str' \in [Streams -> Stream]
    BY <1>13, <1>t, <1>p, FinEnds DEF HalfClose
  <2>2. QED
    BY <1>13, <1>t, <2>1 DEF HalfClose, Typed, TypeOK, Stream
<1>14. ASSUME NEW p \in Peers, PeerSend(p) PROVE Typed'
  <2>1. sent[p] \in Nat /\ <<sent[p] + 1>> \in Seq(Int)
    BY <1>t
  <2>2. str' \in [Streams -> Stream]
    BY <1>14, <1>t, <1>p, <2>1, PutQueues DEF PeerSend, Queued
  <2>3. /\ sent' \in [Peers -> Nat]
        /\ sent'["client"] \in 0..ClientUnits /\ sent'["server"] \in 0..ServerUnits
    BY <1>14, <1>t, <1>p, <2>1, UnitsAreNats, SMTT(30) DEF PeerSend, Units, TypeOK
  <2>4. QED
    BY <1>14, <1>t, <2>2, <2>3 DEF PeerSend, Typed, TypeOK, Stream
<1>15. ASSUME NEW p \in Peers, PeerRead(p) PROVE Typed'
  <2>1. /\ str[In(p)].q \in Seq(Int) /\ str[In(p)].q # <<>>
        /\ Tail(str[In(p)].q) \in Seq(Int) /\ Head(str[In(p)].q) \in Int
    BY <1>15, <1>t, <1>p DEF PeerRead
  <2>2. str' = [str EXCEPT ![In(p)].q = Tail(str[In(p)].q)]
    BY <1>15 DEF PeerRead
  <2>3. str' \in [Streams -> Stream]
    BY <1>t, <1>p, <2>1, <2>2, QueueChange DEF Queued
  <2>4. got' \in [Peers -> Seq(Int)]
    BY <1>15, <1>t, <2>1 DEF PeerRead, TypeOK
  <2>5. QED
    BY <1>15, <1>t, <2>3, <2>4 DEF PeerRead, Typed, TypeOK, Stream
<1>16. ASSUME NEW p \in Peers, PeerFin(p) PROVE Typed'
  <2>1. str' \in [Streams -> Stream]
    BY <1>16, <1>t, <1>p, FinEnds DEF PeerFin
  <2>2. QED
    BY <1>16, <1>t, <2>1 DEF PeerFin, Typed, TypeOK, Stream
<1>17. ASSUME NEW p \in Peers, PeerReset(p) PROVE Typed'
  BY <1>17, <1>t DEF PeerReset, Conn, Typed, TypeOK
<1>18. CASE UNCHANGED vars
  BY <1>18, <1>t DEF vars, Typed, TypeOK
<1>19. QED
  BY <1>1, <1>2, <1>3, <1>4, <1>5, <1>6, <1>7, <1>8, <1>9, <1>10, <1>11, <1>12,
     <1>13, <1>14, <1>15, <1>16, <1>17, <1>18
     DEF Next, handle, copyWithTimeout, Finished

-----------------------------------------------------------------------------
(* Queues change and FINs stay, whatever a stream's user does. *)
LEMMA FinsStay ==
  ASSUME Inv, [Next]_vars
  PROVE  /\ \A s \in Streams : str[s].fin => str'[s].fin
         /\ conf' = conf /\ rst \subseteq rst' /\ timedOut \subseteq timedOut'
<1> USE DEF handleVars, copyVars, peerVars, histVars
<1>t. /\ str \in [Streams -> Stream] /\ "c2p" \in Streams /\ "p2c" \in Streams
      /\ "p2s" \in Streams /\ "s2p" \in Streams
      /\ \A p \in Peers : In(p) \in Streams /\ Out(p) \in Streams
      /\ \A d \in Directions : From(d) \in Streams /\ To(d) \in Streams
  BY TypeFacts DEF Inv, Typed, Peers, Directions, In, Out, From, To, Source, Target,
                   Streams
<1>c. conf' = conf /\ rst \subseteq rst' /\ timedOut \subseteq timedOut'
  BY DEF Next, handle, copyWithTimeout, Finished, vars, FillBuffer, RejectRequest,
         AcceptRequest, ResolveFails, RefuseOrDialFails, Dial, Write200, ReadHello,
         HandshakeFails, ForwardWrite, ForwardFails, StartPipe, EndPipe, Abandon,
         CopyRead, CopyWrite, CopyEnds, CopyTimesOut, HalfClose, PeerSend,
         PeerRead, PeerFin, PeerReset
<1>f. ASSUME NEW s \in Streams, NEW v,
             str' = [str EXCEPT ![s].q = v]
      PROVE  \A r \in Streams : str[r].fin => str'[r].fin
  BY <1>f, <1>t DEF Stream
<1>g. ASSUME NEW s \in Streams, str' = Fin(s)
      PROVE  \A r \in Streams : str[r].fin => str'[r].fin
  BY <1>g, <1>t, FinEnds
<1>a. ASSUME Abandon(str)
      PROVE  \A r \in Streams : str[r].fin => str'[r].fin
  BY <1>a, <1>t, ClosedEnds DEF Abandon
<1>1. CASE RejectRequest \/ RefuseOrDialFails \/ HandshakeFails \/ ForwardFails \/ EndPipe
  BY <1>1, <1>a, <1>c
     DEF RejectRequest, RefuseOrDialFails, HandshakeFails, ForwardFails, EndPipe
<1>2. CASE ResolveFails
  <2> DEFINE st == IF "l" \in rst THEN str ELSE Put("p2c", <<BadGateway>>)
  <2>1. st \in [Streams -> Stream] /\ \A r \in Streams : st[r].fin = str[r].fin
    BY <1>t, BadGatewayIs
  <2>2. str' = Closed(st)
    BY <1>2 DEF ResolveFails, Abandon
  <2> HIDE DEF st
  <2>3. \A r \in Streams : st[r].fin => str'[r].fin
    BY <2>1, <2>2, ClosedEnds
  <2>4. QED
    BY <1>c, <2>1, <2>3
<1>3. CASE \E n \in Nat, s \in Streams : str' = Rest(s, n)
  BY <1>3, <1>c, <1>f DEF Rest
<1>4. CASE \E s \in Streams : \E u : str' = Put(s, u)
  BY <1>4, <1>c, <1>f DEF Put
<1>5. CASE str' = str
  BY <1>5, <1>c
<1>6. CASE \E s \in Streams : str' = Fin(s)
  BY <1>6, <1>c, <1>g
<1>7. CASE \E p \in Peers : PeerRead(p)
  BY <1>7, <1>c, <1>f, <1>t DEF PeerRead
<1>8. ASSUME NEW d \in Directions, CopyRead(d)
      PROVE  str' = str \/ \E n \in Nat, s \in Streams : str' = Rest(s, n)
  <2>1. CASE Buffered(d) # <<>>
    BY <1>8, <2>1 DEF CopyRead
  <2>2. CASE Buffered(d) = <<>>
    BY <1>8, <1>t, <2>2 DEF CopyRead
  <2>3. QED
    BY <2>1, <2>2
<1>9. CASE FillBuffer
  BY <1>9, <1>3, <1>t DEF FillBuffer
<1>10. CASE Write200 \/ ForwardWrite
  BY <1>10, <1>4, <1>t DEF Write200, ForwardWrite
<1>11. CASE \E d \in Directions : CopyWrite(d)
  BY <1>11, <1>4, <1>t DEF CopyWrite
<1>12. CASE \E p \in Peers : PeerSend(p)
  BY <1>12, <1>4, <1>t DEF PeerSend
<1>13. CASE (\E d \in Directions : HalfClose(d)) \/ \E p \in Peers : PeerFin(p)
  BY <1>13, <1>6, <1>t DEF HalfClose, PeerFin
<1>14. CASE \/ AcceptRequest \/ Dial \/ ReadHello \/ StartPipe
            \/ \E d \in Directions : CopyEnds(d) \/ CopyTimesOut(d)
            \/ \E p \in Peers : PeerReset(p)
            \/ UNCHANGED vars
  BY <1>14, <1>5 DEF AcceptRequest, Dial, ReadHello, StartPipe, CopyEnds,
                     CopyTimesOut, PeerReset, vars
<1>15. QED
  BY <1>1, <1>2, <1>3, <1>5, <1>7, <1>8, <1>9, <1>10, <1>11, <1>12, <1>13, <1>14
     DEF Next, handle, copyWithTimeout, Finished

-----------------------------------------------------------------------------
(* handle, its two goroutines and its two connections move in step. *)
LEMMA Stages == Inv /\ [Next]_vars => StageInv'
<1> SUFFICES ASSUME Inv, [Next]_vars PROVE StageInv'
  OBVIOUS
<1> USE DEF handleVars, copyVars, peerVars, histVars
<1>t. TypeOK /\ StageInv /\ str \in [Streams -> Stream] /\ "up" \in Directions
      /\ "down" \in Directions /\ "p2c" \in Streams /\ "p2s" \in Streams
  BY TypeFacts DEF Inv, Typed, Directions, Streams
<1>f. (str["p2c"].fin => str'["p2c"].fin) /\ (str["p2s"].fin => str'["p2s"].fin)
  BY <1>t, FinsStay
<1>a. ASSUME NEW st \in [Streams -> Stream], Abandon(st), pc # "ended",
             \A d \in Directions : cp[d] \in {"none", "exited"}
      PROVE  StageInv'
  <2>1. ("l" \in open => str'["p2c"].fin) /\ ("r" \in open => str'["p2s"].fin)
    BY <1>a, ClosedEnds DEF Abandon
  <2>2. "l" \in open /\ (helloWrites # <<>> => "r" \in open)
    BY <1>t, <1>a DEF StageInv
  <2>3. QED
    BY <1>t, <1>a, <2>1, <2>2 DEF Abandon, StageInv
<1>1. CASE RejectRequest \/ RefuseOrDialFails \/ HandshakeFails \/ ForwardFails \/ EndPipe
  <2>1. pc # "ended" /\ \A d \in Directions : cp[d] \in {"none", "exited"}
    BY <1>1, <1>t DEF RejectRequest, RefuseOrDialFails, HandshakeFails, ForwardFails,
                      EndPipe, StageInv
  <2>2. QED
    BY <1>1, <1>a, <1>t, <2>1
       DEF RejectRequest, RefuseOrDialFails, HandshakeFails, ForwardFails, EndPipe
<1>2. CASE ResolveFails
  <2>1. \E st \in [Streams -> Stream] : Abandon(st)
    BY <1>2, <1>t, BadGatewayIs DEF ResolveFails
  <2>2. pc # "ended" /\ \A d \in Directions : cp[d] \in {"none", "exited"}
    BY <1>2, <1>t DEF ResolveFails, StageInv
  <2>3. QED
    BY <1>a, <2>1, <2>2
<1>3. CASE FillBuffer \/ AcceptRequest \/ Write200
  BY <1>3, <1>f, <1>t DEF FillBuffer, AcceptRequest, Write200, StageInv
<1>4. CASE Dial
  BY <1>4, <1>f, <1>t DEF Dial, StageInv
<1>5. CASE ReadHello
  <2>1. pc' \in {"readHello", "forward"}
    BY <1>5 DEF ReadHello
  <2>2. QED
    BY <1>5, <1>f, <1>t, <2>1 DEF ReadHello, StageInv
<1>6. CASE ForwardWrite \/ StartPipe
  BY <1>6, <1>f, <1>t DEF ForwardWrite, StartPipe, StageInv, Directions
<1>7. ASSUME NEW d \in Directions, CopyRead(d) PROVE StageInv'
  <2>1. /\ cp' = [cp EXCEPT ![d] = "write"] /\ cp[d] = "read"
        /\ \A e \in Directions \ {d} : buf'[e] = buf[e]
    BY <1>7, <1>t DEF CopyRead, TypeOK
  <2>2. pc = "pipe"
    BY <1>t, <2>1 DEF StageInv, TypeOK
  <2>3. \A e \in Directions : e = d \/ cp'[e] = cp[e]
    BY <1>t, <2>1 DEF TypeOK
  <2>4. cp'[d] = "write"
    BY <1>t, <2>1 DEF TypeOK
  <2>5. \A e \in Directions : cp'[e] \in {"none", "read"} => buf'[e] = <<>>
    BY <1>t, <2>1, <2>3, <2>4 DEF StageInv
  <2>6. QED
    BY <1>7, <1>f, <1>t, <2>1, <2>2, <2>3, <2>4, <2>5 DEF CopyRead, StageInv
<1>8. ASSUME NEW d \in Directions, CopyWrite(d) PROVE StageInv'
  <2>1. /\ cp[d] = "write" /\ cp'[d] = IF Len(buf[d]) = 1 THEN "read" ELSE "write"
        /\ buf'[d] = Tail(buf[d])
        /\ \A e \in Directions \ {d} : buf'[e] = buf[e] /\ cp'[e] = cp[e]
    BY <1>8, <1>t DEF CopyWrite, TypeOK
  <2>2. pc = "pipe"
    BY <1>t, <2>1 DEF StageInv, TypeOK
  <2>3. Len(buf[d]) = 1 => buf'[d] = <<>>
    <3>1. buf[d] \in Seq(Nat)
      BY <1>t DEF TypeOK
    <3>2. ASSUME NEW s \in Seq(Nat), Len(s) = 1 PROVE Tail(s) = <<>>
      <4>1. s # <<>>
        BY <3>2
      <4>2. Tail(s) \in Seq(Nat) /\ Len(Tail(s)) = 0
        BY <3>2, <4>1
      <4>3. QED
        BY <4>2, EmptySeq
    <3>3. QED
      BY <2>1, <3>1, <3>2
  <2>4. \A e \in Directions : cp'[e] \in {"none", "read"} => buf'[e] = <<>>
    BY <1>t, <2>1, <2>3 DEF StageInv
  <2>5. QED
    BY <1>8, <1>f, <1>t, <2>1, <2>2, <2>4 DEF CopyWrite, StageInv
<1>9. ASSUME NEW d \in Directions, CopyEnds(d) \/ CopyTimesOut(d) PROVE StageInv'
  <2>1. /\ cp[d] \in {"read", "write"} /\ cp'[d] = "shut"
        /\ \A e \in Directions \ {d} : cp'[e] = cp[e]
    BY <1>9, <1>t DEF CopyEnds, CopyTimesOut, TypeOK
  <2>2. pc = "pipe"
    BY <1>t, <2>1 DEF StageInv, TypeOK
  <2>3. \A e \in Directions : cp'[e] \in {"none", "read"} => buf'[e] = <<>>
    BY <1>9, <1>t, <2>1 DEF StageInv, CopyEnds, CopyTimesOut
  <2>4. QED
    BY <1>9, <1>f, <1>t, <2>1, <2>2, <2>3 DEF CopyEnds, CopyTimesOut, StageInv
<1>10. ASSUME NEW d \in Directions, HalfClose(d) PROVE StageInv'
  <2>1. /\ cp[d] = "shut" /\ cp'[d] = "exited"
        /\ \A e \in Directions \ {d} : cp'[e] = cp[e]
    BY <1>10, <1>t DEF HalfClose, TypeOK
  <2>2. pc = "pipe"
    BY <1>t, <2>1 DEF StageInv, TypeOK
  <2>3. \A e \in Directions : cp'[e] \in {"none", "read"} => buf'[e] = <<>>
    BY <1>10, <1>t, <2>1 DEF StageInv, HalfClose
  <2>4. QED
    BY <1>10, <1>f, <1>t, <2>1, <2>2, <2>3 DEF HalfClose, StageInv
<1>11. CASE \E p \in Peers : PeerSend(p) \/ PeerRead(p) \/ PeerFin(p) \/ PeerReset(p)
  BY <1>11, <1>f, <1>t DEF PeerSend, PeerRead, PeerFin, PeerReset, StageInv
<1>12. CASE UNCHANGED vars
  BY <1>12, <1>t DEF vars, StageInv
<1>13. QED
  BY <1>1, <1>2, <1>3, <1>4, <1>5, <1>6, <1>7, <1>8, <1>9, <1>10, <1>11, <1>12
     DEF Next, handle, copyWithTimeout, Finished

-----------------------------------------------------------------------------
(* What a step does to what was delivered to a peer. *)
LEMMA DeliveredSame ==
  ASSUME NEW p \in Peers, got'[p] = got[p], str'[In(p)].q = str[In(p)].q
  PROVE  Delivered(p)' = Delivered(p)
  BY DEF Delivered

LEMMA DeliveredMore ==
  ASSUME TypeOK, NEW p \in Peers, NEW u \in Seq(Int), got'[p] = got[p],
         str'[In(p)].q = str[In(p)].q \o u
  PROVE  Delivered(p)' = Delivered(p) \o u
<1>1. got[p] \in Seq(Int) /\ str[In(p)].q \in Seq(Int)
  BY TypeFacts DEF In, Peers, Streams
<1>2. ASSUME NEW g \in Seq(Int), NEW q \in Seq(Int)
      PROVE  (g \o q) \o u = g \o (q \o u)
  BY ConcatAssociative, SMTT(30)
<1>3. QED
  BY <1>1, <1>2 DEF Delivered

LEMMA DeliveredRead ==
  ASSUME TypeOK, NEW p \in Peers, PeerRead(p), NEW r \in Peers
  PROVE  Delivered(r)' = Delivered(r)
<1>1. /\ got[p] \in Seq(Int) /\ str[In(p)].q \in Seq(Int) /\ str[In(p)].q # <<>>
      /\ In(p) \in Streams /\ In(r) \in Streams /\ (r # p => In(r) # In(p))
  BY TypeFacts DEF In, Peers, Streams, PeerRead
<1>2. /\ Tail(str[In(p)].q) \in Seq(Int)
      /\ str' = [str EXCEPT ![In(p)].q = Tail(str[In(p)].q)]
      /\ str \in [Streams -> Stream]
  BY <1>1, TypeFacts DEF PeerRead
<1>3. /\ str'[In(p)].q = Tail(str[In(p)].q)
      /\ \A s \in Streams \ {In(p)} : str'[s].q = str[s].q
  BY <1>1, <1>2, QueueChange DEF Queued
<1>4. /\ got'[p] = Append(got[p], Head(str[In(p)].q))
      /\ r # p => got'[r] = got[r]
  BY TypeFacts DEF PeerRead
<1>5. CASE r = p
  <2>1. ASSUME NEW g \in Seq(Int), NEW q \in Seq(Int), q # <<>>
        PROVE  Append(g, Head(q)) \o Tail(q) = g \o q
    <3>1. /\ Head(q) \in Int /\ Tail(q) \in Seq(Int) /\ Append(g, Head(q)) \in Seq(Int)
          /\ Len(Append(g, Head(q))) = Len(g) + 1 /\ Len(Tail(q)) = Len(q) - 1
          /\ Len(g) \in Nat /\ Len(q) \in Nat /\ Len(q) >= 1
      BY <2>1
    <3> DEFINE a == Append(g, Head(q)) \o Tail(q)
               b == g \o q
    <3>2. a \in Seq(Int) /\ Len(a) = Len(g) + Len(q)
      BY <3>1
    <3>3. b \in Seq(Int) /\ Len(b) = Len(g) + Len(q)
      OBVIOUS
    <3>4. ASSUME NEW i \in 1..(Len(g) + Len(q)) PROVE a[i] = b[i]
      <4>1. CASE i <= Len(g)
        BY <3>1, <4>1
      <4>2. CASE i = Len(g) + 1
        BY <3>1, <4>2
      <4>3. CASE i > Len(g) + 1
        <5>1. a[i] = Tail(q)[i - (Len(g) + 1)]
          BY <3>1, <4>3
        <5>2. b[i] = q[i - Len(g)]
          BY <3>1, <4>3
        <5>3. Tail(q)[i - (Len(g) + 1)] = q[i - Len(g)]
          BY <3>1, <4>3
        <5>4. QED
          BY <5>1, <5>2, <5>3
      <4>4. QED
        BY <3>1, <4>1, <4>2, <4>3
    <3> HIDE DEF a, b
    <3>5. a = b
      BY <3>2, <3>3, <3>4, SeqEqual
    <3>6. QED
      BY <3>5 DEF a, b
  <2>2. QED
    BY <1>1, <1>3, <1>4, <1>5, <2>1 DEF Delivered
<1>6. CASE r # p
  BY <1>1, <1>3, <1>4, <1>6 DEF Delivered
<1>7. QED
  BY <1>5, <1>6

(* A run is empty when its ends meet, and only then. *)
LEMMA RunNone ==
  ASSUME NEW a \in Int, NEW b \in Int, a <= b
  PROVE  Run(a, b) = <<>> <=> a = b
<1>1. Run(a, b) = <<>> => a = b
  <2>1. Len(Run(a, b)) = b - a
    BY RunIsSeq
  <2>2. Len(<<>>) = 0
    OBVIOUS
  <2>3. QED
    BY <2>1, <2>2
<1>2. QED
  BY <1>1, RunEmpty

-----------------------------------------------------------------------------
(* A step that leaves the way from the client to the server alone. *)
UpSame ==
  /\ conf' = conf /\ pend' = pend /\ br' = br /\ buf'["up"] = buf["up"]
  /\ Delivered("server")' = Delivered("server")
  /\ str'["c2p"].q = str["c2p"].q /\ sent'["client"] = sent["client"]

LEMMA UpFrame ==
  ASSUME UpSame
  PROVE  /\ Waiting(0) => Waiting(0)'
         /\ Waiting(1) => Waiting(1)'
         /\ Reading => Reading'
         /\ Flowing => Flowing'
         /\ Landed => Landed'
  BY DEF UpSame, Waiting, Reading, Flowing, Landed, Base

LEMMA UpUndisturbed ==
  ASSUME UpInv, UpSame, pc' = pc, cp'["up"] # "none" => cp["up"] # "none"
  PROVE  UpInv'
<1>1. pend' = pend /\ conf' = conf
  BY DEF UpSame
<1>2. QED
  BY <1>1, UpFrame DEF UpInv

(* The way from the client to the server: no unit is lost, repeated or
   overtaken, whatever the pieces it is read and written in. *)
LEMMA Ups == Inv /\ [Next]_vars => UpInv'
<1> SUFFICES ASSUME Inv, [Next]_vars PROVE UpInv'
  OBVIOUS
<1> USE DEF handleVars, copyVars, peerVars, histVars
<1>t. /\ TypeOK /\ UpInv /\ StageInv /\ str \in [Streams -> Stream]
      /\ "up" \in Directions /\ "down" \in Directions
      /\ "client" \in Peers /\ "server" \in Peers
      /\ "c2p" \in Streams /\ "p2c" \in Streams /\ "s2p" \in Streams /\ "p2s" \in Streams
      /\ In("client") = "p2c" /\ In("server") = "p2s"
      /\ Out("client") = "c2p" /\ Out("server") = "s2p"
      /\ From("up") = "c2p" /\ From("down") = "s2p"
      /\ To("up") = "p2s" /\ To("down") = "p2c"
  BY TypeFacts DEF Inv, Typed, Directions, Peers, Streams, In, Out, From, To,
                   Source, Target
<1>n. /\ sent["client"] \in Nat /\ sent["client"] \in Int
      /\ conf.helloLen \in Nat /\ conf.helloLen >= 1
      /\ conf.mode \in {"http", "connect"}
      /\ br \in Seq(Nat) /\ pend \in Seq(Seq(Nat)) /\ buf["up"] \in Seq(Nat)
  BY <1>t, ConfFacts DEF Inv, Typed, TypeOK
<1>i. \A n \in Nat : n \in Int
  OBVIOUS
<1>a. ASSUME NEW st \in [Streams -> Stream], Abandon(st), st["p2s"].q = str["p2s"].q,
             st["c2p"].q = str["c2p"].q, pc # "ended"
      PROVE  UpInv'
  <2>1. str'["p2s"].q = str["p2s"].q /\ str'["c2p"].q = str["c2p"].q
    BY <1>t, <1>a, ClosedEnds DEF Abandon
  <2>2. Delivered("server")' = Delivered("server")
    BY <1>t, <1>a, <2>1, DeliveredSame DEF Abandon
  <2>3. UpSame
    BY <1>a, <2>1, <2>2 DEF UpSame, Abandon
  <2>4. Landed
    <3>1. CASE pc \in {"readRequest", "resolve", "write200", "readHello"}
      BY <1>t, <3>1 DEF UpInv, Waiting, Reading, Landed
    <3>2. CASE pc \in {"forward", "pipe"}
      <4>1. Flowing
        BY <1>t, <3>2 DEF UpInv, StageInv
      <4>2. PICK w \in Nat : \E x, y, z \in Nat :
              /\ Base <= w /\ w <= x /\ x <= y /\ y <= z /\ z <= sent["client"]
              /\ Delivered("server") = Run(Base, w)
        BY <4>1 DEF Flowing
      <4>3. Base <= w /\ w <= sent["client"] /\ Delivered("server") = Run(Base, w)
        BY <1>n, <4>2
      <4>4. QED
        BY <4>3 DEF Landed
    <3>3. QED
      BY <1>t, <1>a, <3>1, <3>2 DEF TypeOK
  <2>5. Landed' /\ (cp["up"] # "none" => Flowing' /\ pend = <<>>)
    BY <1>t, <2>3, <2>4, UpFrame DEF UpInv
  <2>6. QED
    BY <1>a, <2>5 DEF UpInv, Abandon
<1>1. CASE RejectRequest \/ RefuseOrDialFails \/ HandshakeFails \/ ForwardFails \/ EndPipe
  <2>1. Abandon(str) /\ pc # "ended"
    BY <1>1 DEF RejectRequest, RefuseOrDialFails, HandshakeFails, ForwardFails, EndPipe
  <2>2. QED
    BY <1>a, <1>t, <2>1
<1>2. CASE ResolveFails
  <2>1. pc # "ended" /\ (Abandon(str) \/ Abandon(Put("p2c", <<BadGateway>>)))
    BY <1>2 DEF ResolveFails
  <2>2. QED
    BY <1>a, <1>t, <2>1, BadGatewayIs
<1>3. CASE FillBuffer
  <2>1. PICK n \in 1..Len(str["c2p"].q) : br' = First("c2p", n) /\ str' = Rest("c2p", n)
    BY <1>3 DEF FillBuffer
  <2>2. /\ str'["c2p"].q = SubSeq(str["c2p"].q, n + 1, Len(str["c2p"].q))
        /\ str'["p2s"].q = str["p2s"].q
    BY <1>t, <2>1, RestQueues DEF Queued
  <2>3. Delivered("server")' = Delivered("server")
    BY <1>3, <1>t, <2>2, DeliveredSame DEF FillBuffer
  <2>4. ASSUME NEW z \in Nat, z <= sent["client"], str["c2p"].q = Run(z, sent["client"])
        PROVE  /\ z + n \in Nat /\ z <= z + n /\ z + n <= sent["client"]
               /\ br' = Run(z, z + n) /\ str'["c2p"].q = Run(z + n, sent["client"])
    <3>1. n \in 1..Len(Run(z, sent["client"]))
      BY <2>4
    <3>2. /\ z + n \in Nat /\ z < z + n /\ z + n <= sent["client"]
          /\ SubSeq(Run(z, sent["client"]), 1, n) = Run(z, z + n)
          /\ SubSeq(Run(z, sent["client"]), n + 1, Len(Run(z, sent["client"])))
             = Run(z + n, sent["client"])
      BY <1>n, <2>4, <3>1, ReadRun
    <3>3. z <= z + n
      BY <3>2
    <3>4. QED
      BY <2>1, <2>2, <2>4, <3>2, <3>3 DEF First
  <2>5. CASE pc = "readRequest"
    <3>1. PICK z \in Nat : /\ 0 <= z /\ z <= sent["client"] /\ br = Run(0, z)
                           /\ str["c2p"].q = Run(z, sent["client"])
      BY <1>t, <2>5 DEF UpInv, Waiting
    <3>2. z = 0
      BY <1>3, <3>1, RunNone DEF FillBuffer
    <3>3. Waiting(0)'
      <4>1. /\ 0 + n \in Nat /\ 0 <= 0 + n /\ 0 + n <= sent["client"]
            /\ br' = Run(0, 0 + n) /\ str'["c2p"].q = Run(0 + n, sent["client"])
        BY <2>4, <3>1, <3>2
      <4>2. Delivered("server")' = <<>> /\ pend' = <<>> /\ sent' = sent
        BY <1>3, <1>t, <2>3, <2>5 DEF UpInv, Waiting, FillBuffer
      <4>3. QED
        BY <4>1, <4>2 DEF Waiting
    <3>4. QED
      BY <1>3, <1>t, <2>5, <3>3 DEF FillBuffer, UpInv, StageInv
  <2>6. CASE pc = "readHello"
    <3>1. PICK y \in Nat, z \in Nat :
             /\ 1 <= y /\ y <= z /\ z <= sent["client"] /\ y - 1 < conf.helloLen
             /\ pend = IF y = 1 THEN <<>> ELSE << Run(1, y) >>
             /\ br = Run(y, z)
             /\ str["c2p"].q = Run(z, sent["client"])
      BY <1>t, <2>6 DEF UpInv, Reading
    <3>2. z = y
      BY <1>3, <3>1, RunNone DEF FillBuffer
    <3>3. Reading'
      <4>1. /\ y + n \in Nat /\ y <= y + n /\ y + n <= sent["client"]
            /\ br' = Run(y, y + n) /\ str'["c2p"].q = Run(y + n, sent["client"])
        BY <2>4, <3>1, <3>2
      <4>2. /\ Delivered("server")' = <<>> /\ pend' = pend /\ sent' = sent
            /\ conf' = conf /\ conf.mode = "connect"
        BY <1>3, <1>t, <2>3, <2>6 DEF UpInv, Reading, FillBuffer
      <4>3. QED
        BY <3>1, <4>1, <4>2 DEF Reading
    <3>4. QED
      BY <1>3, <1>t, <2>6, <3>3 DEF FillBuffer, UpInv, StageInv
  <2>7. QED
    BY <1>3, <2>5, <2>6 DEF FillBuffer
<1>4. CASE AcceptRequest
  <2>1. PICK z \in Nat : /\ 0 <= z /\ z <= sent["client"] /\ br = Run(0, z)
                         /\ str["c2p"].q = Run(z, sent["client"])
    BY <1>4, <1>t DEF UpInv, Waiting, AcceptRequest
  <2>2. 0 < z /\ 1 <= z
    BY <1>4, <2>1, RunNone DEF AcceptRequest
  <2>3. br' = Run(1, z)
    <3>1. Tail(Run(0, z)) = Run(0 + 1, z)
      BY <1>i, <2>2, RunHead
    <3>2. QED
      BY <1>4, <2>1, <3>1 DEF AcceptRequest
  <2>4. Delivered("server")' = <<>> /\ pend' = <<>> /\ sent' = sent /\ str' = str
    BY <1>4, <1>t DEF UpInv, Waiting, AcceptRequest, Delivered
  <2>5. Waiting(1)'
    BY <2>1, <2>2, <2>3, <2>4 DEF Waiting
  <2>6. QED
    BY <1>4, <1>t, <2>5 DEF AcceptRequest, UpInv, StageInv
<1>5. CASE Dial
  <2>1. Waiting(1) /\ pend = <<>> /\ buf["up"] = <<>> /\ cp'["up"] = "none"
    BY <1>5, <1>t DEF UpInv, Waiting, Dial, StageInv
  <2>2. Delivered("server")' = Delivered("server") /\ Delivered("server") = <<>>
    BY <1>5, <2>1 DEF Dial, Delivered, Waiting
  <2>3. CASE conf.mode = "http"
    <3>1. PICK z \in Nat : /\ 1 <= z /\ z <= sent["client"] /\ br = Run(1, z)
                           /\ str["c2p"].q = Run(z, sent["client"])
      BY <2>1 DEF Waiting
    <3>2. <<1>> = Run(0, 1) /\ <<>> = Run(0, 0) /\ <<>> = Run(1, 1)
      <4>1. <<0 + 1>> = Run(0, 0 + 1)
        BY RunOne
      <4>2. QED
        BY <4>1, RunEmpty
    <3>3. pend' = << Run(0, 1) >> /\ Chunked(<< Run(0, 1) >>, 0, 1)
      BY <1>5, <2>3, <3>2, OneChunk DEF Dial
    <3>4. Base' = 0 /\ br' = br /\ str' = str /\ sent' = sent /\ buf' = buf
      BY <1>5, <2>3 DEF Base, Dial
    <3>5. Flowing'
      <4>1. /\ Base' <= 0 /\ 0 <= 1 /\ 1 <= 1 /\ 1 <= z /\ z <= sent'["client"]
            /\ Delivered("server")' = Run(Base', 0)
            /\ Chunked(pend', 0, 1)
            /\ buf'["up"] = Run(1, 1) /\ br' = Run(1, z)
            /\ str'["c2p"].q = Run(z, sent'["client"])
        BY <2>1, <2>2, <3>1, <3>2, <3>3, <3>4
      <4>2. 0 \in Nat /\ 1 \in Nat
        OBVIOUS
      <4>3. QED
        BY <4>1, <4>2 DEF Flowing
    <3>6. QED
      BY <1>5, <2>1, <2>3, <3>5 DEF Dial, UpInv
  <2>4. CASE conf.mode = "connect"
    <3>1. UpSame
      BY <1>5, <2>2, <2>4 DEF UpSame, Dial
    <3>2. Waiting(1)' /\ conf'.mode = "connect"
      BY <1>5, <2>1, <2>4, <3>1, UpFrame DEF Dial
    <3>3. QED
      BY <1>5, <2>1, <2>4, <3>2 DEF Dial, UpInv
  <2>5. QED
    BY <1>n, <2>3, <2>4
<1>6. CASE Write200
  <2>1. <<Ok200>> \in Seq(Int)
    BY DEF Ok200
  <2>2. str'["c2p"].q = str["c2p"].q /\ str'["p2s"].q = str["p2s"].q
    BY <1>6, <1>t, <2>1, PutQueues DEF Write200, Queued
  <2>3. Delivered("server")' = Delivered("server")
    BY <1>6, <1>t, <2>2, DeliveredSame DEF Write200
  <2>4. Waiting(1) /\ conf.mode = "connect" /\ cp'["up"] = "none"
    BY <1>6, <1>t DEF Write200, UpInv, StageInv
  <2>5. PICK z \in Nat : /\ 1 <= z /\ z <= sent["client"] /\ br = Run(1, z)
                         /\ str["c2p"].q = Run(z, sent["client"])
    BY <2>4 DEF Waiting
  <2>6. Reading'
    <3>1. /\ 1 \in Nat /\ 1 <= 1 /\ 1 <= z /\ z <= sent'["client"]
          /\ 1 - 1 < conf'.helloLen /\ pend' = <<>> /\ br' = Run(1, z)
          /\ str'["c2p"].q = Run(z, sent'["client"])
          /\ conf'.mode = "connect" /\ Delivered("server")' = <<>>
      BY <1>6, <1>n, <2>2, <2>3, <2>4, <2>5 DEF Write200, Waiting
    <3>2. QED
      BY <3>1 DEF Reading
  <2>7. QED
    BY <1>6, <2>4, <2>6 DEF Write200, UpInv
<1>7. CASE ReadHello
  <2>1. PICK y \in Nat, k \in Nat, z \in Nat : HelloAt(y, k, z)
    BY <1>7, HelloRead
  <2>2. conf.mode = "connect" /\ Delivered("server") = <<>>
    BY <1>7, HelloRead
  <2>3. Delivered("server")' = <<>> /\ sent' = sent /\ str' = str /\ conf' = conf
        /\ buf' = buf /\ cp' = cp /\ cp["up"] = "none" /\ buf["up"] = <<>>
    BY <1>7, <1>t, <2>2 DEF ReadHello, Delivered, StageInv
  <2>4. CASE pc' = "readHello"
    <3>1. k - 1 < conf.helloLen /\ pend' = << Run(1, k) >> /\ k # 1
      BY <2>1, <2>4 DEF HelloAt
    <3>2. Reading'
      <4>1. 1 <= k /\ k <= z /\ z <= sent["client"] /\ br' = Run(k, z)
            /\ str["c2p"].q = Run(z, sent["client"])
        BY <2>1 DEF HelloAt
      <4>2. QED
        BY <2>2, <2>3, <3>1, <4>1 DEF Reading
    <3>3. QED
      BY <2>3, <2>4, <3>2 DEF UpInv
  <2>5. CASE pc' = "forward"
    <3>1. 1 <= k /\ 1 < k /\ k <= z /\ z <= sent["client"] /\ br' = Run(k, z)
          /\ str["c2p"].q = Run(z, sent["client"])
      BY <2>1 DEF HelloAt
    <3>2. Chunked(pend', 1, k)
      <4>1. conf.window \in Int /\ 1 \in Nat
        BY <1>t, ConfFacts DEF TypeOK
      <4>2. Chunked(splitInChunks(Run(1, k), conf.window), 1, k)
        BY <3>1, <4>1, SplitIsChunked
      <4>3. Chunked(<< Run(1, k) >>, 1, k)
        BY <3>1, <4>1, OneChunk
      <4>4. QED
        BY <2>1, <2>5, <4>2, <4>3 DEF HelloAt
    <3>3. Base' = 1 /\ <<>> = Run(1, 1) /\ <<>> = Run(k, k)
      BY <1>i, <2>2, <2>3, RunEmpty DEF Base
    <3>4. Flowing'
      <4>1. /\ Base' <= 1 /\ 1 <= k /\ k <= k /\ k <= z /\ z <= sent'["client"]
            /\ Delivered("server")' = Run(Base', 1)
            /\ Chunked(pend', 1, k)
            /\ buf'["up"] = Run(k, k) /\ br' = Run(k, z)
            /\ str'["c2p"].q = Run(z, sent'["client"]) /\ 1 \in Nat
        BY <2>3, <3>1, <3>2, <3>3
      <4>2. QED
        BY <4>1 DEF Flowing
    <3>5. QED
      BY <2>3, <2>5, <3>4 DEF UpInv
  <2>6. QED
    BY <2>1, <2>4, <2>5 DEF HelloAt
<1>8. CASE ForwardWrite
  <2>1. PICK w \in Nat, x \in Nat, y \in Nat, z \in Nat :
           /\ Base <= w /\ w <= x /\ x <= y /\ y <= z /\ z <= sent["client"]
           /\ Delivered("server") = Run(Base, w)
           /\ Chunked(pend, w, x)
           /\ buf["up"] = Run(x, y)
           /\ br = Run(y, z)
           /\ str["c2p"].q = Run(z, sent["client"])
    BY <1>8, <1>t DEF ForwardWrite, UpInv, Flowing
  <2>2. PICK c \in Nat : /\ w <= c /\ c <= x /\ Head(pend) = Run(w, c)
                         /\ Chunked(Tail(pend), c, x)
    BY <1>8, <1>n, <2>1, FirstChunk DEF ForwardWrite
  <2>3. Run(w, c) \in Seq(Int)
    BY <1>i, <2>2, RunIsSeq
  <2>4. /\ str'["p2s"].q = str["p2s"].q \o Run(w, c)
        /\ str'["c2p"].q = str["c2p"].q
    BY <1>8, <1>t, <2>2, <2>3, PutQueues DEF ForwardWrite, Queued
  <2>5. Base \in Int /\ Base <= w /\ Base <= c /\ Base' = Base
    BY <1>8, <2>1, <2>2 DEF Base, ForwardWrite
  <2>6. Delivered("server")' = Run(Base, c)
    <3>1. Delivered("server")' = Delivered("server") \o Run(w, c)
      BY <1>8, <1>t, <2>3, <2>4, DeliveredMore DEF ForwardWrite
    <3>2. Run(Base, w) \o Run(w, c) = Run(Base, c)
      BY <1>i, <2>2, <2>5, RunJoin
    <3>3. QED
      BY <2>1, <3>1, <3>2
  <2>7. pend' = Tail(pend) /\ br' = br /\ buf' = buf /\ sent' = sent
        /\ pc' = "forward" /\ cp' = cp /\ cp["up"] = "none"
    BY <1>8, <1>t DEF ForwardWrite, StageInv
  <2>8. Flowing'
    BY <2>1, <2>2, <2>4, <2>5, <2>6, <2>7 DEF Flowing
  <2>9. QED
    BY <2>7, <2>8 DEF UpInv
<1>9. CASE StartPipe
  <2>1. UpSame
    BY <1>9 DEF StartPipe, UpSame, Delivered
  <2>2. Flowing' /\ pend' = <<>>
    BY <1>9, <1>t, <2>1, UpFrame DEF StartPipe, UpInv
  <2>3. QED
    BY <1>9, <2>2 DEF StartPipe, UpInv
<1>10. CASE CopyRead("up")
  <2>1. /\ cp["up"] = "read" /\ pc = "pipe" /\ buf["up"] = <<>> /\ pend = <<>>
        /\ pc' = pc /\ pend' = pend /\ sent' = sent /\ conf' = conf /\ got' = got
    BY <1>10, <1>t DEF CopyRead, StageInv, UpInv, TypeOK
  <2>2. PICK w \in Nat, x \in Nat, y \in Nat, z \in Nat :
           /\ Base <= w /\ w <= x /\ x <= y /\ y <= z /\ z <= sent["client"]
           /\ Delivered("server") = Run(Base, w)
           /\ Chunked(pend, w, x)
           /\ buf["up"] = Run(x, y)
           /\ br = Run(y, z)
           /\ str["c2p"].q = Run(z, sent["client"])
    BY <1>t, <2>1 DEF UpInv, Flowing
  <2>3. x = y /\ Base' = Base
    BY <1>i, <2>1, <2>2, RunNone DEF Base
  <2>4. CASE br # <<>>
    <3>1. buf'["up"] = br /\ br' = <<>> /\ str' = str
      BY <1>10, <1>t, <2>4 DEF CopyRead, Buffered, TypeOK
    <3>2. Delivered("server")' = Run(Base, w) /\ br' = Run(z, z)
      BY <1>i, <2>1, <2>2, <3>1, RunEmpty DEF Delivered
    <3>3. Flowing'
      <4>1. /\ Base' <= w /\ w <= x /\ x <= z /\ z <= z /\ z <= sent'["client"]
            /\ Delivered("server")' = Run(Base', w)
            /\ Chunked(pend', w, x)
            /\ buf'["up"] = Run(x, z) /\ br' = Run(z, z)
            /\ str'["c2p"].q = Run(z, sent'["client"])
        BY <2>1, <2>2, <2>3, <3>1, <3>2
      <4>2. QED
        BY <4>1 DEF Flowing
    <3>4. QED
      BY <2>1, <3>3 DEF UpInv
  <2>5. CASE br = <<>>
    <3>1. PICK n \in 1..Len(str["c2p"].q) :
             /\ buf' = [buf EXCEPT !["up"] = First("c2p", n)]
             /\ str' = Rest("c2p", n) /\ br' = br
      BY <1>10, <1>t, <2>5 DEF CopyRead, Buffered
    <3>2. buf'["up"] = First("c2p", n)
      BY <1>t, <3>1 DEF TypeOK
    <3>3. /\ str'["c2p"].q = SubSeq(str["c2p"].q, n + 1, Len(str["c2p"].q))
          /\ str'["p2s"].q = str["p2s"].q
      BY <1>t, <3>1, RestQueues DEF Queued
    <3>4. Delivered("server")' = Delivered("server")
      BY <1>t, <2>1, <3>3, DeliveredSame
    <3>5. y = z
      BY <1>i, <2>2, <2>5, RunNone
    <3>6. n \in 1..Len(Run(z, sent["client"]))
      BY <2>2
    <3>7. /\ z + n \in Nat /\ z < z + n /\ z + n <= sent["client"]
          /\ SubSeq(Run(z, sent["client"]), 1, n) = Run(z, z + n)
          /\ SubSeq(Run(z, sent["client"]), n + 1, Len(Run(z, sent["client"])))
             = Run(z + n, sent["client"])
      BY <1>n, <2>2, <3>6, ReadRun
    <3> DEFINE m == z + n
    <3>8. /\ m \in Nat /\ z <= m /\ m <= sent["client"]
          /\ buf'["up"] = Run(z, m)
          /\ str'["c2p"].q = Run(m, sent["client"])
      BY <2>2, <3>2, <3>3, <3>7 DEF First
    <3> HIDE DEF m
    <3>9. br' = Run(m, m)
      BY <1>i, <2>5, <3>1, <3>8, RunEmpty
    <3>10. Flowing'
      <4>1. /\ Base' <= w /\ w <= x /\ x <= m /\ m <= m /\ m <= sent'["client"]
            /\ Delivered("server")' = Run(Base', w)
            /\ Chunked(pend', w, x)
            /\ buf'["up"] = Run(x, m) /\ br' = Run(m, m)
            /\ str'["c2p"].q = Run(m, sent'["client"])
        BY <2>1, <2>2, <2>3, <3>4, <3>5, <3>8, <3>9
      <4>2. QED
        BY <3>8, <4>1 DEF Flowing
    <3>11. QED
      BY <2>1, <3>10 DEF UpInv
  <2>6. QED
    BY <2>4, <2>5
<1>11. CASE CopyWrite("up")
  <2>1. /\ cp["up"] = "write" /\ pc = "pipe" /\ pend = <<>> /\ buf["up"] # <<>>
        /\ pc' = pc /\ pend' = pend /\ sent' = sent /\ conf' = conf /\ got' = got
        /\ br' = br /\ str' = Put("p2s", <<Head(buf["up"])>>)
        /\ buf'["up"] = Tail(buf["up"])
    BY <1>11, <1>t DEF CopyWrite, StageInv, UpInv, TypeOK
  <2>2. PICK w \in Nat, x \in Nat, y \in Nat, z \in Nat :
           /\ Base <= w /\ w <= x /\ x <= y /\ y <= z /\ z <= sent["client"]
           /\ Delivered("server") = Run(Base, w)
           /\ Chunked(pend, w, x)
           /\ buf["up"] = Run(x, y)
           /\ br = Run(y, z)
           /\ str["c2p"].q = Run(z, sent["client"])
    BY <1>t, <2>1 DEF UpInv, Flowing
  <2>3. w = x /\ Base' = Base /\ Base \in Int
    BY <2>1, <2>2, NoChunk DEF Base
  <2>4. w < y
    BY <1>i, <2>1, <2>2, <2>3, RunNone
  <2>5. /\ w + 1 \in Nat /\ Base <= w + 1 /\ w + 1 <= y
        /\ Head(Run(w, y)) = w + 1 /\ Tail(Run(w, y)) = Run(w + 1, y)
        /\ <<w + 1>> = Run(w, w + 1)
    <3>1. w \in Int /\ y \in Int
      OBVIOUS
    <3>2. w + 1 \in Nat /\ Base <= w + 1 /\ w + 1 <= y
      BY <2>2, <2>3, <2>4
    <3>3. Head(Run(w, y)) = w + 1 /\ Tail(Run(w, y)) = Run(w + 1, y)
      BY <2>4, <3>1, RunHead
    <3>4. <<w + 1>> = Run(w, w + 1)
      BY <3>1, RunOne
    <3>5. QED
      BY <3>2, <3>3, <3>4
  <2> DEFINE k == w + 1
  <2>6. /\ k \in Nat /\ w <= k /\ Base <= k /\ k <= y
        /\ buf'["up"] = Run(k, y) /\ str' = Put("p2s", Run(w, k))
    BY <2>1, <2>2, <2>3, <2>5
  <2> HIDE DEF k
  <2>7. Run(w, k) \in Seq(Int)
    BY <1>i, <2>6, RunIsSeq
  <2>8. /\ str'["p2s"].q = str["p2s"].q \o Run(w, k)
        /\ str'["c2p"].q = str["c2p"].q
    BY <1>t, <2>6, <2>7, PutQueues DEF Queued
  <2>9. Delivered("server")' = Run(Base, k)
    <3>1. Delivered("server")' = Delivered("server") \o Run(w, k)
      BY <1>t, <2>1, <2>7, <2>8, DeliveredMore
    <3>2. Run(Base, w) \o Run(w, k) = Run(Base, k)
      BY <1>i, <2>2, <2>3, <2>6, RunJoin
    <3>3. QED
      BY <2>2, <3>1, <3>2
  <2>10. Chunked(pend', k, k)
    BY <2>1, <2>6, NoChunk
  <2>11. Flowing'
    <3>1. /\ Base' <= k /\ k <= k /\ k <= y /\ y <= z /\ z <= sent'["client"]
          /\ Delivered("server")' = Run(Base', k)
          /\ Chunked(pend', k, k)
          /\ buf'["up"] = Run(k, y) /\ br' = Run(y, z)
          /\ str'["c2p"].q = Run(z, sent'["client"])
      BY <2>1, <2>2, <2>3, <2>6, <2>8, <2>9, <2>10
    <3>2. QED
      BY <2>6, <3>1 DEF Flowing
  <2>12. QED
    BY <2>1, <2>11 DEF UpInv
<1>12. CASE CopyRead("down")
  <2>1. CASE str' = str
    BY <1>12, <1>t, <2>1, UpUndisturbed DEF CopyRead, Buffered, UpSame, Delivered, TypeOK
  <2>2. CASE str' # str
    <3>1. PICK n \in 1..Len(str["s2p"].q) : str' = Rest("s2p", n)
      BY <1>12, <1>t, <2>2 DEF CopyRead
    <3>2. str'["c2p"].q = str["c2p"].q /\ str'["p2s"].q = str["p2s"].q
      BY <1>t, <3>1, RestQueues DEF Queued
    <3>3. /\ Delivered("server")' = Delivered("server") /\ buf'["up"] = buf["up"]
          /\ cp'["up"] = cp["up"] /\ br' = br
      BY <1>12, <1>t, <3>2, DeliveredSame DEF CopyRead, TypeOK, Buffered
    <3>4. QED
      BY <1>12, <1>t, <3>2, <3>3, UpUndisturbed DEF CopyRead, UpSame
  <2>3. QED
    BY <2>1, <2>2
<1>13. CASE CopyWrite("down")
  <2>1. <<Head(buf["down"])>> \in Seq(Int)
    <3>1. Head(buf["down"]) \in Nat
      BY <1>13, <1>t, SMTT(30) DEF CopyWrite, TypeOK
    <3>2. QED
      BY <3>1
  <2>2. str'["c2p"].q = str["c2p"].q /\ str'["p2s"].q = str["p2s"].q
    BY <1>13, <1>t, <2>1, PutQueues DEF CopyWrite, Queued
  <2>3. /\ Delivered("server")' = Delivered("server") /\ buf'["up"] = buf["up"]
        /\ cp'["up"] = cp["up"]
    BY <1>13, <1>t, <2>2, DeliveredSame DEF CopyWrite, TypeOK
  <2>4. QED
    BY <1>13, <1>t, <2>2, <2>3, UpUndisturbed DEF CopyWrite, UpSame
<1>14. ASSUME NEW d \in Directions, CopyEnds(d) \/ CopyTimesOut(d) \/ HalfClose(d)
       PROVE  UpInv'
  <2>1. /\ \A s \in Streams : str'[s].q = str[s].q
        /\ got' = got /\ sent' = sent /\ conf' = conf /\ pend' = pend /\ br' = br
        /\ buf' = buf /\ pc' = pc
    <3>1. d = "up" \/ d = "down"
      BY DEF Directions
    <3>2. QED
      BY <1>14, <1>t, <3>1, FinEnds DEF CopyEnds, CopyTimesOut, HalfClose
  <2>2. cp'["up"] # "none" => cp["up"] # "none"
    BY <1>14, <1>t DEF CopyEnds, CopyTimesOut, HalfClose, TypeOK
  <2>3. UpSame
    BY <1>t, <2>1, DeliveredSame DEF UpSame
  <2>4. QED
    BY <1>t, <2>1, <2>2, <2>3, UpUndisturbed
<1>15. CASE PeerSend("client")
  <2> DEFINE n == sent["client"]
  <2>1. /\ sent'["client"] = n + 1 /\ str' = Put("c2p", <<n + 1>>)
        /\ n + 1 \in Nat /\ <<n + 1>> \in Seq(Int) /\ <<n + 1>> = Run(n, n + 1)
    <3>1. sent'["client"] = n + 1 /\ str' = Put("c2p", <<n + 1>>)
      BY <1>15, <1>t DEF PeerSend, Inv, Typed
    <3>2. n \in Int /\ n + 1 \in Nat
      BY <1>n
    <3> HIDE DEF n
    <3>3. <<n + 1>> = Run(n, n + 1)
      BY <3>2, RunOne
    <3>4. <<n + 1>> \in Seq(Int)
      BY <3>2
    <3>5. QED
      BY <3>1, <3>2, <3>3, <3>4
  <2>2. /\ str'["c2p"].q = str["c2p"].q \o Run(n, n + 1)
        /\ str'["p2s"].q = str["p2s"].q
    BY <1>t, <2>1, PutQueues DEF Queued
  <2>3. /\ Delivered("server")' = Delivered("server")
        /\ pend' = pend /\ br' = br /\ buf' = buf /\ conf' = conf /\ pc' = pc /\ cp' = cp
        /\ Base' = Base /\ pc # "ended"
    BY <1>15, <1>t, <2>2, DeliveredSame DEF PeerSend, Base, StageInv, Conn
  <2>4. ASSUME NEW z \in Nat, z <= n, str["c2p"].q = Run(z, n)
        PROVE  z <= sent'["client"] /\ str'["c2p"].q = Run(z, sent'["client"])
    <3>1. Run(z, n) \o Run(n, n + 1) = Run(z, n + 1)
      <4>1. z \in Int /\ n \in Int /\ n + 1 \in Int /\ n <= n + 1
        BY <1>n
      <4>2. QED
        BY <2>4, <4>1, RunJoin
    <3>2. z <= n + 1
      BY <1>n, <2>4
    <3>3. QED
      BY <2>1, <2>2, <2>4, <3>1, <3>2
  <2> HIDE DEF n
  <2>5. Waiting(0) => Waiting(0)'
    BY <2>3, <2>4 DEF Waiting, n
  <2>6. Waiting(1) => Waiting(1)'
    BY <2>3, <2>4 DEF Waiting, n
  <2>7. Reading => Reading'
    BY <2>3, <2>4 DEF Reading, n
  <2>8. Flowing => Flowing'
    <3> SUFFICES ASSUME Flowing PROVE Flowing'
      OBVIOUS
    <3>1. PICK w \in Nat, x \in Nat, y \in Nat, z \in Nat :
             /\ Base <= w /\ w <= x /\ x <= y /\ y <= z /\ z <= sent["client"]
             /\ Delivered("server") = Run(Base, w)
             /\ Chunked(pend, w, x)
             /\ buf["up"] = Run(x, y)
             /\ br = Run(y, z)
             /\ str["c2p"].q = Run(z, sent["client"])
      BY DEF Flowing
    <3>2. z <= sent'["client"] /\ str'["c2p"].q = Run(z, sent'["client"])
      BY <2>4, <3>1 DEF n
    <3>3. QED
      BY <2>3, <3>1, <3>2 DEF Flowing
  <2>9. QED
    BY <1>t, <2>3, <2>5, <2>6, <2>7, <2>8 DEF UpInv
<1>16. CASE PeerSend("server")
  <2>1. <<sent["server"] + 1>> \in Seq(Int) /\ sent'["client"] = sent["client"]
    BY <1>16, <1>t DEF PeerSend, Inv, Typed
  <2>2. str'["c2p"].q = str["c2p"].q /\ str'["p2s"].q = str["p2s"].q
    BY <1>16, <1>t, <2>1, PutQueues DEF PeerSend, Queued
  <2>3. QED
    BY <1>16, <1>t, <2>1, <2>2, DeliveredSame, UpUndisturbed DEF PeerSend, UpSame
<1>17. ASSUME NEW p \in Peers, PeerRead(p) PROVE UpInv'
  <2>1. Delivered("server")' = Delivered("server")
    BY <1>17, <1>t, DeliveredRead
  <2>2. str'["c2p"].q = str["c2p"].q
    <3>1. In(p) \in Streams /\ In(p) # "c2p"
      BY DEF In, Peers, Streams
    <3>2. str' = [str EXCEPT ![In(p)].q = Tail(str[In(p)].q)]
      BY <1>17 DEF PeerRead
    <3>3. QED
      BY <1>t, <3>1, <3>2
  <2>3. QED
    BY <1>17, <1>t, <2>1, <2>2, UpUndisturbed DEF PeerRead, UpSame
<1>18. ASSUME NEW p \in Peers, PeerFin(p) \/ PeerReset(p) PROVE UpInv'
  <2>1. \A s \in Streams : str'[s].q = str[s].q
    <3>1. Out(p) \in Streams
      BY DEF Out, Streams
    <3>2. QED
      BY <1>18, <1>t, <3>1, FinEnds DEF PeerFin, PeerReset
  <2>2. QED
    BY <1>18, <1>t, <2>1, DeliveredSame, UpUndisturbed DEF PeerFin, PeerReset, UpSame
<1>19. CASE UNCHANGED vars
  BY <1>19, <1>t, UpUndisturbed DEF vars, UpSame, Delivered
<1>20. QED
  BY <1>1, <1>2, <1>3, <1>4, <1>5, <1>6, <1>7, <1>8, <1>9, <1>10, <1>11, <1>12, <1>13,
     <1>14, <1>15, <1>16, <1>17, <1>18, <1>19
     DEF Next, handle, copyWithTimeout, Finished, Directions, Peers

-----------------------------------------------------------------------------
(* A step that leaves the way from the server to the client alone. *)
DownSame ==
  /\ conf' = conf /\ buf'["down"] = buf["down"]
  /\ Delivered("client")' = Delivered("client")
  /\ str'["s2p"].q = str["s2p"].q /\ sent'["server"] = sent["server"]
  /\ (cp'["down"] = "none") <=> (cp["down"] = "none")

Returning(w, y) ==
  /\ w <= y /\ y <= sent["server"]
  /\ Delivered("client") = Run(Top, w)
  /\ buf["down"] = Run(w, y)
  /\ str["s2p"].q = Run(y, sent["server"])

LEMMA DownUndisturbed ==
  ASSUME DownInv, DownSame,
         pc' # pc =>
           \/ pc' = "resolve" /\ pc = "readRequest"
           \/ pc' = "write200" /\ pc = "resolve"
           \/ pc' = "forward" /\ pc = "readHello"
           \/ /\ pc' = "ended"
              /\ pc = "pipe" => cp["down"] # "none"
              /\ pc \in {"readRequest", "resolve", "write200", "readHello", "forward",
                         "pipe"}
  PROVE  DownInv'
<1>1. Top' = Top
  BY DEF DownSame, Top
<1>2. pc' \in {"readRequest", "resolve", "write200"} => Delivered("client")' = <<>>
  BY DEF DownSame, DownInv
<1>3. pc' \in {"readHello", "forward"} => Delivered("client")' = Run(Top', 0)
  BY <1>1 DEF DownSame, DownInv
<1>4. cp'["down"] = "none" => str'["s2p"].q = Run(0, sent'["server"])
  BY DEF DownSame, DownInv
<1>5. cp'["down"] # "none" => \E w, y \in Nat : Returning(w, y)'
  BY <1>1 DEF DownSame, DownInv, Returning
<1>6. pc' = "ended" /\ cp'["down"] = "none" =>
        Delivered("client")' \in {<<>>, Run(Top', 0), <<BadGateway>>}
  BY <1>1 DEF DownSame, DownInv
<1>7. QED
  BY <1>2, <1>3, <1>4, <1>5, <1>6 DEF DownInv, Returning

(* The way back. *)
LEMMA Downs == Inv /\ [Next]_vars => DownInv'
<1> SUFFICES ASSUME Inv, [Next]_vars PROVE DownInv'
  OBVIOUS
<1> USE DEF handleVars, copyVars, peerVars, histVars
<1>t. /\ TypeOK /\ DownInv /\ StageInv /\ str \in [Streams -> Stream]
      /\ "up" \in Directions /\ "down" \in Directions
      /\ "client" \in Peers /\ "server" \in Peers
      /\ "c2p" \in Streams /\ "p2c" \in Streams /\ "s2p" \in Streams /\ "p2s" \in Streams
      /\ In("client") = "p2c" /\ In("server") = "p2s"
      /\ Out("client") = "c2p" /\ Out("server") = "s2p"
      /\ From("up") = "c2p" /\ From("down") = "s2p"
      /\ To("up") = "p2s" /\ To("down") = "p2c"
  BY TypeFacts DEF Inv, Typed, Directions, Peers, Streams, In, Out, From, To,
                   Source, Target
<1>n. /\ sent["server"] \in Nat /\ sent["server"] \in Int
      /\ conf.mode \in {"http", "connect"} /\ buf["down"] \in Seq(Nat)
      /\ Top \in Int /\ Top <= 0
  BY <1>t, ConfFacts DEF Inv, Typed, TypeOK, Top
<1>i. \A n \in Nat : n \in Int
  OBVIOUS
<1>a. ASSUME NEW st \in [Streams -> Stream], Abandon(st), st["p2c"].q = str["p2c"].q,
             st["s2p"].q = str["s2p"].q, pc # "ended"
      PROVE  DownInv'
  <2>1. str'["p2c"].q = str["p2c"].q /\ str'["s2p"].q = str["s2p"].q
    BY <1>t, <1>a, ClosedEnds DEF Abandon
  <2>2. Delivered("client")' = Delivered("client")
    BY <1>t, <1>a, <2>1, DeliveredSame DEF Abandon
  <2>3. DownSame
    BY <1>a, <2>1, <2>2 DEF DownSame, Abandon
  <2>4. /\ pc = "pipe" => cp["down"] # "none"
        /\ pc \in {"readRequest", "resolve", "write200", "readHello", "forward", "pipe"}
    BY <1>t, <1>a DEF StageInv, TypeOK
  <2>5. QED
    BY <1>t, <1>a, <2>3, <2>4, DownUndisturbed DEF Abandon
<1>1. CASE RejectRequest \/ RefuseOrDialFails \/ HandshakeFails \/ ForwardFails \/ EndPipe
  <2>1. Abandon(str) /\ pc # "ended"
    BY <1>1 DEF RejectRequest, RefuseOrDialFails, HandshakeFails, ForwardFails, EndPipe
  <2>2. QED
    BY <1>a, <1>t, <2>1
<1>2. CASE ResolveFails
  <2>1. pc = "resolve" /\ (Abandon(str) \/ Abandon(Put("p2c", <<BadGateway>>)))
    BY <1>2 DEF ResolveFails
  <2>2. CASE Abandon(str)
    BY <1>a, <1>t, <2>1, <2>2
  <2>3. CASE Abandon(Put("p2c", <<BadGateway>>))
    <3> DEFINE st == Put("p2c", <<BadGateway>>)
    <3>1. /\ st \in [Streams -> Stream] /\ st["s2p"].q = str["s2p"].q
          /\ st["p2c"].q = str["p2c"].q \o <<BadGateway>>
      BY <1>t, BadGatewayIs
    <3>2. str' = Closed(st)
      BY <2>3 DEF Abandon
    <3> HIDE DEF st
    <3>3. /\ str'["p2c"].q = str["p2c"].q \o <<BadGateway>>
          /\ str'["s2p"].q = str["s2p"].q
      BY <1>t, <3>1, <3>2, ClosedEnds
    <3>4. <<BadGateway>> \in Seq(Int)
      BY DEF BadGateway
    <3>5. Delivered("client")' = Delivered("client") \o <<BadGateway>>
      BY <1>t, <2>3, <3>3, <3>4, DeliveredMore DEF Abandon
    <3>6. Delivered("client") = <<>> /\ cp["down"] = "none"
      BY <1>t, <2>1 DEF DownInv, StageInv
    <3>7. Delivered("client")' = <<BadGateway>>
      BY <3>4, <3>5, <3>6, ConcatEmptySeq
    <3>8. QED
      BY <1>t, <2>3, <3>3, <3>6, <3>7 DEF Abandon, DownInv
  <2>4. QED
    BY <2>1, <2>2, <2>3
<1>3. CASE FillBuffer
  <2>1. PICK n \in 1..Len(str["c2p"].q) : str' = Rest("c2p", n)
    BY <1>3 DEF FillBuffer
  <2>2. str'["p2c"].q = str["p2c"].q /\ str'["s2p"].q = str["s2p"].q
    BY <1>t, <2>1, RestQueues DEF Queued
  <2>3. DownSame
    BY <1>3, <1>t, <2>2, DeliveredSame DEF FillBuffer, DownSame
  <2>4. QED
    BY <1>3, <1>t, <2>3, DownUndisturbed DEF FillBuffer
<1>4. CASE AcceptRequest \/ ReadHello
  <2>1. DownSame
    BY <1>4 DEF AcceptRequest, ReadHello, DownSame, Delivered
  <2>2. \/ pc' = pc
        \/ pc' = "resolve" /\ pc = "readRequest"
        \/ pc' = "forward" /\ pc = "readHello"
    <3>1. CASE AcceptRequest
      <4>1. pc = "readRequest" /\ pc' = "resolve"
        BY <3>1 DEF AcceptRequest
      <4>2. QED
        BY <4>1
    <3>2. CASE ReadHello
      <4>1. pc = "readHello" /\ (pc' = pc \/ pc' = "forward")
        BY <3>2, Zenon DEF ReadHello
      <4>2. QED
        BY <4>1
    <3>3. QED
      BY <1>4, <3>1, <3>2
  <2>3. QED
    BY <1>t, <2>1, <2>2, DownUndisturbed
<1>5. CASE Dial
  <2>1. DownSame
    BY <1>5 DEF Dial, DownSame, Delivered
  <2>2. CASE conf.mode = "http"
    <3>1. Delivered("client")' = <<>> /\ cp["down"] = "none" /\ cp' = cp
          /\ pc' = "forward"
      BY <1>5, <1>t, <2>2 DEF Dial, Delivered, DownInv, StageInv
    <3>2. Top' = 0 /\ <<>> = Run(0, 0)
      BY <1>5, <2>2, RunEmpty DEF Top, Dial
    <3>3. str'["s2p"].q = Run(0, sent'["server"])
      BY <1>t, <2>1, <3>1 DEF DownSame, DownInv
    <3>4. QED
      BY <3>1, <3>2, <3>3 DEF DownInv
  <2>3. CASE conf.mode = "connect"
    BY <1>5, <1>t, <2>1, <2>3, DownUndisturbed DEF Dial
  <2>4. QED
    BY <1>n, <2>2, <2>3
<1>6. CASE Write200
  <2>1. <<Ok200>> \in Seq(Int) /\ <<Ok200>> = Run(-1, 0)
    <3>1. <<-1 + 1>> = Run(-1, -1 + 1)
      BY RunOne
    <3>2. -1 + 1 = 0
      OBVIOUS
    <3>3. QED
      BY <3>1, <3>2 DEF Ok200
  <2>2. /\ str'["p2c"].q = str["p2c"].q \o <<Ok200>>
        /\ str'["s2p"].q = str["s2p"].q
    BY <1>6, <1>t, <2>1, PutQueues DEF Write200, Queued
  <2>3. Delivered("client")' = Delivered("client") \o <<Ok200>>
    BY <1>6, <1>t, <2>1, <2>2, DeliveredMore DEF Write200
  <2>4. Delivered("client") = <<>> /\ cp["down"] = "none" /\ cp' = cp
        /\ sent' = sent /\ pc' = "readHello"
    BY <1>6, <1>t DEF Write200, DownInv, StageInv
  <2>5. Delivered("client")' = Run(-1, 0)
    BY <2>1, <2>3, <2>4, ConcatEmptySeq
  <2>6. Top' = -1
    BY <1>6 DEF Write200, Inv, UpInv, Top
  <2>7. str'["s2p"].q = Run(0, sent'["server"])
    BY <1>t, <2>2, <2>4 DEF DownInv
  <2>8. QED
    BY <2>4, <2>5, <2>6, <2>7 DEF DownInv
<1>7. CASE ForwardWrite
  <2>1. Head(pend) \in Seq(Int)
    <3>1. Head(pend) \in Seq(Nat)
      BY <1>7, <1>t DEF ForwardWrite, TypeOK
    <3>2. QED
      BY <3>1
  <2>2. str'["p2c"].q = str["p2c"].q /\ str'["s2p"].q = str["s2p"].q
    BY <1>7, <1>t, <2>1, PutQueues DEF ForwardWrite, Queued
  <2>3. DownSame
    BY <1>7, <1>t, <2>2, DeliveredSame DEF ForwardWrite, DownSame
  <2>4. QED
    BY <1>7, <1>t, <2>3, DownUndisturbed DEF ForwardWrite
<1>8. CASE StartPipe
  <2>1. /\ Delivered("client")' = Run(Top, 0) /\ Top' = Top
        /\ buf'["down"] = <<>> /\ <<>> = Run(0, 0) /\ cp'["down"] = "read"
        /\ str'["s2p"].q = Run(0, sent'["server"]) /\ sent' = sent /\ pc' = "pipe"
    <3>1. /\ pc = "forward" /\ cp["down"] = "none" /\ pc' = "pipe"
          /\ sent' = sent /\ str' = str /\ got' = got /\ buf' = buf /\ conf' = conf
          /\ cp' = [d \in Directions |-> "read"]
      BY <1>8, <1>t DEF StartPipe, StageInv
    <3>2. Delivered("client") = Run(Top, 0) /\ str["s2p"].q = Run(0, sent["server"])
      BY <1>t, <3>1 DEF DownInv
    <3>3. buf["down"] = <<>> /\ cp'["down"] = "read" /\ Top' = Top
          /\ Delivered("client")' = Delivered("client")
      BY <1>t, <3>1 DEF StageInv, Top, Delivered
    <3>4. <<>> = Run(0, 0)
      BY RunEmpty
    <3>5. QED
      BY <3>1, <3>2, <3>3, <3>4
  <2>2. Returning(0, 0)'
    BY <1>n, <2>1 DEF Returning
  <2>3. 0 \in Nat
    OBVIOUS
  <2>4. QED
    BY <2>1, <2>2, <2>3 DEF DownInv, Returning
<1>9. CASE CopyRead("up")
  <2>1. str'["p2c"].q = str["p2c"].q /\ str'["s2p"].q = str["s2p"].q
    <3>1. CASE Buffered("up") # <<>>
      BY <1>9, <3>1 DEF CopyRead
    <3>2. CASE Buffered("up") = <<>>
      <4>1. PICK n \in 1..Len(str["c2p"].q) : str' = Rest("c2p", n)
        BY <1>9, <1>t, <3>2 DEF CopyRead
      <4>2. QED
        BY <1>t, <4>1, RestQueues DEF Queued
    <3>3. QED
      BY <3>1, <3>2
  <2>2. buf'["down"] = buf["down"] /\ cp'["down"] = cp["down"]
    BY <1>9, <1>t DEF CopyRead, TypeOK
  <2>3. DownSame
    BY <1>9, <1>t, <2>1, <2>2, DeliveredSame DEF CopyRead, DownSame
  <2>4. QED
    BY <1>9, <1>t, <2>3, DownUndisturbed DEF CopyRead
<1>10. CASE CopyWrite("up")
  <2>1. <<Head(buf["up"])>> \in Seq(Int)
    <3>1. buf["up"] \in Seq(Nat) /\ buf["up"] # <<>>
      BY <1>10, <1>t, TypeFacts DEF CopyWrite, TypeOK, Directions
    <3>2. Head(buf["up"]) \in Nat
      BY ONLY <3>1
    <3>3. QED
      BY ONLY <3>2
  <2>2. str'["p2c"].q = str["p2c"].q /\ str'["s2p"].q = str["s2p"].q
    BY <1>10, <1>t, <2>1, PutQueues DEF CopyWrite, Queued
  <2>3. buf'["down"] = buf["down"] /\ cp'["down"] = cp["down"]
    BY <1>10, <1>t DEF CopyWrite, TypeOK
  <2>4. DownSame
    BY <1>10, <1>t, <2>2, <2>3, DeliveredSame DEF CopyWrite, DownSame
  <2>5. QED
    BY <1>10, <1>t, <2>4, DownUndisturbed DEF CopyWrite
<1>11. CASE CopyRead("down")
  <2>1. /\ cp["down"] = "read" /\ pc = "pipe" /\ buf["down"] = <<>> /\ cp'["down"] = "write"
        /\ pc' = pc /\ sent' = sent /\ Top' = Top /\ got' = got
    BY <1>11, <1>t DEF CopyRead, StageInv, TypeOK, Top
  <2>2. PICK w \in Nat, y \in Nat : Returning(w, y)
    BY <1>t, <2>1 DEF DownInv, Returning
  <2>3. PICK n \in 1..Len(str["s2p"].q) :
           buf' = [buf EXCEPT !["down"] = First("s2p", n)] /\ str' = Rest("s2p", n)
    BY <1>11, <1>t DEF CopyRead, Buffered
  <2>4. buf'["down"] = First("s2p", n)
    BY <1>t, <2>3 DEF TypeOK
  <2>5. /\ str'["s2p"].q = SubSeq(str["s2p"].q, n + 1, Len(str["s2p"].q))
        /\ str'["p2c"].q = str["p2c"].q
    BY <1>t, <2>3, RestQueues DEF Queued
  <2>6. Delivered("client")' = Delivered("client")
    BY <1>t, <2>1, <2>5, DeliveredSame
  <2>7. w = y
    BY <1>i, <2>1, <2>2, RunNone DEF Returning
  <2>8. n \in 1..Len(Run(y, sent["server"])) /\ y <= sent["server"]
    BY <2>2 DEF Returning
  <2>9. /\ y + n \in Nat /\ y < y + n /\ y + n <= sent["server"]
        /\ SubSeq(Run(y, sent["server"]), 1, n) = Run(y, y + n)
        /\ SubSeq(Run(y, sent["server"]), n + 1, Len(Run(y, sent["server"])))
           = Run(y + n, sent["server"])
    BY <1>n, <2>8, ReadRun
  <2> DEFINE m == y + n
  <2>10. /\ m \in Nat /\ w <= m /\ m <= sent["server"]
         /\ buf'["down"] = Run(w, m)
         /\ str'["s2p"].q = Run(m, sent["server"])
    BY <2>2, <2>4, <2>5, <2>7, <2>9 DEF First, Returning
  <2> HIDE DEF m
  <2>11. Returning(w, m)'
    BY <2>1, <2>2, <2>6, <2>10 DEF Returning
  <2>12. QED
    BY <2>1, <2>10, <2>11 DEF DownInv, Returning
<1>12. CASE CopyWrite("down")
  <2>1. /\ cp["down"] = "write" /\ pc = "pipe" /\ buf["down"] # <<>> /\ cp'["down"] # "none"
        /\ pc' = pc /\ sent' = sent /\ Top' = Top /\ got' = got
        /\ str' = Put("p2c", <<Head(buf["down"])>>)
        /\ buf'["down"] = Tail(buf["down"])
    BY <1>12, <1>t DEF CopyWrite, StageInv, TypeOK, Top
  <2>2. PICK w \in Nat, y \in Nat : Returning(w, y)
    BY <1>t, <2>1 DEF DownInv, Returning
  <2>3. w < y /\ w \in Int /\ y \in Int /\ buf["down"] = Run(w, y)
    BY <1>i, <2>1, <2>2, RunNone DEF Returning
  <2>4. Head(Run(w, y)) = w + 1 /\ Tail(Run(w, y)) = Run(w + 1, y)
    BY <2>3, RunHead
  <2>5. <<w + 1>> = Run(w, w + 1)
    BY <2>3, RunOne
  <2> DEFINE k == w + 1
  <2>6. /\ k \in Nat /\ w <= k /\ Top <= w /\ Top <= k /\ k <= y
        /\ buf'["down"] = Run(k, y) /\ str' = Put("p2c", Run(w, k))
    BY <1>n, <2>1, <2>3, <2>4, <2>5, SMTT(30)
  <2> HIDE DEF k
  <2>7. Run(w, k) \in Seq(Int)
    BY <1>i, <2>6, RunIsSeq
  <2>8. /\ str'["p2c"].q = str["p2c"].q \o Run(w, k)
        /\ str'["s2p"].q = str["s2p"].q
    BY <1>t, <2>6, <2>7, PutQueues DEF Queued
  <2>9. Delivered("client")' = Run(Top, k)
    <3>1. Delivered("client")' = Delivered("client") \o Run(w, k)
      BY <1>t, <2>1, <2>7, <2>8, DeliveredMore
    <3>2. Run(Top, w) \o Run(w, k) = Run(Top, k)
      BY <1>i, <1>n, <2>6, RunJoin
    <3>3. QED
      BY <2>2, <3>1, <3>2 DEF Returning
  <2>10. Returning(k, y)'
    BY <2>1, <2>2, <2>6, <2>8, <2>9 DEF Returning
  <2>11. QED
    BY <2>1, <2>6, <2>10 DEF DownInv, Returning
<1>13. ASSUME NEW d \in Directions, CopyEnds(d) \/ CopyTimesOut(d) \/ HalfClose(d)
       PROVE  DownInv'
  <2>1. /\ \A s \in Streams : str'[s].q = str[s].q
        /\ got' = got /\ sent' = sent /\ conf' = conf /\ buf' = buf /\ pc' = pc
    <3>1. d = "up" \/ d = "down"
      BY DEF Directions
    <3>2. QED
      BY <1>13, <1>t, <3>1, FinEnds DEF CopyEnds, CopyTimesOut, HalfClose
  <2>2. (cp'["down"] = "none") <=> (cp["down"] = "none")
    BY <1>13, <1>t DEF CopyEnds, CopyTimesOut, HalfClose, TypeOK
  <2>3. DownSame
    BY <1>t, <2>1, <2>2, DeliveredSame DEF DownSame
  <2>4. QED
    BY <1>t, <2>1, <2>3, DownUndisturbed
<1>14. CASE PeerSend("server")
  <2> DEFINE n == sent["server"]
  <2>1. /\ sent'["server"] = n + 1 /\ str' = Put("s2p", <<n + 1>>)
        /\ n + 1 \in Nat /\ <<n + 1>> \in Seq(Int) /\ <<n + 1>> = Run(n, n + 1)
    <3>1. sent'["server"] = n + 1 /\ str' = Put("s2p", <<n + 1>>)
      BY <1>14, <1>t DEF PeerSend, Inv, Typed
    <3>2. n \in Int /\ n + 1 \in Nat
      BY <1>n
    <3> HIDE DEF n
    <3>3. <<n + 1>> = Run(n, n + 1)
      BY <3>2, RunOne
    <3>4. <<n + 1>> \in Seq(Int)
      BY <3>2
    <3>5. QED
      BY <3>1, <3>2, <3>3, <3>4
  <2>2. /\ str'["s2p"].q = str["s2p"].q \o Run(n, n + 1)
        /\ str'["p2c"].q = str["p2c"].q
    BY <1>t, <2>1, PutQueues DEF Queued
  <2>3. /\ Delivered("client")' = Delivered("client")
        /\ buf' = buf /\ conf' = conf /\ pc' = pc /\ cp' = cp /\ Top' = Top /\ pc # "ended"
    BY <1>14, <1>t, <2>2, DeliveredSame DEF PeerSend, Top, StageInv
  <2>4. ASSUME NEW z \in Nat, z <= n, str["s2p"].q = Run(z, n)
        PROVE  z <= sent'["server"] /\ str'["s2p"].q = Run(z, sent'["server"])
    <3>1. Run(z, n) \o Run(n, n + 1) = Run(z, n + 1)
      <4>1. z \in Int /\ n \in Int /\ n + 1 \in Int /\ n <= n + 1
        BY <1>n
      <4>2. QED
        BY <2>4, <4>1, RunJoin
    <3>2. z <= n + 1
      BY <1>n, <2>4
    <3>3. QED
      BY <2>1, <2>2, <2>4, <3>1, <3>2
  <2>5. CASE cp["down"] = "none"
    <3>1. 0 \in Nat /\ 0 <= n /\ str["s2p"].q = Run(0, n)
      BY <1>n, <1>t, <2>5 DEF DownInv
    <3>2. str'["s2p"].q = Run(0, sent'["server"])
      BY <2>4, <3>1
    <3>3. QED
      BY <1>t, <2>3, <2>5, <3>2 DEF DownInv
  <2>6. CASE cp["down"] # "none"
    <3>1. PICK w \in Nat, y \in Nat : Returning(w, y)
      BY <1>t, <2>6 DEF DownInv, Returning
    <3>2. Returning(w, y)'
      BY <2>3, <2>4, <3>1 DEF Returning
    <3>3. pc = "pipe"
      BY <1>t, <2>3, <2>6 DEF StageInv, TypeOK
    <3>4. QED
      BY <2>3, <2>6, <3>2, <3>3 DEF DownInv, Returning
  <2>7. QED
    BY <2>5, <2>6
<1>15. CASE PeerSend("client")
  <2>1. <<sent["client"] + 1>> \in Seq(Int) /\ sent'["server"] = sent["server"]
    BY <1>15, <1>t DEF PeerSend, Inv, Typed
  <2>2. str'["p2c"].q = str["p2c"].q /\ str'["s2p"].q = str["s2p"].q
    BY <1>15, <1>t, <2>1, PutQueues DEF PeerSend, Queued
  <2>3. DownSame
    BY <1>15, <1>t, <2>1, <2>2, DeliveredSame DEF PeerSend, DownSame
  <2>4. QED
    BY <1>15, <1>t, <2>3, DownUndisturbed DEF PeerSend
<1>16. ASSUME NEW p \in Peers, PeerRead(p) PROVE DownInv'
  <2>1. Delivered("client")' = Delivered("client")
    BY <1>16, <1>t, DeliveredRead
  <2>2. str'["s2p"].q = str["s2p"].q
    <3>1. In(p) \in Streams /\ In(p) # "s2p"
      BY DEF In, Peers, Streams
    <3>2. str' = [str EXCEPT ![In(p)].q = Tail(str[In(p)].q)]
      BY <1>16 DEF PeerRead
    <3>3. QED
      BY <1>t, <3>1, <3>2
  <2>3. DownSame
    BY <1>16, <2>1, <2>2 DEF PeerRead, DownSame
  <2>4. QED
    BY <1>16, <1>t, <2>3, DownUndisturbed DEF PeerRead
<1>17. ASSUME NEW p \in Peers, PeerFin(p) \/ PeerReset(p) PROVE DownInv'
  <2>1. \A s \in Streams : str'[s].q = str[s].q
    <3>1. Out(p) \in Streams
      BY DEF Out, Streams
    <3>2. QED
      BY <1>17, <1>t, <3>1, FinEnds DEF PeerFin, PeerReset
  <2>2. DownSame
    BY <1>17, <1>t, <2>1, DeliveredSame DEF PeerFin, PeerReset, DownSame
  <2>3. QED
    BY <1>17, <1>t, <2>2, DownUndisturbed DEF PeerFin, PeerReset
<1>18. CASE UNCHANGED vars
  <2>1. DownSame /\ pc' = pc
    BY <1>18 DEF vars, DownSame, Delivered
  <2>2. QED
    BY <1>t, <2>1, DownUndisturbed
<1>19. QED
  BY <1>1, <1>2, <1>3, <1>4, <1>5, <1>6, <1>7, <1>8, <1>9, <1>10, <1>11, <1>12, <1>13,
     <1>14, <1>15, <1>16, <1>17, <1>18
     DEF Next, handle, copyWithTimeout, Finished, Directions, Peers

-----------------------------------------------------------------------------
(* A direction is over: its source has ended and nothing of it is left. *)
Dry(d) == /\ str[From(d)].fin /\ str[From(d)].q = <<>>
          /\ buf[d] = <<>> /\ Buffered(d) = <<>>

LEMMA Ends == Inv /\ [Next]_vars => EndInv'
<1> SUFFICES ASSUME Inv, [Next]_vars, rst' = {}, timedOut' = {},
                    NEW d \in Directions, cp'[d] \in {"shut", "exited"}
             PROVE  Dry(d)'
  BY DEF EndInv, Dry
<1> USE DEF handleVars, copyVars, peerVars, histVars
<1>t. /\ TypeOK /\ StageInv /\ str \in [Streams -> Stream]
      /\ From(d) \in {"c2p", "s2p"} /\ From(d) \in Streams
      /\ \A e \in Directions : /\ From(e) \in Streams /\ To(e) \in {"p2c", "p2s"}
                              /\ (e # d => From(e) # From(d))
      /\ {"c2p", "p2c", "s2p", "p2s"} = Streams
      /\ From("up") = "c2p" /\ From("down") = "s2p"
  BY TypeFacts DEF Inv, Typed, Directions, Streams, From, To, Out, In, Source, Target
<1>r. rst = {} /\ timedOut = {} /\ (str[From(d)].fin => str'[From(d)].fin)
  BY <1>t, FinsStay
<1>e. cp[d] \in {"shut", "exited"} => Dry(d)
  BY <1>r DEF Inv, EndInv, Dry
<1>s. ASSUME cp[d] \in {"shut", "exited"}, str'[From(d)].q = str[From(d)].q,
             buf'[d] = buf[d], br' = br
      PROVE  Dry(d)'
  BY <1>r, <1>e, <1>s DEF Dry, Buffered
<1>a. ASSUME NEW st \in [Streams -> Stream], Abandon(st), st["c2p"].q = str["c2p"].q,
             st["s2p"].q = str["s2p"].q
      PROVE  Dry(d)'
  <2>1. str'[From(d)].q = str[From(d)].q
    BY <1>t, <1>a, ClosedEnds DEF Abandon
  <2>2. cp[d] \in {"shut", "exited"} /\ buf' = buf /\ br' = br
    BY <1>a DEF Abandon
  <2>3. QED
    BY <1>s, <2>1, <2>2
<1>1. CASE RejectRequest \/ RefuseOrDialFails \/ HandshakeFails \/ ForwardFails \/ EndPipe
  <2>1. Abandon(str)
    BY <1>1 DEF RejectRequest, RefuseOrDialFails, HandshakeFails, ForwardFails, EndPipe
  <2>2. QED
    BY <1>a, <1>t, <2>1
<1>2. CASE ResolveFails
  <2>1. Abandon(str) \/ Abandon(Put("p2c", <<BadGateway>>))
    BY <1>2 DEF ResolveFails
  <2>2. QED
    BY <1>a, <1>t, <2>1, BadGatewayIs
<1>3. CASE \/ FillBuffer \/ AcceptRequest \/ Dial \/ Write200 \/ ReadHello
           \/ ForwardWrite \/ StartPipe
  <2>1. cp[d] = "none" /\ (cp' = cp \/ cp'[d] = "read")
    BY <1>3, <1>t DEF FillBuffer, AcceptRequest, Dial, Write200, ReadHello, ForwardWrite,
                      StartPipe, StageInv
  <2>2. QED
    BY <2>1
<1>4. ASSUME NEW e \in Directions, CopyRead(e) PROVE Dry(d)'
  <2>1. e # d /\ cp[d] \in {"shut", "exited"} /\ buf'[d] = buf[d]
    BY <1>4, <1>t DEF CopyRead, TypeOK
  <2>2. Buffered(d) = <<>> /\ str[From(d)].q = <<>>
    BY <1>e, <2>1 DEF Dry
  <2>3. CASE Buffered(e) # <<>>
    <3>1. e = "up" /\ str' = str /\ d = "down"
      BY <1>4, <2>1, <2>3 DEF CopyRead, Buffered, Directions
    <3>2. QED
      BY <1>e, <2>1, <3>1 DEF Dry, Buffered
  <2>4. CASE Buffered(e) = <<>>
    <3>1. PICK n \in 1..Len(str[From(e)].q) : str' = Rest(From(e), n)
      BY <1>4, <2>4 DEF CopyRead
    <3>2. str'[From(d)].q = str[From(d)].q
      BY <1>t, <2>1, <3>1, RestQueues DEF Queued
    <3>3. br' = br
      BY <1>4, <2>4 DEF CopyRead
    <3>4. QED
      BY <1>s, <2>1, <3>2, <3>3
  <2>5. QED
    BY <2>3, <2>4
<1>5. ASSUME NEW e \in Directions, CopyWrite(e) PROVE Dry(d)'
  <2>1. e # d /\ cp[d] \in {"shut", "exited"} /\ buf'[d] = buf[d] /\ br' = br
    BY <1>5, <1>t DEF CopyWrite, TypeOK
  <2>2. To(e) \in Streams /\ To(e) # From(d)
    BY <1>t
  <2>3. str'[From(d)].q = str[From(d)].q
    BY <1>5, <1>t, <2>2 DEF CopyWrite, Put
  <2>4. QED
    BY <1>s, <2>1, <2>3
<1>6. ASSUME NEW e \in Directions, CopyEnds(e) PROVE Dry(d)'
  <2>1. str' = str /\ buf' = buf /\ br' = br
    BY <1>6 DEF CopyEnds
  <2>2. CASE e = d
    <3>1. cp[d] = "read" /\ Buffered(d) = <<>> /\ AtEof(From(d))
      BY <1>6, <1>r, <2>2 DEF CopyEnds
    <3>2. buf[d] = <<>>
      BY <1>t, <3>1 DEF StageInv
    <3>3. QED
      BY <2>1, <3>1, <3>2 DEF Dry, AtEof, Buffered
  <2>3. CASE e # d
    BY <1>6, <1>t, <1>s, <2>1, <2>3 DEF CopyEnds, TypeOK
  <2>4. QED
    BY <2>2, <2>3
<1>7. ASSUME NEW e \in Directions, CopyTimesOut(e) PROVE FALSE
  BY <1>7 DEF CopyTimesOut
<1>8. ASSUME NEW e \in Directions, HalfClose(e) PROVE Dry(d)'
  <2>1. cp[d] \in {"shut", "exited"} /\ buf' = buf /\ br' = br
    BY <1>8, <1>t DEF HalfClose, TypeOK
  <2>2. str'[From(d)].q = str[From(d)].q
    BY <1>8, <1>t, FinEnds DEF HalfClose
  <2>3. QED
    BY <1>s, <2>1, <2>2
<1>9. ASSUME NEW p \in Peers, PeerSend(p) PROVE Dry(d)'
  <2>1. cp[d] \in {"shut", "exited"} /\ buf' = buf /\ br' = br
    BY <1>9 DEF PeerSend
  <2>2. Out(p) # From(d) /\ Out(p) \in Streams
    BY <1>9, <1>e, <2>1 DEF PeerSend, Dry, Out, Streams
  <2>3. str'[From(d)].q = str[From(d)].q
    BY <1>9, <1>t, <2>2 DEF PeerSend, Put
  <2>4. QED
    BY <1>s, <2>1, <2>3
<1>10. ASSUME NEW p \in Peers, PeerRead(p) PROVE Dry(d)'
  <2>1. cp[d] \in {"shut", "exited"} /\ buf' = buf /\ br' = br
    BY <1>10 DEF PeerRead
  <2>2. In(p) # From(d)
    BY <1>t DEF In
  <2>3. str'[From(d)].q = str[From(d)].q
    BY <1>10, <1>t, <2>2 DEF PeerRead
  <2>4. QED
    BY <1>s, <2>1, <2>3
<1>11. ASSUME NEW p \in Peers, PeerFin(p) \/ PeerReset(p) PROVE Dry(d)'
  <2>1. cp[d] \in {"shut", "exited"} /\ buf' = buf /\ br' = br
    BY <1>11 DEF PeerFin, PeerReset
  <2>2. Out(p) \in Streams
    BY DEF Out, Streams
  <2>3. str'[From(d)].q = str[From(d)].q
    BY <1>11, <1>t, <2>2, FinEnds DEF PeerFin, PeerReset
  <2>4. QED
    BY <1>s, <2>1, <2>3
<1>12. CASE UNCHANGED vars
  BY <1>12, <1>s DEF vars
<1>13. QED
  BY <1>1, <1>2, <1>3, <1>4, <1>5, <1>6, <1>7, <1>8, <1>9, <1>10, <1>11, <1>12
     DEF Next, handle, copyWithTimeout, Finished

(* For a host that matched, no write carries the whole hello. *)
LEMMA Chunks == Inv /\ [Next]_vars => ChunkInv' /\ HelloFragmented'
<1> SUFFICES ASSUME Inv, [Next]_vars PROVE ChunkInv' /\ HelloFragmented'
  OBVIOUS
<1> USE DEF handleVars, copyVars, peerVars, histVars
<1>c. conf' = conf
  BY FinsStay
<1>s. CASE ~Splits
  BY <1>c, <1>s DEF ChunkInv, HelloFragmented, Splits
<1>t. CASE Splits
  <2>1. /\ TypeOK /\ conf.mode # "http" /\ conf.helloLen \in Nat /\ conf.helloLen > 1
        /\ conf.window \in Int /\ conf.window < conf.helloLen /\ conf.exploit
        /\ helloWrites \in Seq(Nat) /\ pend \in Seq(Seq(Nat))
        /\ \A i \in DOMAIN helloWrites : helloWrites[i] < conf.helloLen
        /\ pc = "forward" => \A i \in DOMAIN pend : Len(pend[i]) < conf.helloLen
    <3>1. TypeOK /\ conf \in Configs
      BY DEF Inv, Typed, TypeOK
    <3>2. conf.mode # "http"
      BY <1>t, <3>1, Zenon DEF Splits, Configs
    <3>3. QED
      BY <1>t, <3>1, <3>2, ConfFacts DEF Inv, HelloFragmented, ChunkInv, Splits, TypeOK
  <2>2. SUFFICES /\ pc' = "forward" => \A i \in DOMAIN pend' : Len(pend'[i]) < conf.helloLen
                 /\ \A i \in DOMAIN helloWrites' : helloWrites'[i] < conf.helloLen
    BY <1>c DEF ChunkInv, HelloFragmented, Splits
  <2>3. CASE ReadHello
    <3>1. PICK y \in Nat, k \in Nat, z \in Nat : HelloAt(y, k, z)
      BY <2>3, HelloRead
    <3>2. ASSUME pc' = "forward"
          PROVE  \A i \in DOMAIN pend' : Len(pend'[i]) < conf.helloLen
      <4>1. /\ k - 1 = conf.helloLen /\ 1 < k /\ 1 \in Nat
            /\ pend' = splitInChunks(Run(1, k), conf.window)
        BY <2>1, <3>1, <3>2 DEF HelloAt
      <4>2. k - 1 > 1 /\ conf.window < k - 1
        BY <2>1, <4>1
      <4>3. \A i \in DOMAIN pend' : Len(pend'[i]) < k - 1
        BY <2>1, <4>1, <4>2, SplitIsChunked
      <4>4. QED
        BY <4>1, <4>3
    <3>3. helloWrites' = helloWrites
      BY <2>3 DEF ReadHello
    <3>4. QED
      BY <2>1, <3>2, <3>3
  <2>4. CASE ForwardWrite
    <3>1. /\ pend # <<>> /\ pend' = Tail(pend) /\ pc = "forward"
          /\ helloWrites' = Append(helloWrites, Len(Head(pend)))
      BY <2>1, <2>4 DEF ForwardWrite
    <3>2. \A i \in DOMAIN pend' : Len(pend'[i]) < conf.helloLen
      <4>1. /\ Tail(pend) \in Seq(Seq(Nat)) /\ Len(Tail(pend)) = Len(pend) - 1
            /\ \A i \in 1..Len(Tail(pend)) : Tail(pend)[i] = pend[i + 1]
        BY <2>1, <3>1, HeadTailProperties
      <4>2. \A i \in 1..Len(Tail(pend)) : i + 1 \in DOMAIN pend
        BY <2>1, <4>1
      <4>3. DOMAIN Tail(pend) = 1..Len(Tail(pend))
        BY <4>1
      <4>4. QED
        BY <2>1, <3>1, <4>1, <4>2, <4>3
    <3>3. Len(Head(pend)) \in Nat /\ Len(Head(pend)) < conf.helloLen
      <4>1. Head(pend) = pend[1] /\ 1 \in DOMAIN pend /\ Head(pend) \in Seq(Nat)
        BY <2>1, <3>1
      <4>2. QED
        BY <2>1, <3>1, <4>1
    <3>4. \A i \in DOMAIN helloWrites' : helloWrites'[i] < conf.helloLen
      <4> DEFINE h == Len(Head(pend))
      <4>1. h \in Nat /\ h < conf.helloLen /\ helloWrites' = Append(helloWrites, h)
        BY <3>1, <3>3
      <4> HIDE DEF h
      <4>2. /\ DOMAIN helloWrites' = 1..(Len(helloWrites) + 1)
            /\ \A i \in 1..Len(helloWrites) : helloWrites'[i] = helloWrites[i]
            /\ helloWrites'[Len(helloWrites) + 1] = h
        BY <2>1, <4>1
      <4>3. \A i \in 1..(Len(helloWrites) + 1) :
              i \in 1..Len(helloWrites) \/ i = Len(helloWrites) + 1
        BY <2>1
      <4>4. DOMAIN helloWrites = 1..Len(helloWrites)
        BY <2>1
      <4>5. QED
        BY <2>1, <4>1, <4>2, <4>3, <4>4
    <3>5. QED
      BY <3>2, <3>4
  <2>5. CASE ~ReadHello /\ ~ForwardWrite
    <3>1. helloWrites' = helloWrites /\ (pc' = "forward" => pc = "forward" /\ pend' = pend)
      BY <2>1, <2>5
         DEF Next, handle, copyWithTimeout, Finished, vars, FillBuffer, RejectRequest,
             AcceptRequest, ResolveFails, RefuseOrDialFails, Dial, Write200,
             HandshakeFails, ForwardFails, StartPipe, EndPipe, Abandon,
             CopyRead, CopyWrite, CopyEnds, CopyTimesOut, HalfClose, PeerSend,
             PeerRead, PeerFin, PeerReset
    <3>2. QED
      BY <2>1, <3>1
  <2>6. QED
    BY <2>3, <2>4, <2>5
<1>1. QED
  BY <1>s, <1>t

-----------------------------------------------------------------------------
LEMMA Initially == Init => Inv
<1> SUFFICES ASSUME Init PROVE Inv
  OBVIOUS
<1>1. /\ str \in [Streams -> Stream]
      /\ \A s \in Streams : str[s].q = <<>> /\ str[s].fin = FALSE
  <2> DEFINE r == [q |-> <<>>, fin |-> FALSE]
  <2>1. r \in Stream /\ r.q = <<>> /\ r.fin = FALSE
    BY DEF Stream
  <2> HIDE DEF r
  <2>2. str = [s \in Streams |-> r]
    BY DEF Init, Streams, r
  <2>3. QED
    BY <2>1, <2>2
<1>2. /\ got \in [Peers -> Seq(Int)] /\ \A p \in Peers : got[p] = <<>>
      /\ buf \in [Directions -> Seq(Nat)] /\ \A d \in Directions : buf[d] = <<>>
      /\ sent \in [Peers -> Nat] /\ \A p \in Peers : sent[p] = 0
      /\ cp \in [Directions -> {"none", "read", "write", "shut", "exited"}]
      /\ \A d \in Directions : cp[d] = "none"
  BY DEF Init
<1>3. Typed
  <2>1. sent["client"] \in 0..ClientUnits /\ sent["server"] \in 0..ServerUnits
    BY <1>2, UnitsAreNats DEF Peers
  <2>2. QED
    BY <1>1, <1>2, <2>1 DEF Init, Typed, TypeOK, Streams, Stream
<1>4. \A p \in Peers : Delivered(p) = <<>>
  <2>1. \A p \in Peers : In(p) \in Streams
    BY DEF Peers, In, Streams
  <2>2. <<>> \o <<>> = <<>>
    OBVIOUS
  <2>3. QED
    BY <1>1, <1>2, <2>1, <2>2 DEF Delivered
<1>5. Run(0, 0) = <<>>
  BY RunEmpty
<1>6. UpInv
  <2>1. pc = "readRequest" /\ cp["up"] = "none"
    BY <1>2 DEF Init, Directions
  <2>2. Delivered("server") = <<>> /\ sent["client"] = 0 /\ str["c2p"].q = <<>>
    BY <1>1, <1>2, <1>4 DEF Peers, Streams
  <2>3. Waiting(0)
    BY <1>5, <2>2 DEF Init, Waiting
  <2>4. QED
    BY <2>1, <2>3 DEF UpInv
<1>7. DownInv
  <2>1. pc = "readRequest" /\ cp["down"] = "none"
    BY <1>2 DEF Init, Directions
  <2>2. Delivered("client") = <<>> /\ sent["server"] = 0 /\ str["s2p"].q = <<>>
    BY <1>1, <1>2, <1>4 DEF Peers, Streams
  <2>3. QED
    BY <1>5, <2>1, <2>2 DEF DownInv
<1>8. StageInv
  BY <1>2 DEF Init, StageInv, Directions
<1>9. EndInv
  BY <1>2 DEF EndInv
<1>10. ChunkInv /\ HelloFragmented
  BY DEF Init, ChunkInv, HelloFragmented
<1>11. QED
  BY <1>3, <1>6, <1>7, <1>8, <1>9, <1>10 DEF Inv

(* The bytes of both directions stay cut into runs, each in its place, at
   every stage of the connection. *)
THEOREM Invariance == Spec => []Inv
<1>1. Inv /\ [Next]_vars => Inv'
  BY Typing, Stages, Ups, Downs, Ends, Chunks DEF Inv
<1>2. QED
  BY Initially, <1>1, PTL DEF Spec

-----------------------------------------------------------------------------
(* A run is a prefix of a longer one that starts where it does. *)
LEMMA RunPrefix ==
  ASSUME NEW a \in Int, NEW b \in Int, NEW c \in Int, a <= b, b <= c
  PROVE  IsPrefix(Run(a, b), Run(a, c))
<1>1. a <= c
  OBVIOUS
<1>2. Len(Run(a, b)) = b - a /\ Len(Run(a, c)) = c - a
  BY <1>1, RunIsSeq
<1>3. Run(a, b) = SubSeq(Run(a, c), 1, b - a)
  BY RunCut
<1>4. QED
  BY <1>2, <1>3 DEF IsPrefix

LEMMA UptoIsRun == ASSUME NEW n \in Nat PROVE Upto(n) = Run(0, n)
  BY DEF Upto, Run

(* What each peer is meant to get, as a run. *)
LEMMA IntendedIs ==
  ASSUME conf \in Configs, sent \in [Peers -> Nat]
  PROVE  /\ Base <= sent["client"] => Intended("server") = Run(Base, sent["client"])
         /\ Intended("client") = Run(Top, sent["server"])
<1> DEFINE m == sent["client"]
           n == sent["server"]
<1>1. m \in Nat /\ n \in Nat
  BY DEF Peers
<1> HIDE DEF m, n
<1>2. Upto(m) = Run(0, m) /\ Upto(n) = Run(0, n)
  BY <1>1, UptoIsRun
<1>3. CASE conf.mode = "http"
  BY <1>2, <1>3 DEF Intended, Base, Top, m, n
<1>4. CASE conf.mode = "connect"
  <2>1. Base = 1 /\ Top = -1
    BY <1>4 DEF Base, Top
  <2>2. Intended("server") = Tail(Run(0, m))
    BY <1>2, <1>4 DEF Intended, m
  <2>3. Intended("client") = <<0>> \o Run(0, n)
    BY <1>2, <1>4 DEF Intended, Ok200, n
  <2>4. 1 <= m => Tail(Run(0, m)) = Run(1, m)
    <3>1. SUFFICES ASSUME 1 <= m PROVE Tail(Run(0, m)) = Run(0 + 1, m)
      OBVIOUS
    <3>2. 0 \in Int /\ m \in Int /\ 0 < m
      BY <1>1, <3>1
    <3>3. QED
      BY <3>2, RunHead
  <2>5. <<0>> \o Run(0, n) = Run(-1, n)
    <3> DEFINE e == -1
    <3>1. e \in Int /\ e + 1 = 0 /\ n \in Int /\ e <= 0 /\ 0 <= n
      BY <1>1
    <3> HIDE DEF e
    <3>2. <<0>> = Run(e, 0)
      BY <3>1, RunOne
    <3>3. Run(e, 0) \o Run(0, n) = Run(e, n)
      BY <3>1, RunJoin
    <3>4. QED
      BY <3>2, <3>3 DEF e
  <2>6. QED
    BY <2>1, <2>2, <2>3, <2>4, <2>5 DEF m, n
<1>5. QED
  BY <1>3, <1>4, ConfFacts

LEMMA UpIntact ==
  ASSUME Inv, Delivered("server") # <<>>
  PROVE  IsPrefix(Delivered("server"), Intended("server"))
<1>1. /\ TypeOK /\ conf \in Configs /\ sent \in [Peers -> Nat] /\ UpInv /\ StageInv
  BY TypeFacts DEF Inv, Typed
<1>2. sent["client"] \in Nat /\ Base \in Nat
  BY <1>1 DEF Peers, Base
<1>3. PICK w \in Nat : /\ Base <= w /\ w <= sent["client"]
                       /\ Delivered("server") = Run(Base, w)
  <2>1. CASE pc \in {"readRequest", "resolve", "write200", "readHello"}
    BY <1>1, <2>1 DEF UpInv, Waiting, Reading
  <2>2. CASE pc = "ended"
    BY <1>1, <2>2 DEF UpInv, Landed
  <2>3. CASE Flowing
    <3>1. PICK w, x, y, z \in Nat :
            /\ Base <= w /\ w <= x /\ x <= y /\ y <= z /\ z <= sent["client"]
            /\ Delivered("server") = Run(Base, w)
      BY <2>3 DEF Flowing
    <3>2. w <= sent["client"]
      BY <1>2, <3>1
    <3>3. QED
      BY <3>1, <3>2
  <2>4. CASE pc \in {"forward", "pipe"}
    BY <1>1, <2>3, <2>4 DEF UpInv, StageInv, Directions
  <2>5. QED
    BY <1>1, <2>1, <2>2, <2>4 DEF TypeOK
<1>4. Base <= sent["client"] /\ Base \in Int /\ w \in Int /\ sent["client"] \in Int
  BY <1>2, <1>3
<1>5. Intended("server") = Run(Base, sent["client"])
  BY <1>1, <1>4, IntendedIs
<1>6. IsPrefix(Run(Base, w), Run(Base, sent["client"]))
  BY <1>3, <1>4, RunPrefix
<1>7. QED
  BY <1>3, <1>5, <1>6

LEMMA DownIntact ==
  ASSUME Inv, Delivered("client") # <<>>, Delivered("client") # <<BadGateway>>
  PROVE  IsPrefix(Delivered("client"), Intended("client"))
<1>1. /\ TypeOK /\ conf \in Configs /\ sent \in [Peers -> Nat] /\ DownInv /\ StageInv
  BY TypeFacts DEF Inv, Typed
<1>2. sent["server"] \in Nat /\ Top \in Int /\ Top <= 0
  BY <1>1 DEF Peers, Top
<1>3. PICK w \in Nat : w <= sent["server"] /\ Delivered("client") = Run(Top, w)
  <2>1. CASE cp["down"] = "none"
    <3>1. pc # "pipe"
      BY <1>1, <2>1 DEF StageInv, Directions
    <3>2. Delivered("client") = Run(Top, 0)
      BY <1>1, <2>1, <3>1 DEF DownInv, TypeOK
    <3>3. QED
      BY <1>2, <3>2
  <2>2. CASE cp["down"] # "none"
    <3>1. PICK w, y \in Nat : /\ w <= y /\ y <= sent["server"]
                              /\ Delivered("client") = Run(Top, w)
      BY <1>1, <2>2 DEF DownInv
    <3>2. w <= sent["server"]
      BY <1>2, <3>1
    <3>3. QED
      BY <3>1, <3>2
  <2>3. QED
    BY <2>1, <2>2
<1>4. Intended("client") = Run(Top, sent["server"])
  BY <1>1, IntendedIs
<1>5. Top <= w /\ w \in Int /\ sent["server"] \in Int
  BY <1>2
<1>6. IsPrefix(Run(Top, w), Run(Top, sent["server"]))
  BY <1>2, <1>3, <1>5, RunPrefix
<1>7. QED
  BY <1>3, <1>4, <1>6

(* Nothing is left of a direction that ended by itself. *)
LEMMA AllThrough ==
  ASSUME Inv, rst = {}, timedOut = {}, NEW d \in Directions, cp[d] = "exited"
  PROVE  str[From(d)].fin /\ Delivered(Target(d)) = Intended(Target(d))
<1>1. /\ TypeOK /\ conf \in Configs /\ sent \in [Peers -> Nat]
      /\ UpInv /\ DownInv /\ StageInv /\ EndInv
  BY TypeFacts DEF Inv, Typed
<1>2. Dry(d)
  BY <1>1 DEF EndInv, Dry
<1>3. CASE d = "up"
  <2>1. str["c2p"].q = <<>> /\ buf["up"] = <<>> /\ br = <<>>
    BY <1>2, <1>3 DEF Dry, From, Out, Source, Buffered
  <2>2. Flowing /\ pend = <<>>
    BY <1>1, <1>3 DEF UpInv
  <2>3. PICK w, x, y, z \in Nat :
          /\ Base <= w /\ w <= x /\ x <= y /\ y <= z /\ z <= sent["client"]
          /\ Delivered("server") = Run(Base, w)
          /\ Chunked(pend, w, x)
          /\ buf["up"] = Run(x, y)
          /\ br = Run(y, z)
          /\ str["c2p"].q = Run(z, sent["client"])
    BY <2>2 DEF Flowing
  <2>4. sent["client"] \in Nat /\ Base \in Nat
    BY <1>1 DEF Peers, Base
  <2>5. w = x
    BY <2>2, <2>3, NoChunk
  <2>6. x = y /\ y = z /\ z = sent["client"]
    <3>1. x \in Int /\ y \in Int /\ z \in Int /\ sent["client"] \in Int
      BY <2>4
    <3>2. QED
      BY <2>1, <2>3, <3>1, RunNone
  <2>7. Delivered("server") = Run(Base, sent["client"]) /\ Base <= sent["client"]
    BY <2>3, <2>5, <2>6
  <2>8. Delivered("server") = Intended("server")
    BY <1>1, <2>7, IntendedIs
  <2>9. QED
    BY <1>2, <1>3, <2>8 DEF Dry, Target
<1>4. CASE d = "down"
  <2>1. str["s2p"].q = <<>> /\ buf["down"] = <<>>
    BY <1>2, <1>4 DEF Dry, From, Out, Source
  <2>2. PICK w, y \in Nat : Returning(w, y)
    BY <1>1, <1>4 DEF DownInv, Returning
  <2>3. sent["server"] \in Int /\ w \in Int /\ y \in Int
    BY <1>1 DEF Peers
  <2>4. w = y /\ y = sent["server"]
    BY <2>1, <2>2, <2>3, RunNone DEF Returning
  <2>5. Delivered("client") = Intended("client")
    BY <1>1, <2>2, <2>4, IntendedIs DEF Returning
  <2>6. QED
    BY <1>2, <1>4, <2>5 DEF Dry, Target
<1>5. QED
  BY <1>3, <1>4 DEF Directions

-----------------------------------------------------------------------------
(* Every variable of handle, of the two copying goroutines and of the streams
   keeps its type, and a goroutine that writes has something to write. *)
THEOREM TypeCorrect == Spec => []TypeOK
<1>1. Inv => TypeOK
  BY DEF Inv, Typed
<1>2. QED
  BY Invariance, <1>1, PTL

(* What a peer receives through handle and pipe is what the other one sent, in
   order and without a gap, for any amount of data and any way of cutting it
   into reads, chunks and writes. *)
THEOREM StreamsAreIntact == Spec => []StreamIntact
<1>1. Inv => StreamIntact
  BY UpIntact, DownIntact DEF StreamIntact, Peers
<1>2. QED
  BY Invariance, <1>1, PTL

(* pipe half-closes: without a reset and a deadline, a direction that is shut
   has carried everything its source sent. *)
THEOREM NothingIsTruncated == Spec => []NoTruncation
<1>1. Inv => NoTruncation
  BY AllThrough DEF NoTruncation
<1>2. QED
  BY Invariance, <1>1, PTL

(* splitInChunks and writeChunks never put a whole client hello into one write,
   unless -window-size covers it or it is one byte. *)
THEOREM HelloIsFragmented == Spec => []HelloFragmented
<1>1. Inv => HelloFragmented
  BY DEF Inv
<1>2. QED
  BY Invariance, <1>1, PTL

(* Every way out of handle closes both connections and leaves no goroutine. *)
THEOREM SocketsAreReleased == Spec => []SocketsReleased
<1>1. Inv => SocketsReleased
  BY DEF Inv, StageInv, SocketsReleased
<1>2. QED
  BY Invariance, <1>1, PTL
=============================================================================
