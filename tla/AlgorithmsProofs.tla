-------------------------- MODULE AlgorithmsProofs --------------------------
(***************************************************************************)
(* Theorems about the algorithms without state of MCComponents, for all    *)
(* their inputs, and about the inputs TLC evaluates them on.               *)
(***************************************************************************)
EXTENDS MCComponents, Sums, SequenceTheorems, TLAPS

-----------------------------------------------------------------------------
(* SEQUENCES AND FIRSTS *)

(* Numbers have a least.                                                   *)
LEMMA LeastIn ==
  ASSUME NEW T, T \subseteq Nat, T # {}
  PROVE  \E n \in T : \A m \in T : n <= m
<1> DEFINE R == OpToRel(<, Nat)
<1>1. IsWellFoundedOn(R, Nat)
  BY NatLessThanWellFounded
<1>2. \A m, n \in Nat : m < n => <<m, n>> \in R
  BY DEF OpToRel
<1> HIDE DEF R
<1>3. PICK n \in T : \A m \in T : ~(<<m, n>> \in R)
  BY <1>1, WFMin
<1>4. ASSUME NEW m \in T PROVE n <= m
  <2>1. m \in Nat /\ n \in Nat
    OBVIOUS
  <2>2. ~(m < n)
    BY <1>2, <1>3, <2>1
  <2> QED BY <2>1, <2>2
<1> QED BY <1>4

(* What holds of 0 and of each number up to n after the one before it      *)
(* holds of all of them.                                                   *)
LEMMA CountUp ==
  ASSUME NEW n \in Nat, NEW Reached, 0 \in Reached,
         \A k \in 1 .. n : k - 1 \in Reached => k \in Reached
  PROVE  \A k \in 0 .. n : k \in Reached
<1> DEFINE Bad == {k \in 0 .. n : k \notin Reached}
<1> SUFFICES ASSUME Bad # {} PROVE FALSE
  OBVIOUS
<1>1. Bad \subseteq Nat
  OBVIOUS
<1> HIDE DEF Bad
<1>2. PICK k \in Bad : \A m \in Bad : k <= m
  BY <1>1, LeastIn
<1> USE DEF Bad
<1>3. k \in 1 .. n /\ k - 1 \in 0 .. n /\ k - 1 < k
  BY <1>2
<1>4. k - 1 \in Reached
  BY <1>2, <1>3
<1> QED BY <1>2, <1>3, <1>4

(* Extrema of a set that has them. *)
LEMMA MinIs ==
  ASSUME NEW S \in SUBSET Int, NEW m \in S, \A x \in S : m <= x
  PROVE  Min(S) = m
<1> DEFINE least == CHOOSE x \in S : \A y \in S : x <= y
<1>1. least \in S /\ \A y \in S : least <= y
  <2> SUFFICES \E x \in S : \A y \in S : x <= y
    BY Zenon
  <2> QED OBVIOUS
<1>2. Min(S) = least
  BY DEF Min
<1> HIDE DEF least
<1>3. least <= m /\ m <= least /\ least \in Int /\ m \in Int
  BY <1>1
<1> QED BY <1>2, <1>3

(* What is largest of some numbers is their maximum.                       *)
LEMMA MaxIs ==
  ASSUME NEW S \in SUBSET Int, NEW m \in S, \A x \in S : x <= m
  PROVE  Max(S) = m
<1> DEFINE most == CHOOSE x \in S : \A y \in S : x >= y
<1>1. most \in S /\ \A y \in S : most >= y
  <2>1. \A y \in S : m >= y
    OBVIOUS
  <2> SUFFICES \E x \in S : \A y \in S : x >= y
    BY Zenon
  <2> QED BY <2>1
<1>2. Max(S) = most
  BY DEF Max
<1> HIDE DEF most
<1>3. most <= m /\ m <= most /\ most \in Int /\ m \in Int
  BY <1>1
<1> QED BY <1>2, <1>3

(* The recursion behind a fold: its value on the positions s. *)
Recursion(F, base, n, g) ==
  \A s \in SUBSET (1 .. n) :
    g[s] = IF s = {} THEN base ELSE F[<<g[s \ {Max(s)}], Max(s)>>]

(* Positions have a last, which is their maximum.                          *)
LEMMA MaxOfPositions ==
  ASSUME NEW n \in Nat, NEW s \in SUBSET (1 .. n), s # {}
  PROVE  Max(s) \in s /\ \A i \in s : i <= Max(s)
<1> DEFINE T == {n - i : i \in s}
<1>1. T \subseteq Nat /\ T # {}
  <2>1. \A i \in s : n - i \in Nat
    OBVIOUS
  <2> QED BY <2>1
<1>2. PICK t \in T : \A m \in T : t <= m
  BY <1>1, LeastIn
<1>3. PICK x \in s : t = n - x
  BY <1>2
<1>4. ASSUME NEW i \in s PROVE i <= x
  <2>1. n - i \in T
    OBVIOUS
  <2>2. n - x <= n - i
    BY <1>2, <1>3, <2>1
  <2>3. i \in 1 .. n /\ x \in 1 .. n
    OBVIOUS
  <2> QED BY <2>2, <2>3
<1>5. Max(s) = x
  BY <1>4, MaxIs
<1> QED BY <1>4, <1>5

(* A recursion on sets of positions that takes the last one off has a      *)
(* solution: the smallest set of positions without one would get one from  *)
(* the set without its last.                                               *)
LEMMA RecursionHasSolution ==
  ASSUME NEW n \in Nat, NEW T, NEW base \in T, NEW F \in [T \X (1 .. n) -> T]
  PROVE  \E g \in [SUBSET (1 .. n) -> T] : Recursion(F, base, n, g)
<1> DEFINE Solvable == {k \in 0 .. n : \E g \in [SUBSET (1 .. k) -> T] : Recursion(F, base, k, g)}
<1>1. 0 \in Solvable
  <2> DEFINE g == [s \in SUBSET (1 .. 0) |-> base]
  <2>1. g \in [SUBSET (1 .. 0) -> T]
    OBVIOUS
  <2>2. Recursion(F, base, 0, g)
    BY DEF Recursion
  <2> QED BY <2>1, <2>2
<1>2. ASSUME NEW k \in 1 .. n, k - 1 \in Solvable
      PROVE  k \in Solvable
  <2>1. PICK g \in [SUBSET (1 .. (k - 1)) -> T] : Recursion(F, base, k - 1, g)
    BY <1>2
  <2> DEFINE Rest(s) == s \ {k}
             h == [s \in SUBSET (1 .. k) |->
                    IF k \in s THEN F[<<g[Rest(s)], k>>] ELSE g[s]]
  <2>2. ASSUME NEW s \in SUBSET (1 .. k)
        PROVE  Rest(s) \in SUBSET (1 .. (k - 1)) /\ (k \notin s => Rest(s) = s)
    OBVIOUS
  <2>3. ASSUME NEW s \in SUBSET (1 .. (k - 1))
        PROVE  s \in SUBSET (1 .. k) /\ h[s] = g[s] /\ k \notin s
    OBVIOUS
  <2>4. h \in [SUBSET (1 .. k) -> T]
    <3> SUFFICES ASSUME NEW s \in SUBSET (1 .. k)
                 PROVE  (IF k \in s THEN F[<<g[Rest(s)], k>>] ELSE g[s]) \in T
      OBVIOUS
    <3>1. CASE k \in s
      <4>1. g[Rest(s)] \in T
        BY <2>2
      <4> QED BY <3>1, <4>1
    <3>2. CASE k \notin s
      BY <2>2, <3>2
    <3> QED BY <3>1, <3>2
  <2>5. ASSUME NEW s \in SUBSET (1 .. k)
        PROVE  h[s] = IF s = {} THEN base ELSE F[<<h[s \ {Max(s)}], Max(s)>>]
    <3>1. CASE k \in s
      <4>1. Max(s) = k
        <5>1. s \in SUBSET Int /\ \A x \in s : x <= k
          OBVIOUS
        <5> QED BY <3>1, <5>1, MaxIs
      <4>2. h[Rest(s)] = g[Rest(s)]
        BY <2>2, <2>3
      <4>3. h[s] = F[<<g[Rest(s)], k>>]
        BY <3>1
      <4> QED BY <3>1, <4>1, <4>2, <4>3
    <3>2. CASE k \notin s
      <4>1. s \in SUBSET (1 .. (k - 1)) /\ h[s] = g[s]
        BY <2>2, <2>3, <3>2
      <4>2. g[s] = IF s = {} THEN base ELSE F[<<g[s \ {Max(s)}], Max(s)>>]
        BY <2>1, <4>1 DEF Recursion
      <4>3. s # {} => h[s \ {Max(s)}] = g[s \ {Max(s)}]
        <5>1. s \ {Max(s)} \in SUBSET (1 .. (k - 1))
          BY <4>1
        <5> QED BY <2>3, <5>1
      <4> QED BY <4>1, <4>2, <4>3
    <3> QED BY <3>1, <3>2
  <2> HIDE DEF h
  <2>6. Recursion(F, base, k, h)
    BY <2>5 DEF Recursion
  <2> QED BY <2>4, <2>6
<1> HIDE DEF Solvable
<1>3. \A k \in 0 .. n : k \in Solvable
  BY <1>1, <1>2, CountUp
<1>4. n \in Solvable
  BY <1>3
<1> QED BY <1>4 DEF Solvable

(* Along the positions a solution is an accumulator. *)
LEMMA Accumulates ==
  ASSUME NEW n \in Nat, NEW k \in 1 .. n
  PROVE  /\ 1 .. k \in SUBSET (1 .. n) /\ 1 .. k # {} /\ Max(1 .. k) = k
         /\ (1 .. k) \ {Max(1 .. k)} = 1 .. (k - 1)
<1>1. 1 .. k \in SUBSET (1 .. n) /\ 1 .. k # {} /\ (1 .. k) \in SUBSET Int
  OBVIOUS
<1>2. k \in 1 .. k /\ \A x \in 1 .. k : x <= k
  OBVIOUS
<1>3. Max(1 .. k) = k
  BY <1>1, <1>2, MaxIs
<1> QED BY <1>1, <1>3

-----------------------------------------------------------------------------
(* THE GATES (Gates) *)

(* A verdict is the first refusal that applies. *)
LEMMA FirstRefusal ==
  ASSUME NEW refusals, NEW n \in Nat, DOMAIN refusals = 1 .. n,
         NEW k \in 1 .. n, refusals[k][2], \A i \in 1 .. (k - 1) : ~refusals[i][2]
  PROVE  Verdict(refusals) = refusals[k][1]
<1> DEFINE hits == {i \in DOMAIN refusals : refusals[i][2]}
<1>1. hits \in SUBSET Int /\ k \in hits
  <2>1. \A i \in 1 .. n : i \in Int
    OBVIOUS
  <2> QED BY <2>1, Zenon
<1>2. ASSUME NEW i \in hits PROVE k <= i
  <2>1. i \in 1 .. n /\ k \in 1 .. n /\ refusals[i][2]
    OBVIOUS
  <2>2. i \notin 1 .. (k - 1)
    BY <2>1, Zenon
  <2> QED BY <2>1, <2>2
<1> HIDE DEF hits
<1>3. Min(hits) = k
  BY <1>1, <1>2, MinIs
<1> QED BY <1>1, <1>3 DEF Verdict, hits

(* What nobody refuses is approved.                                        *)
LEMMA NoRefusal ==
  ASSUME NEW refusals, \A i \in DOMAIN refusals : ~refusals[i][2]
  PROVE  Verdict(refusals) = "approved"
BY DEF Verdict

(* The floats of Gates: not a number, a number, or infinity above them all.*)
Float == {NaN} \cup {{n} : n \in {n \in Int : n <= Infinity}}

(* The verdict is the first of the refusals that hold; so for the four of  *)
(* Python and the six of Rust.                                             *)
LEMMA FourRefusals ==
  ASSUME NEW r, DOMAIN r = 1 .. 4
  PROVE  Verdict(r) = IF r[1][2] THEN r[1][1] ELSE IF r[2][2] THEN r[2][1]
                      ELSE IF r[3][2] THEN r[3][1] ELSE IF r[4][2] THEN r[4][1]
                      ELSE "approved"
<1>1. 4 \in Nat /\ \A i \in 1 .. 4 : i = 1 \/ i = 2 \/ i = 3 \/ i = 4
  OBVIOUS
<1>2. ASSUME NEW k \in 1 .. 4, r[k][2], \A i \in 1 .. (k - 1) : ~r[i][2]
      PROVE  Verdict(r) = r[k][1]
  BY <1>1, <1>2, FirstRefusal
<1>3. (\A i \in 1 .. 4 : ~r[i][2]) => Verdict(r) = "approved"
  BY NoRefusal
<1> QED BY <1>1, <1>2, <1>3

LEMMA SixRefusals ==
  ASSUME NEW r, DOMAIN r = 1 .. 6
  PROVE  Verdict(r) = IF r[1][2] THEN r[1][1] ELSE IF r[2][2] THEN r[2][1]
                      ELSE IF r[3][2] THEN r[3][1] ELSE IF r[4][2] THEN r[4][1]
                      ELSE IF r[5][2] THEN r[5][1] ELSE IF r[6][2] THEN r[6][1]
                      ELSE "approved"
<1>1. 6 \in Nat /\ \A i \in 1 .. 6 : i = 1 \/ i = 2 \/ i = 3 \/ i = 4 \/ i = 5 \/ i = 6
  OBVIOUS
<1>2. ASSUME NEW k \in 1 .. 6, r[k][2], \A i \in 1 .. (k - 1) : ~r[i][2]
      PROVE  Verdict(r) = r[k][1]
  BY <1>1, <1>2, FirstRefusal
<1>3. (\A i \in 1 .. 6 : ~r[i][2]) => Verdict(r) = "approved"
  BY NoRefusal
<1> QED BY <1>1, <1>2, <1>3

(* The gates as decisions one after another.                               *)
PythonWord(limits, snapshot, notional) ==
  IF snapshot.kill THEN "kill switch"
  ELSE IF AtMost(notional, Zero) \/ Less(limits.order, notional) THEN "order"
  ELSE IF Less(limits.open, Plus(snapshot.open, notional)) THEN "open"
  ELSE IF Less(Times(snapshot.equity, limits.fraction), snapshot.loss) THEN "loss"
  ELSE "approved"

LEMMA PythonVerdict ==
  ASSUME NEW limits, NEW snapshot, NEW notional, snapshot.kill \in BOOLEAN
  PROVE  PythonGate(limits, snapshot, notional) = PythonWord(limits, snapshot, notional)
<1> DEFINE r == PythonRefusals(limits, snapshot, notional)
           A == snapshot.kill
           B == AtMost(notional, Zero) \/ Less(limits.order, notional)
           C == Less(limits.open, Plus(snapshot.open, notional))
           D == Less(Times(snapshot.equity, limits.fraction), snapshot.loss)
<1>1. A \in BOOLEAN /\ B \in BOOLEAN /\ C \in BOOLEAN /\ D \in BOOLEAN
  BY Zenon DEF Less, AtMost
<1>2. r = << <<"kill switch", A>>, <<"order", B>>, <<"open", C>>, <<"loss", D>> >>
  BY Zenon DEF PythonRefusals
<1> HIDE DEF r, A, B, C, D
<1>5. DOMAIN r = 1 .. 4
  <2>1. DOMAIN << <<"kill switch", A>>, <<"order", B>>, <<"open", C>>, <<"loss", D>> >> = 1 .. 4
    OBVIOUS
  <2> QED BY <1>2, <2>1, Zenon
<1>6. r[1][1] = "kill switch" /\ r[2][1] = "order" /\ r[3][1] = "open" /\ r[4][1] = "loss"
  BY <1>2
<1>7. r[1][2] = A /\ r[2][2] = B /\ r[3][2] = C /\ r[4][2] = D
  BY <1>2
<1>3. /\ DOMAIN r = 1 .. 4
      /\ (r[1][2] <=> A) /\ (r[2][2] <=> B) /\ (r[3][2] <=> C) /\ (r[4][2] <=> D)
      /\ r[1][1] = "kill switch" /\ r[2][1] = "order" /\ r[3][1] = "open"
      /\ r[4][1] = "loss"
  BY <1>1, <1>5, <1>6, <1>7
<1>4. Verdict(r) =
        IF A THEN "kill switch" ELSE IF B THEN "order" ELSE IF C THEN "open"
        ELSE IF D THEN "loss" ELSE "approved"
  BY <1>3, FourRefusals, Zenon
<1> QED BY <1>4, Zenon DEF A, B, C, D, PythonGate, PythonWord, r

RustWord(limits, snapshot, notional) ==
  IF snapshot.kill THEN "kill switch"
  ELSE IF ~IsFinite(notional) \/ AtMost(notional, Zero) THEN "invalid"
  ELSE IF \E x \in {snapshot.equity, snapshot.open, snapshot.loss,
                    limits.order, limits.open, limits.fraction} : ~IsFinite(x)
       THEN "invalid"
  ELSE IF Less(limits.order, notional) THEN "order"
  ELSE IF Less(limits.open, Plus(snapshot.open, notional)) THEN "open"
  ELSE IF Less(Times(snapshot.equity, limits.fraction), snapshot.loss) THEN "loss"
  ELSE "approved"

LEMMA RustVerdict ==
  ASSUME NEW limits, NEW snapshot, NEW notional, snapshot.kill \in BOOLEAN
  PROVE  Verdict(RustRefusals(limits, snapshot, notional)) =
           RustWord(limits, snapshot, notional)
<1> DEFINE r == RustRefusals(limits, snapshot, notional)
           A == snapshot.kill
           B == ~IsFinite(notional) \/ AtMost(notional, Zero)
           C == \E x \in {snapshot.equity, snapshot.open, snapshot.loss,
                          limits.order, limits.open, limits.fraction} : ~IsFinite(x)
           D == Less(limits.order, notional)
           E == Less(limits.open, Plus(snapshot.open, notional))
           F == Less(Times(snapshot.equity, limits.fraction), snapshot.loss)
<1>1. /\ A \in BOOLEAN /\ B \in BOOLEAN /\ C \in BOOLEAN
      /\ D \in BOOLEAN /\ E \in BOOLEAN /\ F \in BOOLEAN
  BY Zenon DEF Less, AtMost
<1>2. r = << <<"kill switch", A>>, <<"invalid", B>>, <<"invalid", C>>, <<"order", D>>,
             <<"open", E>>, <<"loss", F>> >>
  BY Zenon DEF RustRefusals
<1> HIDE DEF r, A, B, C, D, E, F
<1>3. DOMAIN r = 1 .. 6
  <2>1. DOMAIN << <<"kill switch", A>>, <<"invalid", B>>, <<"invalid", C>>, <<"order", D>>,
                  <<"open", E>>, <<"loss", F>> >> = 1 .. 6
    OBVIOUS
  <2> QED BY <1>2, <2>1, Zenon
<1>4. /\ r[1][1] = "kill switch" /\ r[2][1] = "invalid" /\ r[3][1] = "invalid"
      /\ r[4][1] = "order" /\ r[5][1] = "open" /\ r[6][1] = "loss"
  BY <1>2
<1>5. r[1][2] = A /\ r[2][2] = B /\ r[3][2] = C /\ r[4][2] = D /\ r[5][2] = E /\ r[6][2] = F
  BY <1>2
<1>6. /\ (r[1][2] <=> A) /\ (r[2][2] <=> B) /\ (r[3][2] <=> C)
      /\ (r[4][2] <=> D) /\ (r[5][2] <=> E) /\ (r[6][2] <=> F)
  BY <1>1, <1>5
<1>7. Verdict(r) =
        IF A THEN "kill switch" ELSE IF B THEN "invalid" ELSE IF C THEN "invalid"
        ELSE IF D THEN "order" ELSE IF E THEN "open" ELSE IF F THEN "loss"
        ELSE "approved"
  BY <1>3, <1>4, <1>6, SixRefusals, Zenon
<1> QED BY <1>7, Zenon DEF A, B, C, D, E, F, RustWord, r

(* The code of a verdict in the C ABI.                                     *)
CodeFor(word) ==
  IF word = "approved" THEN 0 ELSE CHOOSE code \in DOMAIN Codes : Codes[code] = word

LEMMA CodeOf ==
  /\ CodeFor("approved") = 0 /\ CodeFor("kill switch") = 1 /\ CodeFor("invalid") = 2
  /\ CodeFor("order") = 3 /\ CodeFor("open") = 4 /\ CodeFor("loss") = 5
<1>1. DOMAIN Codes = 1 .. 5
  BY DEF Codes
<1>2. \A code \in 1 .. 5 : code = 1 \/ code = 2 \/ code = 3 \/ code = 4 \/ code = 5
  OBVIOUS
<1>3. 1 \in 1 .. 5 /\ 2 \in 1 .. 5 /\ 3 \in 1 .. 5 /\ 4 \in 1 .. 5 /\ 5 \in 1 .. 5
  OBVIOUS
<1>4. /\ Codes[1] = "kill switch" /\ Codes[2] = "invalid" /\ Codes[3] = "order"
      /\ Codes[4] = "open" /\ Codes[5] = "loss"
  BY DEF Codes
<1>5. ASSUME NEW word, NEW k \in 1 .. 5, Codes[k] = word, word # "approved"
      PROVE  CodeFor(word) = k
  <2> DEFINE code == CHOOSE code \in DOMAIN Codes : Codes[code] = word
  <2>1. code \in DOMAIN Codes /\ Codes[code] = word
    BY <1>1, <1>5, Zenon
  <2> HIDE DEF code
  <2>2. code = k
    BY <1>1, <1>2, <1>4, <1>5, <2>1
  <2> QED BY <1>5, <2>2 DEF code, CodeFor
<1>6. CodeFor("approved") = 0
  BY DEF CodeFor
<1> QED BY <1>3, <1>4, <1>5, <1>6

(* What is approved nobody refuses.                                        *)
LEMMA ApprovedMeans ==
  ASSUME NEW r, NEW n \in Nat, DOMAIN r = 1 .. n, \A i \in 1 .. n : r[i][1] # "approved",
         Verdict(r) = "approved"
  PROVE  \A i \in 1 .. n : ~r[i][2]
<1> SUFFICES ASSUME NEW i \in 1 .. n, r[i][2] PROVE FALSE
  OBVIOUS
<1> DEFINE hits == {j \in 1 .. n : r[j][2]}
<1>1. hits \subseteq Nat /\ hits # {}
  <2>1. \A j \in 1 .. n : j \in Nat
    OBVIOUS
  <2> QED BY <2>1, Zenon
<1>2. PICK k \in hits : \A m \in hits : k <= m
  <2> HIDE DEF hits
  <2> QED BY <1>1, LeastIn
<1>3. k \in 1 .. n /\ r[k][2]
  BY <1>2, Zenon
<1>4. ASSUME NEW j \in 1 .. (k - 1) PROVE ~r[j][2]
  <2>1. j \in 1 .. n /\ ~(k <= j)
    BY <1>3
  <2> QED BY <1>2, <2>1, Zenon
<1>5. Verdict(r) = r[k][1]
  BY <1>3, <1>4, FirstRefusal
<1> QED BY <1>3, <1>5

(* What OCaml has looked at when it approves.                              *)
LEMMA OCamlApproved ==
  ASSUME NEW config, NEW price, NEW quantity \in Int, config.kill \in BOOLEAN,
         OCamlGate(config, price, quantity) = "approved"
  PROVE  /\ IsFinite(price) /\ ~AtMost(price, Zero) /\ quantity > 0
         /\ ~Less(config.order, OCamlNotional(price, quantity))
         /\ ~config.kill
         /\ IsFinite(config.order)
<1> DEFINE r == OCamlRefusals(config, price, quantity)
           A == ~IsFinite(price) \/ AtMost(price, Zero)
           B == quantity <= 0
           C == Less(config.order, OCamlNotional(price, quantity))
           D == ~config.paper
           E == config.kill
           F == ~IsFinite(config.order) \/ AtMost(config.order, Zero)
           G == ~config.modelApproved
<1>1. A \in BOOLEAN /\ B \in BOOLEAN /\ C \in BOOLEAN /\ E \in BOOLEAN /\ F \in BOOLEAN
  <2>1. B \in BOOLEAN
    OBVIOUS
  <2> QED BY <2>1, Zenon DEF Less, AtMost
<1>2. r = << <<"price", A>>, <<"size", B>>, <<"order", C>>, <<"paper mode", D>>,
             <<"kill switch", E>>, <<"limit", F>>, <<"model", G>> >>
  BY Zenon DEF OCamlRefusals
<1>8. Verdict(r) = "approved"
  BY DEF OCamlGate
<1> HIDE DEF r, A, B, C, D, E, F, G
<1>3. DOMAIN r = 1 .. 7
  <2>1. DOMAIN << <<"price", A>>, <<"size", B>>, <<"order", C>>, <<"paper mode", D>>,
             <<"kill switch", E>>, <<"limit", F>>, <<"model", G>> >> = 1 .. 7
    OBVIOUS
  <2> QED BY <1>2, <2>1, Zenon
<1>4. /\ r[1][1] = "price" /\ r[2][1] = "size" /\ r[3][1] = "order"
      /\ r[4][1] = "paper mode" /\ r[5][1] = "kill switch" /\ r[6][1] = "limit"
      /\ r[7][1] = "model"
  BY <1>2
<1>5. r[1][2] = A /\ r[2][2] = B /\ r[3][2] = C /\ r[5][2] = E /\ r[6][2] = F
  BY <1>2
<1>6. /\ (r[1][2] <=> A) /\ (r[2][2] <=> B) /\ (r[3][2] <=> C)
      /\ (r[5][2] <=> E) /\ (r[6][2] <=> F)
  BY <1>1, <1>5
<1>7. \A i \in 1 .. 7 : ~r[i][2]
  <2>1. \A i \in 1 .. 7 : r[i][1] # "approved"
    <3>1. \A i \in 1 .. 7 : i = 1 \/ i = 2 \/ i = 3 \/ i = 4 \/ i = 5 \/ i = 6 \/ i = 7
      OBVIOUS
    <3> QED BY <1>4, <3>1
  <2>2. 7 \in Nat
    OBVIOUS
  <2> QED BY <1>3, <1>8, <2>1, <2>2, ApprovedMeans
<1>9. ~A /\ ~B /\ ~C /\ ~E /\ ~F
  <2>1. 1 \in 1 .. 7 /\ 2 \in 1 .. 7 /\ 3 \in 1 .. 7 /\ 5 \in 1 .. 7 /\ 6 \in 1 .. 7
    OBVIOUS
  <2> QED BY <1>6, <1>7, <2>1, Zenon
<1> QED BY <1>9 DEF A, B, C, E, F

(* Products keep the order of their factors.                               *)
LEMMA Multiplied ==
  ASSUME NEW a \in Int, NEW b \in Int, NEW c \in Int, a > 0, b <= c
  PROVE  a * b <= a * c
OBVIOUS

(* OCaml counts a hundred shares to a contract: an order it lets pass is   *)
(* no larger with fewer.                                                   *)
LEMMA LargerContract ==
  ASSUME NEW order \in Float, NEW price \in Float, NEW quantity \in Int, quantity > 0,
         NEW multiplier \in Int, multiplier >= 1, multiplier <= 100,
         IsFinite(price), ~AtMost(price, Zero), IsFinite(order),
         ~Less(order, OCamlNotional(price, quantity))
  PROVE  LET notional == Notional(price, quantity, multiplier) IN
         ~AtMost(notional, Zero) /\ ~Less(order, notional)
<1>1. PICK p \in Int : price = {p} /\ p > 0 /\ p < Infinity
  BY InfinityAssumption DEF Float, IsFinite, AtMost, Zero
<1>2. PICK o \in Int : order = {o} /\ o < Infinity
  BY InfinityAssumption DEF Float, IsFinite
<1> DEFINE small == quantity * multiplier
           large == quantity * 100
<1>3. small \in Int /\ large \in Int /\ small <= large
  BY Multiplied
<1>4. small >= 1
  BY Multiplied
<1> HIDE DEF small, large
<1>5. p * small \in Int /\ p * large \in Int /\ p * small <= p * large
  BY <1>1, <1>3, Multiplied
<1>6. p * small >= small
  BY <1>1, <1>3, <1>4
<1>7. ASSUME NEW x \in Int, x >= 1
      PROVE  Times(price, {x}) = {IF Infinity \in {p, x} THEN Infinity ELSE p * x}
  <2>1. {price, {x}} # {Zero, {Infinity}}
    BY <1>1, <1>7 DEF Zero
  <2> QED BY <1>1, <2>1 DEF Times
<1>8. Notional(price, quantity, multiplier) =
        {IF small = Infinity THEN Infinity ELSE p * small}
  <2>1. Times(price, {small}) = {IF Infinity \in {p, small} THEN Infinity ELSE p * small}
    BY <1>3, <1>4, <1>7
  <2>2. Notional(price, quantity, multiplier) = Times(price, {small})
    BY Zenon DEF Notional, small
  <2> QED BY <1>1, <2>1, <2>2
<1>9. OCamlNotional(price, quantity) = {IF large = Infinity THEN Infinity ELSE p * large}
  <2>1. Times(price, {large}) = {IF Infinity \in {p, large} THEN Infinity ELSE p * large}
    BY <1>3, <1>4, <1>7
  <2>2. OCamlNotional(price, quantity) = Times(price, {large})
    BY Zenon DEF OCamlNotional, large
  <2> QED BY <1>1, <2>1, <2>2
<1>10. large # Infinity /\ p * large <= o
  BY <1>2, <1>5, <1>9, InfinityAssumption DEF Less
<1>11. p * small <= o /\ small # Infinity
  BY <1>2, <1>5, <1>6, <1>10, <1>3, InfinityAssumption
<1>12. Notional(price, quantity, multiplier) = {p * small}
  BY <1>8, <1>11
<1> QED BY <1>2, <1>3, <1>4, <1>5, <1>6, <1>11, <1>12 DEF AtMost, Less, Zero

Snapshot == [equity : Float, open : Float, loss : Float, kill : BOOLEAN]
LimitSettings == [order : Float, open : Float, fraction : Float]

(* The kill switch crosses the C ABI as a number and is the same after.    *)
LEMMA SameSnapshot ==
  ASSUME NEW snapshot \in Snapshot
  PROVE  [snapshot EXCEPT !.kill = ((IF snapshot.kill THEN 1 ELSE 0) # 0)] = snapshot
<1>1. ((IF snapshot.kill THEN 1 ELSE 0) # 0) = snapshot.kill
  BY DEF Snapshot
<1> QED BY <1>1 DEF Snapshot

LEMMA RustCode ==
  ASSUME NEW limits, NEW snapshot \in Snapshot, NEW notional
  PROVE  RustGateCode(limits, snapshot, IF snapshot.kill THEN 1 ELSE 0, notional) =
           CodeFor(RustWord(limits, snapshot, notional))
<1> DEFINE other == [snapshot EXCEPT !.kill = ((IF snapshot.kill THEN 1 ELSE 0) # 0)]
<1>1. other = snapshot
  BY SameSnapshot
<1>2. RustGateCode(limits, snapshot, IF snapshot.kill THEN 1 ELSE 0, notional) =
        CodeFor(Verdict(RustRefusals(limits, other, notional)))
  BY Zenon DEF RustGateCode, CodeFor
<1> HIDE DEF other
<1>3. snapshot.kill \in BOOLEAN
  BY DEF Snapshot
<1> QED BY <1>1, <1>2, <1>3, RustVerdict

(* For every limit, order and snapshot, NaN and infinity included: Rust    *)
(* decides as Python wherever all numbers are finite and admits nothing    *)
(* that Python refuses, and OCaml admits no order of a size that Python    *)
(* refuses (RiskGate.approve, optivio_risk approve, validate_order).       *)
THEOREM GatesAlike ==
  ASSUME NEW limits \in LimitSettings, NEW snapshot \in Snapshot, NEW price \in Float,
         NEW quantity \in Int, NEW multiplier \in Int, multiplier >= 1
  PROVE  GatesAgree(limits, snapshot, price, quantity, multiplier)
<1> DEFINE notional == Notional(price, quantity, multiplier)
           kill == snapshot.kill
           empty == AtMost(notional, Zero)
           large == Less(limits.order, notional)
           open == Less(limits.open, Plus(snapshot.open, notional))
           loss == Less(Times(snapshot.equity, limits.fraction), snapshot.loss)
           numbers == \A x \in {snapshot.equity, snapshot.open, snapshot.loss,
                                limits.order, limits.open, limits.fraction} : IsFinite(x)
           python == PythonGate(limits, snapshot, notional)
           code == RustGateCode(limits, snapshot, IF snapshot.kill THEN 1 ELSE 0, notional)
           config == [order |-> limits.order, kill |-> snapshot.kill,
                      paper |-> TRUE, modelApproved |-> TRUE]
           ocaml == OCamlGate(config, price, quantity)
           word == IF kill THEN "kill switch"
                   ELSE IF ~IsFinite(notional) \/ empty \/ ~numbers THEN "invalid"
                   ELSE IF large THEN "order" ELSE IF open THEN "open"
                   ELSE IF loss THEN "loss" ELSE "approved"
<1>1. snapshot.kill \in BOOLEAN
  BY DEF Snapshot
<1>2. python = IF kill THEN "kill switch" ELSE IF empty \/ large THEN "order"
               ELSE IF open THEN "open" ELSE IF loss THEN "loss" ELSE "approved"
  <2>1. python = PythonWord(limits, snapshot, notional)
    BY <1>1, PythonVerdict
  <2> QED BY <2>1, Zenon DEF PythonWord
<1>4. code = CodeFor(word)
  <2>1. RustWord(limits, snapshot, notional) = word
    BY Zenon DEF RustWord
  <2> QED BY <2>1, RustCode, Zenon
<1>5. ocaml = "approved" /\ multiplier <= 100 => ~kill /\ ~empty /\ ~large
  <2> SUFFICES ASSUME ocaml = "approved", multiplier <= 100
               PROVE  ~kill /\ ~empty /\ ~large
    OBVIOUS
  <2>1. /\ config.kill \in BOOLEAN /\ config.kill = kill /\ config.order = limits.order
    BY <1>1
  <2> HIDE DEF config
  <2>2. /\ IsFinite(price) /\ ~AtMost(price, Zero) /\ quantity > 0
        /\ ~Less(limits.order, OCamlNotional(price, quantity))
        /\ ~kill /\ IsFinite(limits.order)
    BY <2>1, OCamlApproved
  <2>3. limits.order \in Float
    BY DEF LimitSettings
  <2> QED BY <2>2, <2>3, LargerContract
<1>6. Codes[1] = "kill switch" /\ Codes[4] = "open" /\ Codes[5] = "loss" /\ Codes[3] = "order"
  BY DEF Codes
<1>9. kill \in BOOLEAN /\ empty \in BOOLEAN /\ large \in BOOLEAN /\ open \in BOOLEAN /\ loss \in BOOLEAN
  BY <1>1 DEF AtMost, Less
<1>10. /\ (\A x \in {snapshot.equity, snapshot.open, snapshot.loss, notional,
                      limits.order, limits.open, limits.fraction} : IsFinite(x))
          => numbers /\ IsFinite(notional)
  BY Zenon
<1> HIDE DEF notional, empty, large, open, loss, numbers, python, code, ocaml, kill
<1>7. /\ numbers /\ IsFinite(notional) => Reason(code) = python
      /\ code = 0 => python = "approved"
      /\ ocaml = "approved" /\ multiplier <= 100 => python \notin {"kill switch", "order"}
  <2>3. /\ word = "approved" => code = 0
        /\ word = "kill switch" => code = 1
        /\ word = "invalid" => code = 2
        /\ word = "order" => code = 3
        /\ word = "open" => code = 4
        /\ word = "loss" => code = 5
    <3> HIDE DEF word
    <3> QED BY <1>4, CodeOf
  <2>1. code = IF kill THEN 1
               ELSE IF ~IsFinite(notional) \/ empty \/ ~numbers THEN 2
               ELSE IF large THEN 3 ELSE IF open THEN 4 ELSE IF loss THEN 5 ELSE 0
    BY <1>9, <2>3
  <2>2. ASSUME numbers, IsFinite(notional) PROVE Reason(code) = python
    <3>1. Reason(0) = "approved" /\ Reason(1) = "kill switch" /\ Reason(2) = "order"
          /\ Reason(3) = "order" /\ Reason(4) = "open" /\ Reason(5) = "loss"
      <4>1. 1 # 0 /\ 3 # 0 /\ 4 # 0 /\ 5 # 0 /\ 1 # 2 /\ 3 # 2 /\ 4 # 2 /\ 5 # 2 /\ 2 # 0
        OBVIOUS
      <4> QED BY <1>6, <4>1, Zenon DEF Reason
    <3>2. code = IF kill THEN 1 ELSE IF empty THEN 2 ELSE IF large THEN 3
                 ELSE IF open THEN 4 ELSE IF loss THEN 5 ELSE 0
      BY <2>1, <2>2
    <3> QED BY <1>2, <1>9, <3>1, <3>2
  <2>5. code = 0 => python = "approved"
    <3>1. code = 0 => ~kill /\ ~empty /\ ~large /\ ~open /\ ~loss
      BY <1>9, <2>1
    <3> QED BY <1>2, <1>9, <3>1
  <2>4. ocaml = "approved" /\ multiplier <= 100 => python \notin {"kill switch", "order"}
    BY <1>2, <1>5, <1>9
  <2> QED BY <2>2, <2>4, <2>5
<1> QED BY <1>7, <1>10, Zenon DEF GatesAgree, notional, numbers, python, code, ocaml

-----------------------------------------------------------------------------
(* FOLDS OVER SEQUENCES *)

(* A fold over the first n positions accumulates: what holds of a solution *)
(* of its recursion.                                                       *)
LEMMA SolutionRuns ==
  ASSUME NEW n \in Nat, NEW F, NEW base, NEW g, Recursion(F, base, n, g)
  PROVE  g[1 .. 0] = base /\ \A k \in 1 .. n : g[1 .. k] = F[<<g[1 .. (k - 1)], k>>]
<1>1. g[1 .. 0] = base
  <2>1. 1 .. 0 = {}
    OBVIOUS
  <2> QED BY <2>1 DEF Recursion
<1>2. ASSUME NEW k \in 1 .. n PROVE g[1 .. k] = F[<<g[1 .. (k - 1)], k>>]
  <2>1. /\ 1 .. k \in SUBSET (1 .. n) /\ 1 .. k # {} /\ Max(1 .. k) = k
        /\ (1 .. k) \ {Max(1 .. k)} = 1 .. (k - 1)
    BY Accumulates
  <2>2. g[1 .. k] = F[<<g[(1 .. k) \ {Max(1 .. k)}], Max(1 .. k)>>]
    BY <2>1, Zenon DEF Recursion
  <2> QED BY <2>1, <2>2, Zenon
<1> QED BY <1>1, <1>2

(* acc accumulates by F from base. *)
Runs(acc, F, base, n) ==
  acc[0] = base /\ \A k \in 1 .. n : acc[k] = F[<<acc[k - 1], k>>]

(* The recursion, run along the positions: an accumulator, and what it is  *)
(* made of at each of them.                                                *)
LEMMA RecursionRuns ==
  ASSUME NEW n \in Nat, NEW T, NEW base \in T, NEW F \in [T \X (1 .. n) -> T]
  PROVE  \E acc \in [0 .. n -> T] : Runs(acc, F, base, n)
<1>1. PICK g \in [SUBSET (1 .. n) -> T] : Recursion(F, base, n, g)
  BY RecursionHasSolution
<1>2. g[1 .. 0] = base /\ \A k \in 1 .. n : g[1 .. k] = F[<<g[1 .. (k - 1)], k>>]
  BY <1>1, SolutionRuns
<1> DEFINE acc == [k \in 0 .. n |-> g[1 .. k]]
<1>3. \A k \in 0 .. n : acc[k] = g[1 .. k] /\ acc[k] \in T
  <2>1. \A k \in 0 .. n : 1 .. k \in SUBSET (1 .. n)
    OBVIOUS
  <2> QED BY <1>1, <2>1
<1>4. acc \in [0 .. n -> T]
  BY <1>3
<1> HIDE DEF acc
<1>5. acc[0] = base
  BY <1>2, <1>3
<1>6. ASSUME NEW k \in 1 .. n PROVE acc[k] = F[<<acc[k - 1], k>>]
  <2>1. k \in 0 .. n /\ k - 1 \in 0 .. n
    OBVIOUS
  <2> QED BY <1>2, <1>3, <2>1
<1> QED BY <1>4, <1>5, <1>6 DEF Runs

(* Sequences as functions, and what they are joined to.                    *)
LEMMA SequenceIsFunction ==
  ASSUME NEW X, NEW s \in Seq(X)
  PROVE  s = [i \in 1 .. Len(s) |-> s[i]]
OBVIOUS

(* FlattenSeq adds one of the sequences to the end at each position. *)
FlattenBody(seqs, g) ==
  [i \in 1 .. Len(seqs) |-> IF i = 1 THEN seqs[i] ELSE g[i - 1] \o seqs[i]]
FlattenIter(seqs) == CHOOSE g : g = FlattenBody(seqs, g)

LEMMA FlattenIsIter ==
  ASSUME NEW seqs, Len(seqs) # 0
  PROVE  FlattenSeq(seqs) = FlattenIter(seqs)[Len(seqs)]
BY DEF FlattenSeq, FlattenIter, FlattenBody

LEMMA JoinedType ==
  ASSUME NEW X, NEW s \in Seq(X), NEW t \in Seq(X)
  PROVE  s \o t \in Seq(X)
OBVIOUS

(* FlattenSeq joins one sequence after the other.                          *)
LEMMA FlattenRuns ==
  ASSUME NEW X, NEW n \in Nat, NEW seqs \in [1 .. n -> Seq(X)]
  PROVE  \E acc \in [0 .. n -> Seq(X)] :
           /\ acc[0] = << >>
           /\ \A k \in 1 .. n : acc[k] = acc[k - 1] \o seqs[k]
           /\ FlattenSeq(seqs) = acc[n]
<1> DEFINE T == Seq(X)
           F == [p \in T \X (1 .. n) |-> p[1] \o seqs[p[2]]]
<1>1. \A s \in T, i \in 1 .. n : F[<<s, i>>] = s \o seqs[i]
  OBVIOUS
<1>2. F \in [T \X (1 .. n) -> T]
  <2>1. ASSUME NEW s \in T, NEW i \in 1 .. n PROVE s \o seqs[i] \in T
    BY JoinedType
  <2> QED BY <2>1
<1>3. << >> \in T
  OBVIOUS
<1>4. Len(seqs) = n
  OBVIOUS
<1>5. \A i \in 1 .. n : seqs[i] \in T
  OBVIOUS
<1> HIDE DEF F, T
<1>6. PICK acc \in [0 .. n -> T] : Runs(acc, F, << >>, n)
  BY <1>2, <1>3, RecursionRuns
<1>9. acc \in [0 .. n -> T]
  BY <1>6
<1>10. acc[0] = << >>
  BY <1>6 DEF Runs
<1>11. ASSUME NEW k \in 1 .. n PROVE acc[k] = acc[k - 1] \o seqs[k]
  <2>1. acc[k - 1] \in T
    OBVIOUS
  <2>2. acc[k] = F[<<acc[k - 1], k>>]
    BY <1>6 DEF Runs
  <2> QED BY <1>1, <2>1, <2>2
<1>12. FlattenSeq(seqs) = acc[n]
  <2>1. CASE n = 0
    <3>1. seqs = << >>
      BY <1>4, <2>1
    <3> QED BY <1>4, <1>10, <2>1, <3>1 DEF FlattenSeq
  <2>2. CASE n # 0
    <3> DEFINE h == [i \in 1 .. n |-> acc[i]]
    <3>1. ASSUME NEW i \in 1 .. n
          PROVE  acc[i] = IF i = 1 THEN seqs[i] ELSE h[i - 1] \o seqs[i]
      <4>1. CASE i = 1
        <5>1. acc[1] = << >> \o seqs[1]
          <6>1. acc[1] = acc[1 - 1] \o seqs[1] /\ 1 - 1 = 0
            BY <1>11, <4>1
          <6> QED BY <1>10, <6>1
        <5>2. << >> \o seqs[1] = seqs[1]
          BY <1>5, <4>1 DEF T
        <5> QED BY <4>1, <5>1, <5>2
      <4>2. CASE i # 1
        <5>1. i - 1 \in 1 .. n
          BY <4>2
        <5> QED BY <1>11, <4>2, <5>1
      <4> QED BY <4>1, <4>2
    <3>2. h = [i \in 1 .. n |-> IF i = 1 THEN seqs[i] ELSE h[i - 1] \o seqs[i]]
      BY <3>1
    <3>3. n \in 1 .. n /\ h[n] = acc[n]
      BY <2>2
    <3> HIDE DEF h
    <3>4. h = FlattenBody(seqs, h)
      BY <1>4, <3>2 DEF FlattenBody
    <3> DEFINE f == FlattenIter(seqs)
    <3>5. f = FlattenBody(seqs, f)
      BY <3>4 DEF FlattenIter
    <3> HIDE DEF f
    <3>6. \A i \in 1 .. n : f[i] = IF i = 1 THEN seqs[i] ELSE f[i - 1] \o seqs[i]
      BY <1>4, <3>5 DEF FlattenBody
    <3>7. \A i \in 1 .. n : h[i] = IF i = 1 THEN seqs[i] ELSE h[i - 1] \o seqs[i]
      BY <3>2
    <3> DEFINE Same == {k \in 0 .. n : k >= 1 => f[k] = h[k]}
    <3>8. 0 \in Same
      OBVIOUS
    <3>9. ASSUME NEW k \in 1 .. n, k - 1 \in Same PROVE k \in Same
      BY <3>6, <3>7, <3>9
    <3> HIDE DEF Same
    <3>10. \A k \in 0 .. n : k \in Same
      BY <3>8, <3>9, CountUp
    <3>11. f[n] = h[n]
      BY <2>2, <3>10 DEF Same
    <3> QED BY <1>4, <2>2, <3>3, <3>11, FlattenIsIter DEF f
  <2> QED BY <2>1, <2>2
<1> QED BY <1>9, <1>10, <1>11, <1>12 DEF T

(* When each of the sequences has one member or none, the members that     *)
(* there are keep their order.                                             *)
Places(seqs, n, flat, e) ==
  /\ e \in [1 .. Len(flat) -> 1 .. n]
  /\ \A i, j \in 1 .. Len(flat) : i < j => e[i] < e[j]
  /\ \A j \in 1 .. Len(flat) : seqs[e[j]] # << >> /\ flat[j] = seqs[e[j]][1]
  /\ \A i \in 1 .. n : seqs[i] # << >> => \E j \in 1 .. Len(flat) : e[j] = i

(* What a sequence is with at most one element more.                       *)
LEMMA JoinedWith ==
  ASSUME NEW X, NEW s \in Seq(X), NEW t \in Seq(X), Len(t) = 0 \/ Len(t) = 1
  PROVE  /\ t = << >> => s \o t = s
         /\ t # << >> => /\ Len(t) = 1 /\ Len(s \o t) = Len(s) + 1
                         /\ \A i \in 1 .. Len(s) : (s \o t)[i] = s[i]
                         /\ (s \o t)[Len(s) + 1] = t[1]
<1>1. ASSUME t = << >> PROVE s \o t = s
  BY <1>1
<1>2. ASSUME t # << >> PROVE Len(t) = 1
  BY <1>2
<1>3. ASSUME Len(t) = 1
      PROVE  /\ Len(s \o t) = Len(s) + 1
             /\ \A i \in 1 .. Len(s) : (s \o t)[i] = s[i]
             /\ (s \o t)[Len(s) + 1] = t[1]
  <2>1. Len(s \o t) = Len(s) + 1
    <3>1. Len(s \o t) = Len(s) + Len(t)
      OBVIOUS
    <3> QED BY <1>3, <3>1
  <2>2. \A i \in 1 .. Len(s) : (s \o t)[i] = s[i]
    OBVIOUS
  <2>3. (s \o t)[Len(s) + 1] = t[1]
    <3>1. Len(s) + 1 \in 1 .. (Len(s) + Len(t))
      BY <1>3
    <3>2. (s \o t)[Len(s) + 1] = t[Len(s) + 1 - Len(s)]
      BY <3>1
    <3> QED BY <3>2
  <2> QED BY <2>1, <2>2, <2>3
<1> QED BY <1>1, <1>2, <1>3

(* Sequences of at most one element, joined: those there are, in order.    *)
LEMMA Thinned ==
  ASSUME NEW X, NEW n \in Nat, NEW seqs \in [1 .. n -> Seq(X)],
         \A i \in 1 .. n : Len(seqs[i]) = 0 \/ Len(seqs[i]) = 1
  PROVE  /\ FlattenSeq(seqs) \in Seq(X)
         /\ \E e : Places(seqs, n, FlattenSeq(seqs), e)
<1>1. PICK acc \in [0 .. n -> Seq(X)] :
        /\ acc[0] = << >>
        /\ \A k \in 1 .. n : acc[k] = acc[k - 1] \o seqs[k]
        /\ FlattenSeq(seqs) = acc[n]
  BY FlattenRuns
<1> DEFINE Placed == {k \in 0 .. n : \E e : Places(seqs, k, acc[k], e)}
<1>2. 0 \in Placed
  <2> DEFINE e == [j \in 1 .. 0 |-> 0]
  <2>1. Len(acc[0]) = 0
    BY <1>1
  <2>2. Places(seqs, 0, acc[0], e)
    BY <2>1 DEF Places
  <2> QED BY <2>2
<1>3. ASSUME NEW k \in 1 .. n, k - 1 \in Placed PROVE k \in Placed
  <2>1. PICK e : Places(seqs, k - 1, acc[k - 1], e)
    BY <1>3
  <2> DEFINE s == acc[k - 1]
             t == seqs[k]
             m == Len(s)
  <2>2. s \in Seq(X) /\ t \in Seq(X) /\ acc[k] = s \o t /\ m \in Nat
        /\ (Len(t) = 0 \/ Len(t) = 1)
    <3>1. k - 1 \in 0 .. n
      OBVIOUS
    <3>2. s \in Seq(X) /\ t \in Seq(X) /\ (Len(t) = 0 \/ Len(t) = 1)
      BY <1>1, <3>1
    <3>3. acc[k] = s \o t
      BY <1>1
    <3>4. m \in Nat
      BY <3>2
    <3> QED BY <3>2, <3>3, <3>4
  <2>3. /\ e \in [1 .. m -> 1 .. (k - 1)]
        /\ \A i, j \in 1 .. m : i < j => e[i] < e[j]
        /\ \A j \in 1 .. m : seqs[e[j]] # << >> /\ s[j] = seqs[e[j]][1]
        /\ \A i \in 1 .. (k - 1) : seqs[i] # << >> => \E j \in 1 .. m : e[j] = i
    BY <2>1 DEF Places
  <2>4. CASE t = << >>
    <3>1. acc[k] = s
      BY <2>2, <2>4, JoinedWith
    <3>2. Places(seqs, k, s, e)
      <4>1. e \in [1 .. m -> 1 .. k]
        BY <2>3
      <4>2. \A i \in 1 .. k : seqs[i] # << >> => i \in 1 .. (k - 1)
        BY <2>4, SMTT(30)
      <4> QED BY <2>3, <4>1, <4>2 DEF Places
    <3> QED BY <3>1, <3>2
  <2>5. CASE t # << >>
    <3>1. /\ Len(acc[k]) = m + 1 /\ acc[k][m + 1] = t[1]
          /\ \A i \in 1 .. m : acc[k][i] = s[i]
      <4>1. s \in Seq(X) /\ t \in Seq(X) /\ acc[k] = s \o t /\ (Len(t) = 0 \/ Len(t) = 1)
        BY <2>2
      <4> HIDE DEF s, t
      <4>2. /\ Len(s \o t) = Len(s) + 1
            /\ \A i \in 1 .. Len(s) : (s \o t)[i] = s[i]
            /\ (s \o t)[Len(s) + 1] = t[1]
        BY <2>5, <4>1, JoinedWith, SMTT(30)
      <4> QED BY <4>1, <4>2
    <3> DEFINE f == [j \in 1 .. (m + 1) |-> IF j = m + 1 THEN k ELSE e[j]]
    <3>2. /\ \A j \in 1 .. m : f[j] = e[j] /\ e[j] \in 1 .. (k - 1)
          /\ f[m + 1] = k
      <4>1. m \in Nat /\ e \in [1 .. m -> 1 .. (k - 1)]
        BY <2>2, <2>3
      <4> HIDE DEF m
      <4>2. \A j \in 1 .. m : j \in 1 .. (m + 1) /\ j # m + 1
        BY <4>1
      <4>3. m + 1 \in 1 .. (m + 1)
        BY <4>1
      <4> QED BY <4>1, <4>2, <4>3
    <3>3. f \in [1 .. (m + 1) -> 1 .. k]
      <4>1. ASSUME NEW j \in 1 .. (m + 1)
            PROVE  (IF j = m + 1 THEN k ELSE e[j]) \in 1 .. k
        <5> HIDE DEF m
        <5> QED BY <2>2, <2>3, SMTT(30)
      <4> QED BY <4>1
    <3> HIDE DEF f, s, t, m
    <3>4. \A j \in 1 .. (m + 1) : j = m + 1 \/ j \in 1 .. m
      BY <2>2
    <3>5. ASSUME NEW i \in 1 .. (m + 1), NEW j \in 1 .. (m + 1), i < j
          PROVE  f[i] < f[j]
      <4>1. i \in 1 .. m
        BY <2>2, <3>5
      <4>2. CASE j = m + 1
        <5>1. f[i] \in 1 .. (k - 1) /\ f[j] = k
          BY <3>2, <4>1, <4>2
        <5> QED BY <5>1
      <4>3. CASE j \in 1 .. m
        BY <2>3, <3>2, <3>5, <4>1, <4>3
      <4> QED BY <3>4, <4>2, <4>3
    <3>6. ASSUME NEW j \in 1 .. (m + 1)
          PROVE  seqs[f[j]] # << >> /\ acc[k][j] = seqs[f[j]][1]
      <4>1. CASE j = m + 1
        BY <2>5, <3>1, <3>2, <4>1 DEF t
      <4>2. CASE j \in 1 .. m
        BY <2>3, <3>1, <3>2, <4>2
      <4> QED BY <3>4, <4>1, <4>2
    <3>7. ASSUME NEW i \in 1 .. k, seqs[i] # << >>
          PROVE  \E j \in 1 .. (m + 1) : f[j] = i
      <4>1. CASE i = k
        <5>1. m + 1 \in 1 .. (m + 1)
          BY <2>2
        <5> QED BY <3>2, <4>1, <5>1
      <4>2. CASE i # k
        <5>1. i \in 1 .. (k - 1)
          BY <4>2
        <5>2. PICK j \in 1 .. m : e[j] = i
          BY <2>3, <3>7, <5>1
        <5>3. j \in 1 .. (m + 1)
          BY <2>2
        <5> QED BY <3>2, <5>2, <5>3
      <4> QED BY <4>1, <4>2
    <3>8. Places(seqs, k, acc[k], f)
      BY <3>1, <3>3, <3>5, <3>6, <3>7 DEF Places
    <3> QED BY <3>8
  <2> QED BY <2>4, <2>5
<1> HIDE DEF Placed
<1>4. \A k \in 0 .. n : k \in Placed
  BY <1>2, <1>3, CountUp
<1>5. n \in Placed
  BY <1>4
<1> QED BY <1>1, <1>5 DEF Placed

-----------------------------------------------------------------------------
(* THE ROUTERS (Routes) *)

(* One step of the scan, and its recursion. *)
Better(offers, eligible, best, i) ==
  IF i \in eligible /\ (best = 0 \/ Cheaper(offers[i], offers[best])) THEN i ELSE best
ScanBody(offers, eligible, seq, g) ==
  [s \in SUBSET DOMAIN seq |->
     IF s = {} THEN 0 ELSE Better(offers, eligible, g[s \ {Max(s)}], seq[Max(s)])]
ScanIter(offers, eligible, seq) == CHOOSE g : g = ScanBody(offers, eligible, seq, g)

LEMMA ScanIsIter ==
  ASSUME NEW offers, NEW eligible
  PROVE  LET seq == [i \in DOMAIN offers |-> i] IN
         Scan(offers, eligible) = ScanIter(offers, eligible, seq)[DOMAIN seq]
BY DEF Scan, FoldLeft, MapThenFoldSet, ScanIter, ScanBody, Better

(* The scan looks at one offer after the other.                            *)
LEMMA ScanRuns ==
  ASSUME NEW offers, NEW n \in Nat, DOMAIN offers = 1 .. n, NEW eligible
  PROVE  \E acc : /\ acc[0] = 0
                  /\ \A k \in 1 .. n : acc[k] = Better(offers, eligible, acc[k - 1], k)
                  /\ Scan(offers, eligible) = acc[n]
<1> DEFINE seq == [i \in DOMAIN offers |-> i]
           T == 0 .. n
           F == [p \in T \X (1 .. n) |-> Better(offers, eligible, p[1], p[2])]
<1>1. DOMAIN seq = 1 .. n /\ \A i \in 1 .. n : seq[i] = i
  OBVIOUS
<1>2. F \in [T \X (1 .. n) -> T]
  <2>1. ASSUME NEW b \in T, NEW i \in 1 .. n PROVE Better(offers, eligible, b, i) \in T
    BY DEF Better
  <2> QED BY <2>1
<1>3. \A b \in T, i \in 1 .. n : F[<<b, i>>] = Better(offers, eligible, b, i)
  OBVIOUS
<1>4. 0 \in T
  OBVIOUS
<1> HIDE DEF F, T, seq
<1>5. PICK g \in [SUBSET (1 .. n) -> T] : Recursion(F, 0, n, g)
  BY <1>2, <1>4, RecursionHasSolution
<1>6. ASSUME NEW s \in SUBSET (1 .. n)
      PROVE  g[s] = IF s = {} THEN 0
                    ELSE Better(offers, eligible, g[s \ {Max(s)}], seq[Max(s)])
  <2>1. CASE s = {}
    BY <1>5, <2>1 DEF Recursion
  <2>2. CASE s # {}
    <3>1. Max(s) \in 1 .. n
      BY <2>2, MaxOfPositions
    <3>2. g[s \ {Max(s)}] \in T
      <4>1. s \ {Max(s)} \in SUBSET (1 .. n)
        OBVIOUS
      <4> QED BY <1>5, <4>1
    <3>3. g[s] = F[<<g[s \ {Max(s)}], Max(s)>>]
      BY <1>5, <2>2 DEF Recursion
    <3>4. F[<<g[s \ {Max(s)}], Max(s)>>] = Better(offers, eligible, g[s \ {Max(s)}], Max(s))
      BY <1>3, <3>1, <3>2
    <3> QED BY <1>1, <2>2, <3>1, <3>3, <3>4
  <2> QED BY <2>1, <2>2
<1>7. g = ScanBody(offers, eligible, seq, g)
  <2>1. g = [s \in SUBSET (1 .. n) |-> g[s]]
    BY <1>5
  <2>2. g = [s \in SUBSET (1 .. n) |->
               IF s = {} THEN 0
               ELSE Better(offers, eligible, g[s \ {Max(s)}], seq[Max(s)])]
    BY <1>6, <2>1
  <2> QED BY <1>1, <2>2 DEF ScanBody
<1> DEFINE h == ScanIter(offers, eligible, seq)
<1>8. h = ScanBody(offers, eligible, seq, h)
  BY <1>7 DEF ScanIter
<1> HIDE DEF h
<1>9. \A s \in SUBSET (1 .. n) :
        h[s] = IF s = {} THEN 0
               ELSE Better(offers, eligible, h[s \ {Max(s)}], seq[Max(s)])
  BY <1>1, <1>8 DEF ScanBody
<1>10. h[1 .. 0] = 0
  <2>1. 1 .. 0 = {} /\ {} \in SUBSET (1 .. n)
    OBVIOUS
  <2> QED BY <1>9, <2>1
<1>11. ASSUME NEW k \in 1 .. n
       PROVE  h[1 .. k] = Better(offers, eligible, h[1 .. (k - 1)], k)
  <2>1. /\ 1 .. k \in SUBSET (1 .. n) /\ 1 .. k # {} /\ Max(1 .. k) = k
        /\ (1 .. k) \ {Max(1 .. k)} = 1 .. (k - 1)
    BY Accumulates
  <2>2. seq[k] = k
    BY <1>1
  <2>3. h[1 .. k] = Better(offers, eligible, h[(1 .. k) \ {Max(1 .. k)}], seq[Max(1 .. k)])
    BY <1>9, <2>1, Zenon
  <2> QED BY <2>1, <2>2, <2>3, Zenon
<1> DEFINE acc == [k \in 0 .. n |-> h[1 .. k]]
<1>12. acc[0] = 0 /\ acc[n] = h[1 .. n]
  BY <1>10
<1>13. ASSUME NEW k \in 1 .. n PROVE acc[k] = Better(offers, eligible, acc[k - 1], k)
  <2>1. k \in 0 .. n /\ k - 1 \in 0 .. n
    OBVIOUS
  <2> QED BY <1>11, <2>1
<1>14. Scan(offers, eligible) = h[1 .. n]
  <2>1. Scan(offers, eligible) = h[DOMAIN seq]
    BY ScanIsIter DEF h, seq
  <2> QED BY <1>1, <2>1
<1> HIDE DEF acc
<1> QED BY <1>12, <1>13, <1>14

(* What the market may send, and the offers that are made of it. *)
RawQuotes(Names) ==
  [symbol : Names, bid : Float \ {{Infinity}}, ask : Float \ {{Infinity}},
   bid_size : Int, ask_size : Int, timed : BOOLEAN]
Priced(q) ==
  /\ q.bid \in Int /\ q.ask \in Int /\ q.bid_size \in Int /\ q.ask_size \in Int
  /\ 0 < q.bid /\ q.bid <= q.ask /\ 1 <= q.bid_size /\ 1 <= q.ask_size
BuiltQuotes(Names) ==
  {q \in [symbol : Names, bid_size : Int, ask_size : Int, bid : Int, ask : Int] : Priced(q)}

(* Comparing fractions with positive denominators. *)
LEMMA FractionOrder ==
  ASSUME NEW a \in Int, NEW b \in Int, NEW c \in Int,
         NEW x \in Int, NEW y \in Int, NEW z \in Int, x > 0, y > 0, z > 0,
         a * y < b * x, ~(c * y < b * z)
  PROVE  a * z < c * x
<1>1. ASSUME NEW i \in Int, NEW j \in Int, NEW k \in Int, k > 0, i < j
      PROVE  i * k < j * k
  BY <1>1
<1>2. ASSUME NEW i \in Int, NEW j \in Int, NEW k \in Int, k > 0, i <= j
      PROVE  i * k <= j * k
  BY <1>2
<1>3. a * y \in Int /\ b * x \in Int /\ c * y \in Int /\ b * z \in Int /\ a * z \in Int /\ c * x \in Int
  OBVIOUS
<1>4. (a * y) * z < (b * x) * z
  BY <1>1, <1>3
<1>5. (b * z) * x <= (c * y) * x
  BY <1>2, <1>3
<1>6. (a * y) * z = (a * z) * y /\ (b * x) * z = (b * z) * x /\ (c * y) * x = (c * x) * y
  OBVIOUS
<1>7. (a * z) * y < (c * x) * y
  BY <1>3, <1>4, <1>5, <1>6
<1> QED
  <2> SUFFICES ASSUME c * x <= a * z PROVE FALSE
    BY <1>3
  <2>1. (c * x) * y <= (a * z) * y
    BY <1>2, <1>3
  <2>2. (c * x) * y \in Int /\ (a * z) * y \in Int
    BY <1>3
  <2> QED BY <1>7, <2>1, <2>2

(* Costs are fractions with positive denominators, and compare strictly.   *)
LEMMA CostsAreNumbers ==
  ASSUME NEW q, Priced(q)
  PROVE  CostNumerator(q) \in Int /\ CostDenominator(q) \in Int /\ CostDenominator(q) > 0
<1> DEFINE size == SizeOf(q)
<1>1. size \in Int /\ size >= 1
  BY DEF Priced, SizeOf, Smaller
<1> HIDE DEF size
<1>2. q.bid + q.ask \in Int /\ q.bid + q.ask > 0 /\ 2 * (q.ask - q.bid) \in Int /\ q.bid \in Int /\ q.ask \in Int
  BY DEF Priced
<1>3. ASSUME NEW a \in Int, NEW b \in Int, a > 0, b >= 1 PROVE a * b \in Int /\ a * b > 0
  BY <1>3
<1>4. CostDenominator(q) = (q.bid + q.ask) * size
  BY DEF CostDenominator, size
<1>5. CostNumerator(q) = 2 * (q.ask - q.bid) * size + q.bid + q.ask
  BY DEF CostNumerator, size
<1>6. 2 * (q.ask - q.bid) * size \in Int
  BY <1>1, <1>2
<1> QED BY <1>1, <1>2, <1>3, <1>4, <1>5, <1>6

(* Cheaper orders the offers. *)
LEMMA CheaperOrders ==
  ASSUME NEW q, NEW r, NEW s, Priced(q), Priced(r), Priced(s), Cheaper(q, r)
  PROVE  ~Cheaper(r, q) /\ (~Cheaper(s, r) => Cheaper(q, s))
<1> DEFINE a == CostNumerator(q)
           x == CostDenominator(q)
           b == CostNumerator(r)
           y == CostDenominator(r)
           c == CostNumerator(s)
           z == CostDenominator(s)
<1>1. /\ a \in Int /\ b \in Int /\ c \in Int /\ x \in Int /\ y \in Int /\ z \in Int
      /\ x > 0 /\ y > 0 /\ z > 0
  BY CostsAreNumbers
<1>2. a * y < b * x
  BY DEF Cheaper
<1>3. Cheaper(r, q) <=> b * x < a * y
  BY DEF Cheaper
<1>4. Cheaper(s, r) <=> c * y < b * z
  BY DEF Cheaper
<1>5. Cheaper(q, s) <=> a * z < c * x
  BY DEF Cheaper
<1> HIDE DEF a, b, c, x, y, z
<1>6. a * y \in Int /\ b * x \in Int
  BY <1>1
<1> QED BY <1>1, <1>2, <1>3, <1>4, <1>5, <1>6, FractionOrder

LEMMA CheaperIsStrict ==
  ASSUME NEW q, Priced(q) PROVE ~Cheaper(q, q)
BY CheaperOrders

(* best is the first of the cheapest among those of E. *)
FirstCheapest(offers, E, best) ==
  IF E = {} THEN best = 0
  ELSE /\ best \in E
       /\ \A i \in E : /\ ~Cheaper(offers[i], offers[best])
                       /\ i < best => Cheaper(offers[best], offers[i])

(* There is one first of the cheapest, and the scan finds it.              *)
LEMMA OneFirstCheapest ==
  ASSUME NEW offers, NEW n \in Nat, NEW E \in SUBSET (1 .. n),
         NEW b, NEW c, FirstCheapest(offers, E, b), FirstCheapest(offers, E, c)
  PROVE  b = c
<1>1. CASE E = {}
  BY <1>1 DEF FirstCheapest
<1>2. CASE E # {}
  <2>1. b \in E /\ c \in E
    BY <1>2 DEF FirstCheapest
  <2>2. ~(b < c)
    BY <1>2, <2>1 DEF FirstCheapest
  <2>3. ~(c < b)
    BY <1>2, <2>1 DEF FirstCheapest
  <2>4. b \in 1 .. n /\ c \in 1 .. n
    BY <2>1
  <2> QED BY <2>2, <2>3, <2>4
<1> QED BY <1>1, <1>2

LEMMA ScanFinds ==
  ASSUME NEW offers, NEW n \in Nat, DOMAIN offers = 1 .. n,
         \A i \in 1 .. n : Priced(offers[i]), NEW eligible \in SUBSET (1 .. n)
  PROVE  FirstCheapest(offers, eligible, Scan(offers, eligible))
<1>1. PICK acc : /\ acc[0] = 0
                 /\ \A k \in 1 .. n : acc[k] = Better(offers, eligible, acc[k - 1], k)
                 /\ Scan(offers, eligible) = acc[n]
  BY ScanRuns
<1> DEFINE Upto(k) == {i \in eligible : i <= k}
           Found == {k \in 0 .. n : FirstCheapest(offers, Upto(k), acc[k])}
<1> HIDE DEF Upto
<1>0. \A k : \A i : i \in Upto(k) <=> i \in eligible /\ i <= k
  BY DEF Upto
<1>2. 0 \in Found
  <2>1. \A i \in eligible : ~(i <= 0)
    OBVIOUS
  <2>2. Upto(0) = {}
    BY <1>0, <2>1
  <2>3. 0 \in 0 .. n
    OBVIOUS
  <2>4. FirstCheapest(offers, Upto(0), acc[0])
    BY <1>1, <2>2 DEF FirstCheapest
  <2> QED BY <2>3, <2>4
<1>3. ASSUME NEW k \in 1 .. n, k - 1 \in Found PROVE k \in Found
  <2> DEFINE b == acc[k - 1]
             E == Upto(k - 1)
             F == Upto(k)
  <2>1. FirstCheapest(offers, E, b)
    BY <1>3
  <2>0. k \in Int /\ \A i \in eligible : i \in 1 .. n /\ (i <= k - 1 <=> i < k) /\ (i <= k <=> i < k \/ i = k)
    OBVIOUS
  <2>2. \A i \in E : i \in 1 .. n /\ i < k
    BY <1>0, <2>0
  <2>3a. ASSUME k \notin eligible PROVE F = E
    BY <1>0, <2>0, <2>3a
  <2>3b. ASSUME k \in eligible PROVE F = E \cup {k}
    <3>1. k <= k
      BY <2>0
    <3>2. \A i : i \in F <=> i \in E \cup {k}
      BY <1>0, <2>0, <2>3b, <3>1
    <3> QED BY <3>2
  <2>3. (k \notin eligible => F = E) /\ (k \in eligible => F = E \cup {k})
    BY <2>3a, <2>3b
  <2>4. acc[k] = Better(offers, eligible, b, k)
    BY <1>1
  <2> HIDE DEF E, F, b
  <2>5. FirstCheapest(offers, F, acc[k])
    <3>1. CASE k \notin eligible
      BY <2>1, <2>3, <2>4, <3>1 DEF Better
    <3>2. CASE k \in eligible /\ b = 0
      <4>1. E = {}
        BY <2>1, <2>2, <3>2 DEF FirstCheapest
      <4>2. F = {k} /\ acc[k] = k
        BY <2>3, <2>4, <3>2, <4>1 DEF Better
      <4>3. ~Cheaper(offers[k], offers[k]) /\ ~(k < k)
        BY CheaperIsStrict
      <4> QED BY <4>2, <4>3 DEF FirstCheapest
    <3>3. CASE k \in eligible /\ b # 0
      <4>1. /\ E # {} /\ b \in E
            /\ \A i \in E : /\ ~Cheaper(offers[i], offers[b])
                            /\ i < b => Cheaper(offers[b], offers[i])
        BY <2>1, <3>3 DEF FirstCheapest
      <4>2. b \in 1 .. n /\ b < k /\ F = E \cup {k} /\ F # {}
        BY <2>2, <2>3, <3>3, <4>1
      <4>3. CASE Cheaper(offers[k], offers[b])
        <5>1. acc[k] = k
          BY <2>4, <3>3, <4>3 DEF Better
        <5>2. ASSUME NEW i \in E
              PROVE  Cheaper(offers[k], offers[i]) /\ ~Cheaper(offers[i], offers[k])
          <6>1. i \in 1 .. n /\ ~Cheaper(offers[i], offers[b])
            BY <2>2, <4>1
          <6>2. Cheaper(offers[k], offers[i])
            BY <4>2, <4>3, <6>1, CheaperOrders
          <6> QED BY <6>1, <6>2, CheaperOrders
        <5>3. ~Cheaper(offers[k], offers[k]) /\ ~(k < k)
          BY CheaperIsStrict
        <5> QED BY <4>2, <5>1, <5>2, <5>3 DEF FirstCheapest
      <4>4. CASE ~Cheaper(offers[k], offers[b])
        <5>1. acc[k] = b
          BY <2>4, <3>3, <4>4 DEF Better
        <5>2. ~(k < b)
          BY <4>2
        <5> QED BY <4>1, <4>2, <4>4, <5>1, <5>2 DEF FirstCheapest
      <4> QED BY <4>3, <4>4
    <3> QED BY <3>1, <3>2, <3>3
  <2> QED BY <2>5 DEF F
<1>4. Upto(n) = eligible
  <2>1. \A i \in eligible : i <= n
    OBVIOUS
  <2>2. \A i : i \in Upto(n) <=> i \in eligible
    BY <1>0, <2>1
  <2> QED BY <2>2
<1> HIDE DEF Found
<1>5. \A k \in 0 .. n : k \in Found
  BY <1>2, <1>3, CountUp
<1>6. n \in Found
  BY <1>5
<1> QED BY <1>1, <1>4, <1>6 DEF Found

(* What is built of a raw quote has prices above zero, not crossed, and    *)
(* sizes.                                                                  *)
LEMMA BuiltQuote ==
  ASSUME NEW Names, NEW raw \in RawQuotes(Names)
  PROVE  /\ BuildQuote(raw) \in Seq(BuiltQuotes(Names))
         /\ Len(BuildQuote(raw)) = 0 \/ Len(BuildQuote(raw)) = 1
<1>1. CASE Unusable(raw) \/ Refused(raw)
  <2>1. BuildQuote(raw) = << >>
    BY <1>1 DEF BuildQuote
  <2> QED BY <2>1
<1>2. CASE ~(Unusable(raw) \/ Refused(raw))
  <2>1. /\ raw.symbol \in Names /\ raw.bid_size \in Int /\ raw.ask_size \in Int
        /\ raw.bid_size >= 1 /\ raw.ask_size >= 1
    BY <1>2 DEF RawQuotes, Unusable
  <2>2. PICK b \in Int : raw.bid = {b} /\ 0 < b
    BY <1>2 DEF RawQuotes, Refused, Float, Less, Zero, NaN
  <2>3. PICK a \in Int : raw.ask = {a} /\ 0 < a
    BY <1>2 DEF RawQuotes, Refused, Float, Less, Zero, NaN
  <2>4. b <= a
    BY <1>2, <2>2, <2>3 DEF Unusable, Less
  <2> DEFINE q == [symbol |-> raw.symbol, bid_size |-> raw.bid_size,
                   ask_size |-> raw.ask_size, bid |-> CHOOSE x \in raw.bid : TRUE,
                   ask |-> CHOOSE x \in raw.ask : TRUE]
  <2>5. BuildQuote(raw) = <<q>>
    BY <1>2 DEF BuildQuote
  <2>6. q = [symbol |-> raw.symbol, bid_size |-> raw.bid_size,
             ask_size |-> raw.ask_size, bid |-> b, ask |-> a]
    <3>1. (CHOOSE x \in raw.bid : TRUE) = b
      BY <2>2
    <3>2. (CHOOSE x \in raw.ask : TRUE) = a
      BY <2>3
    <3> QED BY <3>1, <3>2
  <2> HIDE DEF q
  <2>7. q \in BuiltQuotes(Names)
    BY <2>1, <2>2, <2>3, <2>4, <2>6 DEF BuiltQuotes, Priced
  <2> QED BY <2>5, <2>7
<1> QED BY <1>1, <1>2

LEMMA QuotesAreBuilt ==
  ASSUME NEW Names, NEW n \in Nat, NEW raws \in [1 .. n -> RawQuotes(Names)]
  PROVE  BuildQuotes(raws) \in Seq(BuiltQuotes(Names))
<1> DEFINE seqs == [i \in 1 .. n |-> BuildQuote(raws[i])]
<1>1. DOMAIN raws = 1 .. n
  OBVIOUS
<1>2. BuildQuotes(raws) = FlattenSeq(seqs)
  BY <1>1, Zenon DEF BuildQuotes
<1>3. \A i \in 1 .. n : /\ seqs[i] \in Seq(BuiltQuotes(Names))
                        /\ Len(seqs[i]) = 0 \/ Len(seqs[i]) = 1
  BY BuiltQuote
<1>4. seqs \in [1 .. n -> Seq(BuiltQuotes(Names))]
  BY <1>3
<1> HIDE DEF seqs
<1> QED BY <1>2, <1>3, <1>4, Thinned

(* The offers of a symbol are those of the store, in the same order. *)
Picked(offers, n, symbol, own, e) ==
  /\ e \in [1 .. Len(own) -> 1 .. n]
  /\ \A i, j \in 1 .. Len(own) : i < j => e[i] < e[j]
  /\ \A j \in 1 .. Len(own) : offers[e[j]].symbol = symbol /\ own[j] = offers[e[j]]
  /\ \A i \in 1 .. n : offers[i].symbol = symbol => \E j \in 1 .. Len(own) : e[j] = i

(* The offers of one contract are those of its symbol, in order.           *)
LEMMA OwnQuotes ==
  ASSUME NEW X, NEW n \in Nat, NEW offers \in [1 .. n -> X], NEW symbol
  PROVE  /\ OfSymbol(offers, symbol) \in Seq(X)
         /\ \E e : Picked(offers, n, symbol, OfSymbol(offers, symbol), e)
<1> DEFINE own == OfSymbol(offers, symbol)
           seqs == [i \in 1 .. n |-> IF offers[i].symbol = symbol THEN <<offers[i]>> ELSE << >>]
<1>1. DOMAIN offers = 1 .. n
  OBVIOUS
<1>2. own = FlattenSeq(seqs)
  BY <1>1, Zenon DEF OfSymbol
<1>3. \A i \in 1 .. n :
         /\ offers[i].symbol = symbol => seqs[i] = <<offers[i]>>
         /\ offers[i].symbol # symbol => seqs[i] = << >>
  OBVIOUS
<1>4. \A i \in 1 .. n : /\ seqs[i] \in Seq(X)
                        /\ Len(seqs[i]) = 0 \/ Len(seqs[i]) = 1
                        /\ seqs[i] # << >> <=> offers[i].symbol = symbol
                        /\ offers[i].symbol = symbol => seqs[i][1] = offers[i]
  BY <1>3
<1>5. seqs \in [1 .. n -> Seq(X)]
  BY <1>4
<1> HIDE DEF seqs, own
<1>6. /\ own \in Seq(X)
      /\ \E e : Places(seqs, n, own, e)
  BY <1>2, <1>4, <1>5, Thinned
<1>7. PICK e : Places(seqs, n, own, e)
  BY <1>6
<1>8. Picked(offers, n, symbol, own, e)
  BY <1>4, <1>7 DEF Places, Picked
<1> QED BY <1>6, <1>8 DEF own

(* What the scan finds among the offers of a symbol it finds in the store. *)
LEMMA FoundAlike ==
  ASSUME NEW offers, NEW n \in Nat, NEW symbol, NEW own, NEW e, NEW m \in Nat,
         Len(own) = m, Picked(offers, n, symbol, own, e),
         NEW E \in SUBSET (1 .. m), NEW F \in SUBSET (1 .. n), NEW best, NEW python,
         F = {e[j] : j \in E},
         FirstCheapest(own, E, best), FirstCheapest(offers, F, python)
  PROVE  IF best = 0 THEN python = 0 ELSE python # 0 /\ offers[python] = own[best]
<1>1. /\ e \in [1 .. m -> 1 .. n]
      /\ \A i, j \in 1 .. m : i < j => e[i] < e[j]
      /\ \A j \in 1 .. m : own[j] = offers[e[j]]
  BY DEF Picked
<1>2. CASE E = {}
  <2>1. F = {} /\ best = 0
    BY <1>2 DEF FirstCheapest
  <2> QED BY <2>1 DEF FirstCheapest
<1>3. CASE E # {}
  <2>1. best \in E /\ F # {}
    BY <1>3 DEF FirstCheapest
  <2>2. best \in 1 .. m /\ e[best] \in 1 .. n /\ e[best] \in F
    BY <1>1, <2>1
  <2>3. ASSUME NEW k \in F
        PROVE  /\ ~Cheaper(offers[k], offers[e[best]])
               /\ k < e[best] => Cheaper(offers[e[best]], offers[k])
    <3>1. PICK j \in E : k = e[j]
      OBVIOUS
    <3>2. j \in 1 .. m /\ own[j] = offers[k] /\ own[best] = offers[e[best]]
      BY <1>1, <2>2, <3>1
    <3>3. ~Cheaper(own[j], own[best]) /\ (j < best => Cheaper(own[best], own[j]))
      BY <1>3, <3>1 DEF FirstCheapest
    <3>4. k < e[best] => j < best
      <4>1. best < j => e[best] < k
        BY <1>1, <2>2, <3>1, <3>2
      <4>2. j \in Int /\ best \in Int /\ k \in Int /\ e[best] \in Int
        BY <2>2, <3>2
      <4> QED BY <3>1, <4>1, <4>2
    <3> QED BY <3>2, <3>3, <3>4
  <2>4. FirstCheapest(offers, F, e[best])
    BY <2>1, <2>2, <2>3 DEF FirstCheapest
  <2>5. python = e[best]
    BY <2>4, OneFirstCheapest
  <2> QED BY <1>1, <2>2, <2>5
<1> QED BY <1>2, <1>3

(* Whatever the market sends, both routers choose the same quote, the      *)
(* first of the cheapest that are large enough (build_quote_*,             *)
(* SmartRouter.choose, optivio::choose).                                   *)
THEOREM RoutesAlike ==
  ASSUME NEW Names, NEW l \in Nat, NEW raws \in [1 .. l -> RawQuotes(Names)],
         NEW symbol, NEW quantity \in Int
  PROVE  RoutesAgree(raws, symbol, quantity)
<1> DEFINE offers == BuildQuotes(raws)
           own == OfSymbol(offers, symbol)
           n == Len(offers)
           m == Len(own)
           large == {i \in DOMAIN own : SizeOf(own[i]) >= quantity}
           eligible == {i \in DOMAIN offers : PythonEligible(offers[i], symbol, quantity)}
           best == CppChoose(own, quantity)
           python == PythonChoose(offers, symbol, quantity)
<1>1. offers \in Seq(BuiltQuotes(Names))
  BY QuotesAreBuilt
<1>2. n \in Nat /\ offers \in [1 .. n -> BuiltQuotes(Names)] /\ DOMAIN offers = 1 .. n
  <2> HIDE DEF offers
  <2> QED BY <1>1
<1>3. own \in Seq(BuiltQuotes(Names)) /\ \E e : Picked(offers, n, symbol, own, e)
  <2> HIDE DEF offers, n
  <2> QED BY <1>2, OwnQuotes
<1>4. m \in Nat /\ DOMAIN own = 1 .. m /\ \A j \in 1 .. m : own[j] \in BuiltQuotes(Names)
  <2> HIDE DEF own
  <2> QED BY <1>3
<1>5. PICK e : Picked(offers, n, symbol, own, e)
  BY <1>3
<1>6. /\ \A i \in 1 .. n : Priced(offers[i])
      /\ \A i \in 1 .. m : Priced(own[i])
  <2> HIDE DEF offers, own, n, m
  <2> QED BY <1>2, <1>4 DEF BuiltQuotes
<1>7. best = Scan(own, large)
  <2>1. {i \in DOMAIN own : CppEligible(own[i], quantity)} = large
    <3> HIDE DEF own, m
    <3>1. \A i \in DOMAIN own : CppEligible(own[i], quantity) <=> SizeOf(own[i]) >= quantity
      BY <1>4, <1>6 DEF Priced, CppEligible
    <3> QED BY <3>1
  <2> HIDE DEF own, large
  <2> QED BY <2>1 DEF CppChoose
<1>8. python = Scan(offers, eligible)
  <2> HIDE DEF offers
  <2> QED BY DEF PythonChoose
<1>9. eligible = {e[j] : j \in large}
  <2> HIDE DEF offers, own, n, m
  <2>1. ASSUME NEW j \in large PROVE e[j] \in eligible
    <3>1. j \in 1 .. m /\ SizeOf(own[j]) >= quantity
      BY <1>4
    <3>2. e[j] \in 1 .. n /\ offers[e[j]].symbol = symbol /\ own[j] = offers[e[j]]
      BY <1>5, <3>1 DEF Picked, m
    <3> QED BY <1>2, <3>1, <3>2 DEF PythonEligible
  <2>2. ASSUME NEW i \in eligible PROVE \E j \in large : e[j] = i
    <3>1. i \in 1 .. n /\ offers[i].symbol = symbol /\ SizeOf(offers[i]) >= quantity
      BY <1>2 DEF PythonEligible
    <3>2. PICK j \in 1 .. m : e[j] = i
      BY <1>5, <3>1 DEF Picked, m
    <3>3. own[j] = offers[i]
      BY <1>5, <3>2 DEF Picked, m
    <3> QED BY <1>4, <3>1, <3>2, <3>3
  <2> HIDE DEF eligible, large
  <2> QED BY <2>1, <2>2
<1>10. large \in SUBSET (1 .. m) /\ eligible \in SUBSET (1 .. n)
  <2> HIDE DEF offers, own, n, m
  <2> QED BY <1>2, <1>4
<1> HIDE DEF offers, own, n, m, large, eligible, best, python
<1>11. FirstCheapest(own, large, best)
  BY <1>4, <1>6, <1>7, <1>10, ScanFinds
<1>12. FirstCheapest(offers, eligible, python)
  BY <1>2, <1>6, <1>8, <1>10, ScanFinds
<1>13. m = Len(own)
  BY DEF m
<1>14. IF best = 0 THEN python = 0 ELSE python # 0 /\ offers[python] = own[best]
  BY <1>2, <1>4, <1>5, <1>9, <1>10, <1>11, <1>12, <1>13, FoundAlike
<1>15. IF large = {} THEN best = 0
       ELSE /\ best \in large
            /\ \A i \in large : /\ ~Cheaper(own[i], own[best])
                                /\ i < best => Cheaper(own[best], own[i])
  BY <1>11 DEF FirstCheapest
<1> QED BY <1>14, <1>15, Zenon DEF RoutesAgree, offers, own, large, best, python

-----------------------------------------------------------------------------
(* THE FOLDS (WalkForward) *)

(* The extrema the windows are made of.                                    *)
LEMMA MinOfTwo ==
  ASSUME NEW a \in Int, NEW b \in Int
  PROVE  Min({a, b}) = IF a <= b THEN a ELSE b
<1> DEFINE m == IF a <= b THEN a ELSE b
<1>1. m \in {a, b} /\ {a, b} \in SUBSET Int /\ \A x \in {a, b} : m <= x
  OBVIOUS
<1> HIDE DEF m
<1>2. Min({a, b}) = m
  BY <1>1, MinIs
<1> QED BY <1>2 DEF m

LEMMA MaxOfTwo ==
  ASSUME NEW a \in Int, NEW b \in Int
  PROVE  Max({a, b}) = IF a >= b THEN a ELSE b
<1> DEFINE m == IF a >= b THEN a ELSE b
<1>1. m \in {a, b} /\ {a, b} \in SUBSET Int /\ \A x \in {a, b} : x <= m
  OBVIOUS
<1> HIDE DEF m
<1>2. Max({a, b}) = m
  BY <1>1, MaxIs
<1> QED BY <1>2 DEF m

LEMMA MinOfThree ==
  ASSUME NEW a \in Int, NEW b \in Int, NEW c \in Int
  PROVE  Min({a, b, c}) <= a /\ Min({a, b, c}) <= b /\ Min({a, b, c}) <= c
<1> DEFINE m == IF a <= b /\ a <= c THEN a ELSE IF b <= c THEN b ELSE c
<1>1. m \in {a, b, c} /\ {a, b, c} \in SUBSET Int /\ \A x \in {a, b, c} : m <= x
  OBVIOUS
<1> HIDE DEF m
<1>2. Min({a, b, c}) = m
  BY <1>1, MinIs
<1> QED BY <1>1, <1>2

Sizes == [n : Int, train_size : Int, test_size : Int, purge : Int, embargo : Int, step : Nat]

(* Sizes that pass the check are positive numbers.                         *)
LEMMA SizesAreValid ==
  ASSUME NEW c \in Sizes, ValidSizes(c)
  PROVE  /\ c.n \in Int /\ c.train_size \in Int /\ c.test_size \in Int
         /\ c.purge \in Int /\ c.embargo \in Int
         /\ c.n > 0 /\ c.train_size > 0 /\ c.test_size > 0 /\ c.purge >= 0 /\ c.embargo >= 0
         /\ Step(c) \in Nat
<1>1. /\ c.n \in Int /\ c.train_size \in Int /\ c.test_size \in Int
      /\ c.purge \in Int /\ c.embargo \in Int /\ c.step \in Nat
  BY DEF Sizes
<1> DEFINE m == Min({c.n, c.train_size, c.test_size})
<1>2. m > 0 /\ m \in Int
  <2>1. m \in {c.n, c.train_size, c.test_size}
    <3> DEFINE a == c.n
               b == c.train_size
               d == c.test_size
               x == IF a <= b /\ a <= d THEN a ELSE IF b <= d THEN b ELSE d
    <3>1. x \in {a, b, d} /\ {a, b, d} \in SUBSET Int /\ \A y \in {a, b, d} : x <= y
      BY <1>1
    <3> HIDE DEF x
    <3>2. Min({a, b, d}) = x
      BY <3>1, MinIs
    <3> QED BY <3>1, <3>2
  <2> QED BY <1>1, <2>1 DEF ValidSizes
<1>3. m <= c.n /\ m <= c.train_size /\ m <= c.test_size
  BY <1>1, MinOfThree
<1> HIDE DEF m
<1>4. c.n > 0 /\ c.train_size > 0 /\ c.test_size > 0
  BY <1>1, <1>2, <1>3
<1>5. c.purge >= 0 /\ c.embargo >= 0
  BY <1>1, MinOfTwo DEF ValidSizes
<1>6. Step(c) \in Nat
  BY <1>1, <1>4 DEF Step
<1> QED BY <1>1, <1>4, <1>5, <1>6

(* The rows that are trained on end before the test of every earlier fold. *)
LEMMA TrainsBefore ==
  ASSUME NEW c \in Sizes, ValidSizes(c), NEW k \in Nat
  PROVE  /\ Start(c, k) \in Int /\ EffectiveTrainEnd(c, k) \in Int
         /\ EffectiveTrainEnd(c, k) <= TrainEnd(c, k)
         /\ \A j \in 0 .. (k - 1) : EffectiveTrainEnd(c, k) <= TestStart(c, j)
<1>1. /\ c.train_size \in Int /\ c.purge \in Int /\ c.train_size > 0 /\ c.purge >= 0
      /\ Step(c) \in Nat
  BY SizesAreValid
<1>2. \A j \in Nat : Start(c, j) \in Nat
  <2>1. ASSUME NEW j \in Nat, NEW s \in Nat PROVE j * s \in Nat
    OBVIOUS
  <2> QED BY <1>1, <2>1 DEF Start
<1>3. Start(c, 0) = 0
  BY <1>1 DEF Start
<1>4. \A j \in Nat : /\ TrainEnd(c, j) = Start(c, j) + c.train_size
                     /\ TestStart(c, j) = Start(c, j) + c.train_size + c.purge
                     /\ TrainEnd(c, j) \in Int /\ TestStart(c, j) \in Int
                     /\ TestStart(c, 0) <= TestStart(c, j)
  BY <1>1, <1>2, <1>3 DEF TrainEnd, TestStart
<1> DEFINE S == {TrainEnd(c, k)} \cup {TestStart(c, j) : j \in 0 .. (k - 1)}
           m == IF k = 0 \/ TrainEnd(c, k) <= TestStart(c, 0) THEN TrainEnd(c, k)
                ELSE TestStart(c, 0)
<1>5. S \in SUBSET Int
  <2>1. \A j \in 0 .. (k - 1) : j \in Nat
    OBVIOUS
  <2> QED BY <1>4, <2>1
<1>6. m \in S
  <2>1. k = 0 \/ 0 \in 0 .. (k - 1)
    OBVIOUS
  <2> QED BY <2>1
<1>7. ASSUME NEW x \in S PROVE m <= x
  <2>1. CASE x = TrainEnd(c, k)
    BY <1>4, <2>1
  <2>2. CASE x # TrainEnd(c, k)
    <3>1. PICK j \in 0 .. (k - 1) : x = TestStart(c, j)
      BY <2>2
    <3>2. j \in Nat /\ k # 0
      BY <3>1
    <3>3. TestStart(c, 0) <= x /\ TestStart(c, 0) \in Int /\ x \in Int /\ TrainEnd(c, k) \in Int
      BY <1>4, <3>1, <3>2
    <3> QED BY <3>2, <3>3
  <2> QED BY <2>1, <2>2
<1>8. EffectiveTrainEnd(c, k) = m
  <2>1. EffectiveTrainEnd(c, k) = Min(S)
    BY DEF EffectiveTrainEnd
  <2> HIDE DEF S, m
  <2> QED BY <1>5, <1>6, <1>7, <2>1, MinIs
<1>9. TrainEnd(c, k) \in S /\ \A j \in 0 .. (k - 1) : TestStart(c, j) \in S
  OBVIOUS
<1> HIDE DEF S, m
<1>10. EffectiveTrainEnd(c, k) \in Int
  BY <1>5, <1>6, <1>8
<1>11. EffectiveTrainEnd(c, k) <= TrainEnd(c, k)
  BY <1>7, <1>8, <1>9
<1>12. \A j \in 0 .. (k - 1) : EffectiveTrainEnd(c, k) <= TestStart(c, j)
  BY <1>7, <1>8, <1>9
<1>13. Start(c, k) \in Int
  BY <1>2
<1> QED BY <1>10, <1>11, <1>12, <1>13

(* Walk-forward folds leak nothing, for all sizes (purged_walk_forward,    *)
(* lagged_return).                                                         *)
THEOREM FoldsLeakNothing ==
  ASSUME NEW c \in Sizes
  PROVE  NoLeak(c)
<1>1. ASSUME NEW f \in Folds(c)
      PROVE  /\ ValidSizes(c)
             /\ \E k \in Nat : f = Fold(c, k) /\ Emitted(c, k)
  BY DEF Folds
<1>2. ASSUME NEW k \in Nat, ValidSizes(c), Emitted(c, k)
      PROVE  LET f == Fold(c, k)
                 train == f.train_start .. (f.train_end - 1)
             IN
             /\ train # {}
             /\ f.train_end + c.purge <= f.test_start
             /\ f.test_start < f.test_end /\ f.test_end <= f.embargo_end
             /\ f.embargo_end <= c.n
             /\ \A horizon \in 1 .. c.purge :
                  LabelRows(f.train_start, f.train_end, horizon)
                    \cap f.test_start .. (f.test_end - 1) = {}
             /\ \A g \in Folds(c) :
                  g.fold < f.fold => train \cap g.test_start .. (g.embargo_end - 1) = {}
  <2> DEFINE s == Start(c, k)
             e == EffectiveTrainEnd(c, k)
             u == TestStart(c, k)
             v == TestEnd(c, k)
             w == EmbargoEnd(c, k)
  <2>1. /\ c.n \in Int /\ c.train_size \in Int /\ c.test_size \in Int
        /\ c.purge \in Int /\ c.embargo \in Int
        /\ c.test_size > 0 /\ c.purge >= 0 /\ c.embargo >= 0
    BY <1>2, SizesAreValid
  <2>2. s \in Int /\ e \in Int /\ e <= TrainEnd(c, k)
        /\ \A j \in 0 .. (k - 1) : e <= TestStart(c, j)
    BY <1>2, TrainsBefore
  <2>3. TrainEnd(c, k) = s + c.train_size /\ u = TrainEnd(c, k) + c.purge
        /\ v = u + c.test_size
    BY DEF TrainEnd, TestStart, TestEnd
  <2>4. v <= c.n /\ s < e
    <3>1. k \in 0 .. k
      OBVIOUS
    <3> QED BY <1>2, <3>1, <2>2 DEF Emitted, Fits
  <2>5. w = IF c.n <= v + c.embargo THEN c.n ELSE v + c.embargo
    BY <2>1, <2>2, <2>3, MinOfTwo DEF EmbargoEnd
  <2>6. Fold(c, k) = [fold |-> k, train_start |-> s, train_end |-> e,
                      test_start |-> u, test_end |-> v, embargo_end |-> w]
    BY DEF Fold
  <2> HIDE DEF s, e, u, v, w
  <2>7. /\ s .. (e - 1) # {}
        /\ e + c.purge <= u /\ u < v /\ v <= w /\ w <= c.n /\ u \in Int /\ v \in Int
    <3>1. s \in s .. (e - 1)
      BY <2>2, <2>4
    <3> QED BY <2>1, <2>2, <2>3, <2>4, <2>5, <3>1, SMTT(30)
  <2>8. ASSUME NEW horizon \in 1 .. c.purge
        PROVE  LabelRows(s, e, horizon) \cap u .. (v - 1) = {}
    <3>1. \A i \in s .. (e - 1) : i < u /\ i + horizon < u /\ i \in Int
      BY <2>1, <2>2, <2>7
    <3>2. \A x \in LabelRows(s, e, horizon) : \E i \in s .. (e - 1) : x = i \/ x = i + horizon
      BY DEF LabelRows
    <3>3. \A x \in LabelRows(s, e, horizon) : x < u /\ x \in Int
      <4>1. \A i \in s .. (e - 1) : i + horizon \in Int
        BY <2>1, <3>1
      <4> QED BY <3>1, <3>2, <4>1
    <3> QED BY <2>7, <3>3
  <2>9. ASSUME NEW g \in Folds(c), g.fold < k
        PROVE  s .. (e - 1) \cap g.test_start .. (g.embargo_end - 1) = {}
    <3>1. PICK j \in Nat : g = Fold(c, j) /\ Emitted(c, j)
      BY <1>1
    <3>2. g.fold = j /\ g.test_start = TestStart(c, j) /\ g.embargo_end = EmbargoEnd(c, j)
      BY <3>1 DEF Fold
    <3>3. j \in 0 .. (k - 1)
      BY <2>9, <3>2
    <3>4. e <= g.test_start
      BY <2>2, <3>2, <3>3
    <3>5. /\ g.test_start \in Int /\ g.embargo_end \in Int
      <4>1. Start(c, j) \in Int
        BY <1>2, TrainsBefore
      <4>2. TestStart(c, j) \in Int /\ TestEnd(c, j) + c.embargo \in Int
        BY <2>1, <4>1 DEF TestStart, TestEnd, TrainEnd
      <4>3. EmbargoEnd(c, j) \in Int
        BY <2>1, <4>2, MinOfTwo DEF EmbargoEnd
      <4> QED BY <3>2, <4>2, <4>3
    <3> QED BY <2>2, <3>4, <3>5
  <2> QED BY <2>6, <2>7, <2>8, <2>9
<1>3. ASSUME NEW f \in Folds(c)
      PROVE  LET train == f.train_start .. (f.train_end - 1) IN
             /\ train # {}
             /\ f.train_end + c.purge <= f.test_start
             /\ f.test_start < f.test_end /\ f.test_end <= f.embargo_end
             /\ f.embargo_end <= c.n
             /\ \A horizon \in 1 .. c.purge :
                  LabelRows(f.train_start, f.train_end, horizon)
                    \cap f.test_start .. (f.test_end - 1) = {}
             /\ \A g \in Folds(c) :
                  g.fold < f.fold => train \cap g.test_start .. (g.embargo_end - 1) = {}
  <2>1. PICK k \in Nat : f = Fold(c, k) /\ Emitted(c, k)
    BY <1>1
  <2>2. ValidSizes(c)
    BY <1>1
  <2> QED BY <1>2, <2>1, <2>2, Zenon
<1> QED BY <1>3, Zenon DEF NoLeak

-----------------------------------------------------------------------------
(* THE ROWS (WalkForward) *)

(* What a prefix is.                                                       *)
LEMMA PrefixOf ==
  ASSUME NEW X, NEW s \in Seq(X), NEW i \in 0 .. Len(s)
  PROVE  /\ SubSeq(s, 1, i) \in Seq(X) /\ Len(SubSeq(s, 1, i)) = i
         /\ DOMAIN SubSeq(s, 1, i) = 1 .. i
         /\ \A j \in 1 .. i : SubSeq(s, 1, i)[j] = s[j]
<1>1. Len(s) \in Nat /\ i \in Nat
  OBVIOUS
<1>2. Len(SubSeq(s, 1, i)) = i
  BY <1>1, SMTT(30)
<1>3. SubSeq(s, 1, i) \in Seq(X)
  BY <1>1, SMTT(30)
<1>4. DOMAIN SubSeq(s, 1, i) = 1 .. i
  BY <1>2, <1>3
<1>5. \A j \in 1 .. i : SubSeq(s, 1, i)[j] = s[j]
  BY <1>1, SMTT(30)
<1> QED BY <1>2, <1>3, <1>4, <1>5

(* Rows that pass the check are known, every prefix at the time of its     *)
(* last row (validate_point_in_time, assert_no_future_rows).               *)
THEOREM RowsAreKnown ==
  ASSUME NEW rows \in Seq([asof : Int, available : Int])
  PROVE  PrefixesKnown(rows)
<1> DEFINE n == Len(rows)
<1> SUFFICES ASSUME PointInTime(rows), NEW i \in 1 .. n
             PROVE  NoFutureRows(SubSeq(rows, 1, i), rows[i].asof)
  BY DEF PrefixesKnown
<1> DEFINE R == [asof : Int, available : Int]
<1>0. n \in Nat /\ rows \in Seq(R)
  OBVIOUS
<1>1. n \in Nat /\ \A j \in 1 .. n : rows[j].asof \in Int /\ rows[j].available \in Int
  <2>1. \A j \in 1 .. n : rows[j] \in R
    <3> HIDE DEF R
    <3> QED BY <1>0
  <2> QED BY <1>0, <2>1
<1>2. \A j \in 1 .. n : rows[j].available <= rows[j].asof
  BY DEF PointInTime
<1>3. \A j \in 1 .. (n - 1) : rows[j].asof <= rows[j + 1].asof
  BY DEF PointInTime
<1> HIDE DEF n
<1> DEFINE InOrder == {k \in 0 .. n : \A j \in 1 .. k : rows[j].asof <= rows[k].asof}
<1>4. 0 \in InOrder
  BY <1>1
<1>5. ASSUME NEW k \in 1 .. n, k - 1 \in InOrder PROVE k \in InOrder
  <2>1. ASSUME NEW j \in 1 .. k PROVE rows[j].asof <= rows[k].asof
    <3>1. CASE j = k
      BY <1>1, <3>1
    <3>2. CASE j # k
      <4>1. j \in 1 .. (k - 1) /\ k - 1 \in 1 .. (n - 1) /\ (k - 1) + 1 = k
        BY <1>1, <3>2
      <4>2. rows[j].asof <= rows[k - 1].asof
        BY <1>5, <4>1
      <4>3. rows[k - 1].asof <= rows[k].asof
        BY <1>3, <4>1
      <4>4. /\ rows[j].asof \in Int /\ rows[k - 1].asof \in Int /\ rows[k].asof \in Int
        BY <1>1, <4>1
      <4> HIDE DEF R
      <4> DEFINE a == rows[j].asof
                 b == rows[k - 1].asof
                 d == rows[k].asof
      <4>5. a \in Int /\ b \in Int /\ d \in Int /\ a <= b /\ b <= d
        BY <4>2, <4>3, <4>4
      <4> HIDE DEF a, b, d
      <4>6. a <= d
        BY <4>5
      <4> QED BY <4>6 DEF a, d
    <3> QED BY <3>1, <3>2
  <2> QED BY <2>1
<1> HIDE DEF InOrder
<1>6. \A k \in 0 .. n : k \in InOrder
  BY <1>1, <1>4, <1>5, CountUp
<1>7. \A j \in 1 .. i : rows[j].asof <= rows[i].asof
  <2>1. i \in InOrder
    BY <1>1, <1>6
  <2> QED BY <2>1 DEF InOrder
<1> DEFINE prefix == SubSeq(rows, 1, i)
<1>8. DOMAIN prefix = 1 .. i /\ \A j \in 1 .. i : prefix[j] = rows[j]
  <2> HIDE DEF R
  <2> QED BY <1>0, PrefixOf DEF n
<1> HIDE DEF prefix
<1>9. \A j \in DOMAIN prefix : prefix[j].asof <= rows[i].asof /\ prefix[j].available <= rows[i].asof
  <2>1. ASSUME NEW j \in 1 .. i
        PROVE  rows[j].asof <= rows[i].asof /\ rows[j].available <= rows[i].asof
    <3>1. j \in 1 .. n
      BY <1>1
    <3>2. rows[j].asof \in Int /\ rows[j].available \in Int /\ rows[i].asof \in Int
      BY <1>1, <3>1
    <3> QED BY <1>2, <1>7, <3>1, <3>2
  <2> QED BY <1>8, <2>1
<1> QED BY <1>9 DEF NoFutureRows, prefix

-----------------------------------------------------------------------------
(* THE OFFLINE GATE (OfflinePolicy) *)

(* picked has the members of seq that are in S, in order: e says where from. *)
Keeps(seq, n, S, picked, e) ==
  /\ e \in [1 .. Len(picked) -> 1 .. n]
  /\ \A i, j \in 1 .. Len(picked) : i < j => e[i] < e[j]
  /\ \A j \in 1 .. Len(picked) : seq[e[j]] \in S /\ picked[j] = seq[e[j]]

(* Only keeps the members that are in the set, in order; and so no more    *)
(* than there are, and all of them if all are.                             *)
LEMMA OnlyKeeps ==
  ASSUME NEW X, NEW seq \in Seq(X), NEW S
  PROVE  /\ Only(seq, S) \in Seq(X)
         /\ \E e : Keeps(seq, Len(seq), S, Only(seq, S), e)
<1> DEFINE n == Len(seq)
           picked == Only(seq, S)
           seqs == [i \in 1 .. n |-> IF seq[i] \in S THEN <<seq[i]>> ELSE << >>]
<1>1. n \in Nat /\ DOMAIN seq = 1 .. n
  OBVIOUS
<1>2. picked = FlattenSeq(seqs)
  BY <1>1, Zenon DEF Only
<1>3. \A i \in 1 .. n : /\ seq[i] \in S => seqs[i] = <<seq[i]>>
                        /\ seq[i] \notin S => seqs[i] = << >>
                        /\ seq[i] \in X
  OBVIOUS
<1>4. \A i \in 1 .. n : /\ seqs[i] \in Seq(X)
                        /\ Len(seqs[i]) = 0 \/ Len(seqs[i]) = 1
                        /\ seqs[i] # << >> => seq[i] \in S /\ seqs[i][1] = seq[i]
  BY <1>3
<1>5. seqs \in [1 .. n -> Seq(X)]
  BY <1>4
<1> HIDE DEF seqs, picked, n
<1>6. /\ picked \in Seq(X)
      /\ \E e : Places(seqs, n, picked, e)
  BY <1>1, <1>2, <1>4, <1>5, Thinned
<1>7. PICK e : Places(seqs, n, picked, e)
  BY <1>6
<1>8. Keeps(seq, n, S, picked, e)
  BY <1>4, <1>7 DEF Places, Keeps
<1> QED BY <1>6, <1>8 DEF picked, n

LEMMA OnlyMembers ==
  ASSUME NEW X, NEW seq \in Seq(X), NEW S
  PROVE  /\ Only(seq, S) \in Seq(X)
         /\ ToSet(Only(seq, S)) \subseteq S
         /\ Len(Only(seq, S)) <= Len(seq)
<1> DEFINE picked == Only(seq, S)
           n == Len(seq)
           m == Len(picked)
<1>1. picked \in Seq(X) /\ n \in Nat
  BY OnlyKeeps
<1>2. PICK e : Keeps(seq, n, S, picked, e)
  BY OnlyKeeps
<1>3. m \in Nat /\ DOMAIN picked = 1 .. m
  <2> HIDE DEF picked
  <2> QED BY <1>1
<1> HIDE DEF picked
<1>4. /\ e \in [1 .. m -> 1 .. n]
      /\ \A i, j \in 1 .. m : i < j => e[i] < e[j]
      /\ \A j \in 1 .. m : picked[j] \in S
  BY <1>2 DEF Keeps
<1>5. ToSet(picked) \subseteq S
  BY <1>3, <1>4 DEF ToSet
<1>6. m <= n
  <2> HIDE DEF m, n
  <2> DEFINE Far == {k \in 0 .. m : k >= 1 => e[k] >= k}
  <2>1. 0 \in Far
    BY <1>3
  <2>2. ASSUME NEW k \in 1 .. m, k - 1 \in Far PROVE k \in Far
    <3>1. CASE k = 1
      BY <1>1, <1>3, <1>4, <3>1
    <3>2. CASE k # 1
      <4>1. k - 1 \in 1 .. m /\ k - 1 < k
        BY <1>3, <3>2
      <4>2. e[k - 1] >= k - 1 /\ e[k - 1] < e[k]
        BY <1>4, <2>2, <4>1
      <4>3. e[k - 1] \in Int /\ e[k] \in Int
        BY <1>4, <4>1
      <4> QED BY <4>2, <4>3
    <3> QED BY <3>1, <3>2
  <2> HIDE DEF Far
  <2>3. \A k \in 0 .. m : k \in Far
    BY <1>3, <2>1, <2>2, CountUp
  <2>4. CASE m >= 1
    <3>1. e[m] >= m /\ e[m] \in 1 .. n
      BY <1>3, <1>4, <2>3, <2>4 DEF Far
    <3> QED BY <1>1, <1>3, <3>1
  <2>5. CASE ~(m >= 1)
    BY <1>1, <1>3, <2>5
  <2> QED BY <2>4, <2>5
<1> QED BY <1>1, <1>5, <1>6 DEF picked

LEMMA OnlyAll ==
  ASSUME NEW X, NEW seq \in Seq(X), NEW S, ToSet(seq) \subseteq S
  PROVE  Only(seq, S) = seq
<1> DEFINE n == Len(seq)
           picked == Only(seq, S)
           seqs == [i \in 1 .. n |-> IF seq[i] \in S THEN <<seq[i]>> ELSE << >>]
<1>1. n \in Nat /\ DOMAIN seq = 1 .. n /\ \A i \in 1 .. n : seq[i] \in X
  OBVIOUS
<1>2. picked = FlattenSeq(seqs)
  BY <1>1, Zenon DEF Only
<1>3. \A i \in 1 .. n : seqs[i] = <<seq[i]>>
  BY <1>1 DEF ToSet
<1>4. \A i \in 1 .. n : seqs[i] \in Seq(X) /\ Len(seqs[i]) = 1 /\ seqs[i][1] = seq[i]
  <2>1. \A x \in X : <<x>> \in Seq(X) /\ Len(<<x>>) = 1 /\ <<x>>[1] = x
    OBVIOUS
  <2> HIDE DEF seqs, n
  <2>2. ASSUME NEW i \in 1 .. n
        PROVE  seqs[i] \in Seq(X) /\ Len(seqs[i]) = 1 /\ seqs[i][1] = seq[i]
    <3>1. seq[i] \in X /\ seqs[i] = <<seq[i]>>
      BY <1>1, <1>3
    <3> QED BY <2>1, <3>1, Zenon
  <2> QED BY <2>2
<1>5. seqs \in [1 .. n -> Seq(X)]
  BY <1>4
<1> HIDE DEF seqs, picked, n
<1>6. PICK acc \in [0 .. n -> Seq(X)] :
        /\ acc[0] = << >>
        /\ \A k \in 1 .. n : acc[k] = acc[k - 1] \o seqs[k]
        /\ FlattenSeq(seqs) = acc[n]
  BY <1>1, <1>5, FlattenRuns
<1> DEFINE Copied == {k \in 0 .. n : Len(acc[k]) = k /\ \A i \in 1 .. k : acc[k][i] = seq[i]}
<1>7. 0 \in Copied
  BY <1>1, <1>6
<1>8. ASSUME NEW k \in 1 .. n, k - 1 \in Copied PROVE k \in Copied
  <2> DEFINE s == acc[k - 1]
             t == seqs[k]
  <2>1. k - 1 \in 0 .. n
    BY <1>1
  <2>2. s \in Seq(X) /\ t \in Seq(X) /\ acc[k] = s \o t /\ Len(t) = 1 /\ t[1] = seq[k]
    BY <1>4, <1>6, <2>1
  <2>3. Len(s) = k - 1 /\ \A i \in 1 .. (k - 1) : s[i] = seq[i]
    BY <1>8
  <2> HIDE DEF s, t
  <2>4. t # << >>
    <3>1. Len(<< >>) = 0
      OBVIOUS
    <3>2. Len(t) # Len(<< >>)
      BY <2>2, <3>1
    <3> QED BY <3>2, Zenon
  <2>5. /\ Len(s \o t) = Len(s) + 1
        /\ \A i \in 1 .. Len(s) : (s \o t)[i] = s[i]
        /\ (s \o t)[Len(s) + 1] = t[1]
    BY <2>2, <2>4, JoinedWith
  <2>6. Len(acc[k]) = k /\ acc[k][k] = seq[k]
    BY <2>2, <2>3, <2>5
  <2>7. ASSUME NEW i \in 1 .. k PROVE acc[k][i] = seq[i]
    <3>1. CASE i = k
      BY <2>6, <3>1
    <3>2. CASE i # k
      <4>1. i \in 1 .. (k - 1)
        BY <1>1, <3>2
      <4> QED BY <2>2, <2>3, <2>5, <4>1
    <3> QED BY <3>1, <3>2
  <2> QED BY <2>6, <2>7
<1> HIDE DEF Copied
<1>9. \A k \in 0 .. n : k \in Copied
  BY <1>1, <1>7, <1>8, CountUp
<1>10. Len(picked) = n /\ \A i \in 1 .. n : picked[i] = seq[i]
  <2>1. n \in Copied
    BY <1>1, <1>9
  <2> QED BY <1>2, <1>6, <2>1 DEF Copied
<1>11. picked \in Seq(X)
  BY <1>1, <1>2, <1>6
<1>12. picked = [i \in 1 .. n |-> picked[i]]
  BY <1>10, <1>11, SequenceIsFunction
<1>13. seq = [i \in 1 .. n |-> seq[i]]
  BY SequenceIsFunction DEF n
<1>14. [i \in 1 .. n |-> picked[i]] = [i \in 1 .. n |-> seq[i]]
  BY <1>10
<1> QED BY <1>12, <1>13, <1>14 DEF picked

(* What is logged: rewards are one of R or no number. *)
Logged(States, R) ==
  [state : States, action : Int, reward : {{}} \cup {{r} : r \in R}, supported : BOOLEAN,
   available : Int]

(* An evaluation, by the evidence it is made on. *)
EvalOf(g, evidence, reportSafe) ==
  LET numbers == \A i \in DOMAIN evidence : IsNumber(evidence[i])
      degenerate == Len(evidence) < g.minSupported \/ ~numbers
      rewards == IF degenerate THEN << >>
                 ELSE [i \in DOMAIN evidence |-> CHOOSE r \in evidence[i].reward : TRUE]
      actions == [i \in DOMAIN evidence |-> evidence[i].action]
  IN
  [degenerate |-> degenerate,
   safe |-> /\ reportSafe
            /\ ~FellBy(rewards, g.maxFall)
            /\ \A period \in Periods(g, rewards) : Growth(period) >= 0 - g.worst
            /\ Turnover(actions) <= g.turnover * Max({1, Len(actions) - 1}),
   wealth |-> Wealth(rewards, g.unit)]

(* An evaluation depends on what is known only.                            *)
LEMMA EvaluationIs ==
  ASSUME NEW g, NEW transitions, NEW policy, NEW cutoff
  PROVE  Evaluation(g, transitions, policy, cutoff) =
           EvalOf(g, Evidence(transitions, policy, cutoff),
                  ReportSafe(g, transitions, policy, cutoff))
BY Zenon DEF Evaluation, EvalOf

(* The gate sees nothing beyond the cutoff. *)
LEMMA KnownAgain ==
  ASSUME NEW X, NEW transitions \in Seq(X), NEW cutoff
  PROVE  Known(Known(transitions, cutoff), cutoff) = Known(transitions, cutoff)
<1> DEFINE seen == Known(transitions, cutoff)
<1>1. /\ seen \in Seq(X)
      /\ ToSet(seen) \subseteq {t \in ToSet(transitions) : t.available <= cutoff}
  BY OnlyMembers DEF Known
<1> HIDE DEF seen
<1>2. ToSet(seen) \subseteq {t \in ToSet(seen) : t.available <= cutoff}
  BY <1>1
<1>3. Only(seen, {t \in ToSet(seen) : t.available <= cutoff}) = seen
  BY <1>1, <1>2, OnlyAll
<1>4. Known(seen, cutoff) = seen
  BY <1>3 DEF Known
<1> QED BY <1>4 DEF seen

LEMMA SeesTheKnown ==
  ASSUME NEW X, NEW transitions \in Seq(X), NEW cutoff, NEW g, NEW policy
  PROVE  Evaluation(g, Known(transitions, cutoff), policy, cutoff) =
           Evaluation(g, transitions, policy, cutoff)
<1> DEFINE seen == Known(transitions, cutoff)
<1>1. Known(seen, cutoff) = Known(transitions, cutoff)
  BY KnownAgain
<1> HIDE DEF seen
<1>2. Evidence(seen, policy, cutoff) = Evidence(transitions, policy, cutoff)
  BY <1>1, Zenon DEF Evidence
<1>3. Supported(seen, policy, cutoff) = Supported(transitions, policy, cutoff)
  BY <1>2, Zenon DEF Supported
<1>4. ReportSafe(g, seen, policy, cutoff) = ReportSafe(g, transitions, policy, cutoff)
  BY <1>1, <1>3, Zenon DEF ReportSafe
<1>5. EvalOf(g, Evidence(seen, policy, cutoff), ReportSafe(g, seen, policy, cutoff)) =
      EvalOf(g, Evidence(transitions, policy, cutoff), ReportSafe(g, transitions, policy, cutoff))
  BY <1>2, <1>4, Zenon
<1> QED BY <1>5, EvaluationIs DEF seen

(* The evidence is part of what is logged.                                 *)
LEMMA EvidenceIs ==
  ASSUME NEW X, NEW transitions \in Seq(X), NEW cutoff, NEW policy
  PROVE  /\ Evidence(transitions, policy, cutoff) \in Seq(X)
         /\ Len(Evidence(transitions, policy, cutoff)) <= Len(transitions)
<1> DEFINE seen == Known(transitions, cutoff)
<1>1. seen \in Seq(X) /\ Len(seen) <= Len(transitions)
  BY OnlyMembers DEF Known
<1>2. Evidence(transitions, policy, cutoff) =
        Only(seen, {t \in ToSet(seen) : policy[t.state] = t.action})
  BY DEF Evidence
<1> HIDE DEF seen
<1> DEFINE evidence == Only(seen, {t \in ToSet(seen) : policy[t.state] = t.action})
<1>3. evidence \in Seq(X) /\ Len(evidence) <= Len(seen)
  BY <1>1, OnlyMembers
<1> HIDE DEF evidence
<1>4. Len(evidence) \in Nat /\ Len(seen) \in Nat /\ Len(transitions) \in Nat
  BY <1>1, <1>3
<1>5. Len(evidence) <= Len(transitions)
  BY <1>1, <1>3, <1>4
<1> QED BY <1>2, <1>3, <1>5 DEF evidence

(* An evaluation that is not degenerate has the evidence.                  *)
LEMMA EvaluationMeans ==
  ASSUME NEW States, NEW R, NEW n \in Nat, NEW g, g.minSupported \in Int,
         \A m \in 0 .. n : \A r \in [1 .. m -> R] : Wealth(r, g.unit) \in Int,
         NEW evidence \in Seq(Logged(States, R)), Len(evidence) <= n, NEW reportSafe
  PROVE  LET e == EvalOf(g, evidence, reportSafe) IN
         /\ e.wealth \in Int
         /\ ~e.degenerate => Len(evidence) >= g.minSupported
<1> DEFINE numbers == \A i \in DOMAIN evidence : IsNumber(evidence[i])
           degenerate == Len(evidence) < g.minSupported \/ ~numbers
           made == [i \in DOMAIN evidence |-> CHOOSE r \in evidence[i].reward : TRUE]
           rewards == IF degenerate THEN << >> ELSE made
           e == EvalOf(g, evidence, reportSafe)
<1>1. e.wealth = Wealth(rewards, g.unit) /\ e.degenerate = degenerate
  BY DEF EvalOf
<1>2. Len(evidence) \in Nat /\ DOMAIN evidence = 1 .. Len(evidence)
  OBVIOUS
<1>3. ASSUME degenerate PROVE Wealth(rewards, g.unit) \in Int
  <2>1. rewards = << >>
    BY <1>3
  <2>2. << >> \in [1 .. 0 -> R] /\ 0 \in 0 .. n
    OBVIOUS
  <2> HIDE DEF rewards
  <2> QED BY <2>1, <2>2
<1>4. ASSUME ~degenerate PROVE Wealth(rewards, g.unit) \in Int
  <2>1. rewards = made
    BY <1>4
  <2>2. ASSUME NEW i \in 1 .. Len(evidence)
        PROVE  (CHOOSE r \in evidence[i].reward : TRUE) \in R
    <3>1. evidence[i] \in Logged(States, R)
      OBVIOUS
    <3>2. evidence[i].reward \in {{}} \cup {{r} : r \in R}
      BY <3>1 DEF Logged
    <3>3. evidence[i].reward # {}
      BY <1>2, <1>4 DEF IsNumber
    <3>4. PICK r \in R : evidence[i].reward = {r}
      BY <3>2, <3>3
    <3> QED BY <3>4
  <2>3. made \in [1 .. Len(evidence) -> R]
    BY <1>2, <2>2
  <2>4. Len(evidence) \in 0 .. n
    BY <1>2
  <2> HIDE DEF rewards, made
  <2> QED BY <2>1, <2>3, <2>4
<1>5. degenerate \in BOOLEAN
  OBVIOUS
<1>6. ~degenerate => Len(evidence) >= g.minSupported
  BY <1>2
<1> HIDE DEF e, rewards, degenerate
<1> QED BY <1>1, <1>3, <1>4, <1>5, <1>6 DEF e

(* The offline gate approves on what was seen by the cutoff, with enough  *)
(* evidence of both policies, and never both of them against each other    *)
(* (evaluate, decide), when no wealth is below its unit.                   *)
THEOREM OfflineGateSound ==
  ASSUME NEW States, NEW R, NEW transitions \in Seq(Logged(States, R)), NEW cutoff, NEW p, NEW q,
         NEW g, g.minSupported \in Int, g.advantage \in Int, g.advantage > 0,
         \A m \in 0 .. Len(transitions) : \A r \in [1 .. m -> R] : Wealth(r, g.unit) \in Int
  PROVE  OfflineSound(g, transitions, p, q, cutoff)
<1> DEFINE eval(policy) == Evaluation(g, transitions, policy, cutoff)
           seen == Only(transitions, {t \in ToSet(transitions) : t.available <= cutoff})
           gains(policy) == Only(seen, {t \in ToSet(seen) : policy[t.state] = t.action})
<1>1. seen = Known(transitions, cutoff)
  BY DEF Known
<1>2. \A policy : gains(policy) = Evidence(transitions, policy, cutoff)
  BY Zenon DEF Evidence, Known
<1>3. eval(p) = Evaluation(g, seen, p, cutoff)
  BY <1>1, SeesTheKnown
<1>4. ASSUME NEW policy
      PROVE  /\ eval(policy).wealth \in Int
             /\ ~eval(policy).degenerate => Len(gains(policy)) >= g.minSupported
  <2> DEFINE evidence == Evidence(transitions, policy, cutoff)
             safe == ReportSafe(g, transitions, policy, cutoff)
  <2>1. evidence \in Seq(Logged(States, R)) /\ Len(evidence) <= Len(transitions)
        /\ Len(transitions) \in Nat
    BY EvidenceIs
  <2>2. eval(policy) = EvalOf(g, evidence, safe)
    BY EvaluationIs
  <2>3. gains(policy) = evidence
    BY <1>2
  <2> HIDE DEF evidence, safe, eval, gains
  <2>4. LET e == EvalOf(g, evidence, safe) IN
        e.wealth \in Int /\ (~e.degenerate => Len(evidence) >= g.minSupported)
    BY <2>1, EvaluationMeans
  <2> QED BY <2>2, <2>3, <2>4
<1> HIDE DEF eval, gains
<1>5. ~(Approves(g, eval(p), eval(q)) /\ Approves(g, eval(q), eval(p)))
  BY <1>4 DEF Approves
<1>6. Approves(g, eval(p), eval(q)) =>
        Len(gains(q)) >= g.minSupported /\ Len(gains(p)) >= g.minSupported
  BY <1>4 DEF Approves
<1> QED BY <1>3, <1>5, <1>6, Zenon DEF OfflineSound, eval, gains

-----------------------------------------------------------------------------
(* THE BACKTEST (Backtest) *)

(* What can be tested: quotes that are not crossed and intents, of each    *)
(* time, and costs that are none or a loss.                                *)
MarketQuotes(Names) == {q \in [symbol : Names, bid : Nat, ask : Nat] : q.bid <= q.ask}
IntentsFor(Names) ==
  [symbol : Names, side : {"buy", "sell"}, quantity : Nat, limit : {{}} \cup {{x} : x \in Int}]
Backtests(Moments, Names) ==
  [times : Seq(Moments), cash : Int, slip : Nat, commission : Nat, scale : Nat, multiplier : Nat,
   quotes : [Moments -> Seq(MarketQuotes(Names))],
   intents : [Moments -> Seq(IntentsFor(Names))]]

(* A fill that is no better than the market of its time. *)
Fair(b, f) ==
  \E q \in QuotesOf(b.quotes[f.time], f.symbol) :
    IF f.side = "buy" THEN f.price >= q.ask * b.scale ELSE f.price <= q.bid * b.scale
FairFills(b, Moments, Names) ==
  {f \in [time : Moments, symbol : Names, side : {"buy", "sell"}, quantity : Nat,
          price : Int, fee : Nat] : Fair(b, f)}

(* A sequence of the quotes of a symbol has at most the one the market     *)
(* made last.                                                              *)
LEMMA OneToSeq ==
  ASSUME NEW f
  PROVE  SetToSeq({f}) = <<f>> /\ SetToSeq({}) = << >>
<1>1. SetToSeq({f}) = <<f>>
  <2>1. Cardinality({f}) = 1
    BY FS_Singleton
  <2>2. <<f>> \in [1 .. 1 -> {f}] /\ IsInjective(<<f>>)
    BY DEF IsInjective
  <2> DEFINE s == CHOOSE g \in [1 .. 1 -> {f}] : IsInjective(g)
  <2>3. s \in [1 .. 1 -> {f}]
    BY <2>2
  <2>4. SetToSeq({f}) = s
    BY <2>1 DEF SetToSeq
  <2> HIDE DEF s
  <2>5. s = <<f>>
    BY <2>3
  <2> QED BY <2>4, <2>5
<1>2. SetToSeq({}) = << >>
  <2>1. Cardinality({}) = 0
    BY FS_EmptySet
  <2>2. << >> \in [1 .. 0 -> {}] /\ IsInjective(<< >>)
    BY DEF IsInjective
  <2> DEFINE s == CHOOSE g \in [1 .. 0 -> {}] : IsInjective(g)
  <2>3. s \in [1 .. 0 -> {}]
    BY <2>2
  <2>4. SetToSeq({}) = s
    BY <2>1 DEF SetToSeq
  <2> HIDE DEF s
  <2>5. s = << >>
    BY <2>3
  <2> QED BY <2>4, <2>5
<1> QED BY <1>1, <1>2

LEMMA QuoteOfSymbol ==
  ASSUME NEW M, NEW offers \in Seq(M), NEW symbol, QuotesOf(offers, symbol) # {}
  PROVE  \E q \in M : QuotesOf(offers, symbol) = {q}
<1> DEFINE n == Len(offers)
           own == {i \in DOMAIN offers : offers[i].symbol = symbol}
<1>1. n \in Nat /\ own \in SUBSET (1 .. n) /\ \A i \in 1 .. n : offers[i] \in M
  OBVIOUS
<1>2. own # {} /\ QuotesOf(offers, symbol) = {offers[Max(own)]}
  BY DEF QuotesOf
<1> HIDE DEF own, n
<1>3. Max(own) \in 1 .. n
  BY <1>1, <1>2, MaxOfPositions
<1> QED BY <1>1, <1>2, <1>3

(* A fill is no better than the quote it met.                              *)
LEMMA FillIsFair ==
  ASSUME NEW Moments, NEW Names, NEW b \in Backtests(Moments, Names), NEW t \in Moments,
         NEW intent \in IntentsFor(Names), NEW q \in QuotesOf(b.quotes[t], intent.symbol),
         Meets(intent, q)
  PROVE  Fill(b, t, intent, q) \in FairFills(b, Moments, Names) /\ Fill(b, t, intent, q).time = t
<1> DEFINE f == Fill(b, t, intent, q)
           base == BasePrice(intent, q)
           price == Price(b, intent, q)
<1>1. /\ b.scale \in Nat /\ b.slip \in Nat /\ b.commission \in Nat
      /\ b.quotes[t] \in Seq(MarketQuotes(Names))
  BY DEF Backtests
<1>2. /\ intent.symbol \in Names /\ intent.side \in {"buy", "sell"} /\ intent.quantity \in Nat
      /\ intent.limit = {} \/ \E x \in Int : intent.limit = {x}
  BY DEF IntentsFor
<1>3. q \in MarketQuotes(Names)
  <2>1. QuotesOf(b.quotes[t], intent.symbol) # {}
    OBVIOUS
  <2>2. PICK r \in MarketQuotes(Names) : QuotesOf(b.quotes[t], intent.symbol) = {r}
    BY <1>1, <2>1, QuoteOfSymbol
  <2> QED BY <2>2
<1>4. q.bid \in Nat /\ q.ask \in Nat
  BY <1>3 DEF MarketQuotes
<1>5. base = IF intent.side = "buy" THEN q.ask ELSE q.bid
  <2>1. CASE intent.side = "buy"
    <3>1. {q.ask} \cup intent.limit \in SUBSET Int /\ q.ask \in {q.ask} \cup intent.limit
      BY <1>2, <1>4
    <3>2. \A x \in {q.ask} \cup intent.limit : q.ask <= x
      BY <1>4, <2>1 DEF Meets
    <3>3. Min({q.ask} \cup intent.limit) = q.ask
      BY <3>1, <3>2, MinIs
    <3> QED BY <2>1, <3>3 DEF BasePrice
  <2>2. CASE intent.side # "buy"
    <3>1. {q.bid} \cup intent.limit \in SUBSET Int /\ q.bid \in {q.bid} \cup intent.limit
      BY <1>2, <1>4
    <3>2. \A x \in {q.bid} \cup intent.limit : x <= q.bid
      <4>1. \A x \in intent.limit : x \in Int /\ q.bid >= x
        BY <1>2, <2>2 DEF Meets
      <4> QED BY <1>4, <4>1
    <3>3. Max({q.bid} \cup intent.limit) = q.bid
      BY <3>1, <3>2, MaxIs
    <3> QED BY <2>2, <3>3 DEF BasePrice
  <2> QED BY <2>1, <2>2
<1> HIDE DEF base
<1>6. price \in Int /\ IF intent.side = "buy" THEN price >= q.ask * b.scale
                       ELSE price <= q.bid * b.scale
  <2>0. ASSUME NEW x \in Nat, NEW y \in Nat, NEW z \in Nat
        PROVE  /\ x * (y + z) \in Int /\ x * (y + z) >= x * y
               /\ x * (y - z) \in Int /\ x * (y - z) <= x * y /\ x * y >= 0 /\ x * y \in Int
    <3>1. x * (y + z) = x * y + x * z /\ x * (y - z) = x * y - x * z
      OBVIOUS
    <3>2. x * y \in Nat /\ x * z \in Nat
      OBVIOUS
    <3> QED BY <3>1, <3>2
  <2>1. CASE intent.side = "buy"
    <3>1. price = q.ask * (b.scale + b.slip)
      BY <1>5, <2>1 DEF Price, base
    <3> HIDE DEF price
    <3> QED BY <1>1, <1>4, <2>0, <2>1, <3>1
  <2>2. CASE intent.side # "buy"
    <3> DEFINE y == q.bid * (b.scale - b.slip)
    <3>1. price = Max({0, y})
      BY <1>5, <2>2 DEF Price, base
    <3>2. y \in Int /\ y <= q.bid * b.scale /\ q.bid * b.scale \in Int /\ q.bid * b.scale >= 0
      BY <1>1, <1>4, <2>0
    <3> HIDE DEF y, price
    <3>3. price = IF 0 >= y THEN 0 ELSE y
      BY <3>1, <3>2, MaxOfTwo
    <3> QED BY <2>2, <3>2, <3>3
  <2> QED BY <2>1, <2>2
<1>7. f = [time |-> t, symbol |-> intent.symbol, side |-> intent.side,
           quantity |-> intent.quantity, price |-> price,
           fee |-> b.commission * intent.quantity]
  BY DEF Fill
<1> HIDE DEF f, price
<1>8. b.commission * intent.quantity \in Nat
  <2>1. ASSUME NEW x \in Nat, NEW y \in Nat PROVE x * y \in Nat
    OBVIOUS
  <2> QED BY <1>1, <1>2, <2>1
<1>9. /\ f \in [time : Moments, symbol : Names, side : {"buy", "sell"}, quantity : Nat,
                price : Int, fee : Nat]
      /\ f.time = t /\ f.symbol = intent.symbol /\ f.side = intent.side /\ f.price = price
  BY <1>2, <1>6, <1>7, <1>8
<1>10. Fair(b, f)
  BY <1>6, <1>9 DEF Fair
<1> QED BY <1>9, <1>10 DEF FairFills, f

LEMMA FillsAreFair ==
  ASSUME NEW Moments, NEW Names, NEW b \in Backtests(Moments, Names), NEW t \in Moments
  PROVE  FillsAt(b, t) \in Seq({f \in FairFills(b, Moments, Names) : f.time = t})
<1> DEFINE X == {f \in FairFills(b, Moments, Names) : f.time = t}
           n == Len(b.intents[t])
           Made(i) == LET intent == b.intents[t][i] IN
             {Fill(b, t, intent, q) :
                q \in {q \in QuotesOf(b.quotes[t], intent.symbol) : Meets(intent, q)}}
           seqs == [i \in 1 .. n |-> SetToSeq(Made(i))]
<1>1. b.intents[t] \in Seq(IntentsFor(Names)) /\ b.quotes[t] \in Seq(MarketQuotes(Names))
  BY DEF Backtests
<1>2. n \in Nat /\ DOMAIN b.intents[t] = 1 .. n
      /\ \A i \in 1 .. n : b.intents[t][i] \in IntentsFor(Names)
  BY <1>1
<1>3. FillsAt(b, t) = FlattenSeq(seqs)
  BY <1>2, Zenon DEF FillsAt
<1>4. ASSUME NEW i \in 1 .. n PROVE SetToSeq(Made(i)) \in Seq(X)
  <2> DEFINE intent == b.intents[t][i]
             Q == {q \in QuotesOf(b.quotes[t], intent.symbol) : Meets(intent, q)}
  <2>1. Made(i) = {Fill(b, t, intent, q) : q \in Q}
    OBVIOUS
  <2>2. Q = {} \/ \E q : Q = {q}
    <3>1. CASE QuotesOf(b.quotes[t], intent.symbol) = {}
      BY <3>1
    <3>2. CASE QuotesOf(b.quotes[t], intent.symbol) # {}
      <4>1. PICK q \in MarketQuotes(Names) : QuotesOf(b.quotes[t], intent.symbol) = {q}
        BY <1>1, <3>2, QuoteOfSymbol
      <4> QED BY <4>1
    <3> QED BY <3>1, <3>2
  <2>3. \A q \in Q : Fill(b, t, intent, q) \in X
    BY <1>2, FillIsFair
  <2> HIDE DEF Made, Q, X, intent
  <2>4. CASE Q = {}
    <3>1. Made(i) = {}
      BY <2>1, <2>4
    <3>2. SetToSeq(Made(i)) = << >>
      BY <3>1, OneToSeq
    <3> QED BY <3>2
  <2>5. CASE Q # {}
    <3>1. PICK q : Q = {q}
      BY <2>2, <2>5
    <3> DEFINE f == Fill(b, t, intent, q)
    <3>2. Made(i) = {f} /\ f \in X
      BY <2>1, <2>3, <3>1
    <3> HIDE DEF f
    <3>3. SetToSeq(Made(i)) = <<f>>
      BY <3>2, OneToSeq
    <3>4. <<f>> \in Seq(X)
      BY <3>2
    <3> QED BY <3>3, <3>4
  <2> QED BY <2>4, <2>5
<1> HIDE DEF Made, X, n
<1>5. seqs \in [1 .. n -> Seq(X)]
  BY <1>4
<1> HIDE DEF seqs
<1>6. FlattenSeq(seqs) \in Seq(X)
  <2>1. PICK acc \in [0 .. n -> Seq(X)] :
          /\ acc[0] = << >>
          /\ \A k \in 1 .. n : acc[k] = acc[k - 1] \o seqs[k]
          /\ FlattenSeq(seqs) = acc[n]
    BY <1>2, <1>5, FlattenRuns
  <2> QED BY <1>2, <2>1
<1> QED BY <1>3, <1>6 DEF X

(* What a time adds to the run, and the recursion of the run. *)
Flow(b, t) == LET fills == FillsAt(b, t) IN
  SumFunction([i \in DOMAIN fills |-> CashFlow(b, fills[i])])
Booked(b, r, t) ==
  [cash |-> r.cash + Flow(b, t), curve |-> Append(r.curve, r.cash + Flow(b, t)),
   fills |-> r.fills \o FillsAt(b, t)]
Opened(b) == [cash |-> b.cash, curve |-> << >>, fills |-> << >>]
RunBody(b, g) ==
  [s \in SUBSET DOMAIN b.times |->
     IF s = {} THEN Opened(b) ELSE Booked(b, g[s \ {Max(s)}], b.times[Max(s)])]
RunIter(b) == CHOOSE g : g = RunBody(b, g)

LEMMA RunIsIter ==
  ASSUME NEW b
  PROVE  Run(b) = RunIter(b)[DOMAIN b.times]
BY DEF Run, FoldLeft, MapThenFoldSet, RunIter, RunBody, Booked, Opened, Flow

(* A result of a run up to some time. *)
Results(b, Moments, Names) ==
  [cash : Int, curve : Seq(Int), fills : Seq(FairFills(b, Moments, Names))]

(* Every time adds a number to the cash and fair fills to the fills.       *)
LEMMA FlowIsNumber ==
  ASSUME NEW Moments, NEW Names, NEW b \in Backtests(Moments, Names), NEW t \in Moments
  PROVE  Flow(b, t) \in Int
<1> DEFINE fills == FillsAt(b, t)
           n == Len(fills)
           f == [i \in DOMAIN fills |-> CashFlow(b, fills[i])]
           X == {x \in FairFills(b, Moments, Names) : x.time = t}
<1>1. fills \in Seq(X)
  BY FillsAreFair
<1>2. n \in Nat /\ DOMAIN fills = 1 .. n /\ \A i \in 1 .. n : fills[i] \in X
  <2> HIDE DEF fills, X
  <2> QED BY <1>1
<1>3. b.multiplier \in Nat
  BY DEF Backtests
<1>4. ASSUME NEW x \in X PROVE CashFlow(b, x) \in Int
  <2>1. x.price \in Int /\ x.quantity \in Nat /\ x.fee \in Nat
    BY DEF FairFills
  <2>2. x.price * x.quantity * b.multiplier \in Int
    <3>1. x.price * x.quantity \in Int
      BY <2>1
    <3> QED BY <1>3, <3>1
  <2> QED BY <2>1, <2>2 DEF CashFlow
<1>5. f \in [1 .. n -> Int]
  <2> HIDE DEF fills, X, n
  <2> QED BY <1>2, <1>4
<1>6. DOMAIN f = 1 .. n
  <2> HIDE DEF fills, n
  <2> QED BY <1>2
<1>7. IsFiniteSet(1 .. n)
  <2>1. n \in Int
    BY <1>2
  <2> HIDE DEF n
  <2>2. 1 \in Int
    OBVIOUS
  <2> QED BY <2>1, <2>2, FS_Interval, Zenon
<1>8. Flow(b, t) = SumFunctionOnSet(f, DOMAIN f)
  BY Zenon DEF Flow, SumFunction
<1> HIDE DEF f, n
<1>9. SumFunctionOnSet(f, 1 .. n) \in Int
  BY <1>5, <1>7, SumType
<1> QED BY <1>6, <1>8, <1>9

LEMMA BookedResult ==
  ASSUME NEW Moments, NEW Names, NEW b \in Backtests(Moments, Names), NEW t \in Moments,
         NEW r \in Results(b, Moments, Names)
  PROVE  Booked(b, r, t) \in Results(b, Moments, Names)
<1> DEFINE X == FairFills(b, Moments, Names)
           new == FillsAt(b, t)
           cash == r.cash + Flow(b, t)
<1>1. r.cash \in Int /\ r.curve \in Seq(Int) /\ r.fills \in Seq(X)
  BY DEF Results
<1>2. cash \in Int
  BY <1>1, FlowIsNumber
<1>3. new \in Seq(X)
  <2> DEFINE Y == {f \in X : f.time = t}
  <2>1. new \in Seq(Y)
    BY FillsAreFair
  <2>2. Y \subseteq X
    OBVIOUS
  <2> HIDE DEF X, Y, new
  <2> QED BY <2>1, <2>2
<1> HIDE DEF X, new, cash
<1>4. Append(r.curve, cash) \in Seq(Int)
  BY <1>1, <1>2
<1>5. r.fills \o new \in Seq(X)
  BY <1>1, <1>3, JoinedType
<1>6. Booked(b, r, t) = [cash |-> cash, curve |-> Append(r.curve, cash), fills |-> r.fills \o new]
  BY Zenon DEF Booked, cash, new
<1> QED BY <1>2, <1>4, <1>5, <1>6 DEF Results, X

(* The run books one time after the other. *)
Books(b, n, acc) ==
  acc[0] = Opened(b) /\ \A k \in 1 .. n : acc[k] = Booked(b, acc[k - 1], b.times[k])

(* A run books one time after the other.                                   *)
LEMMA RunBooks ==
  ASSUME NEW Moments, NEW Names, NEW b \in Backtests(Moments, Names), NEW n \in Nat,
         n = Len(b.times)
  PROVE  \E acc \in [0 .. n -> Results(b, Moments, Names)] : Books(b, n, acc) /\ Run(b) = acc[n]
<1> DEFINE T == Results(b, Moments, Names)
           F == [p \in T \X (1 .. n) |-> Booked(b, p[1], b.times[p[2]])]
           base == Opened(b)
<1>1. b.times \in Seq(Moments) /\ DOMAIN b.times = 1 .. n /\ \A k \in 1 .. n : b.times[k] \in Moments
  <2>1. b.times \in Seq(Moments)
    BY DEF Backtests
  <2> QED BY <2>1
<1>2. F \in [T \X (1 .. n) -> T]
  <2>1. ASSUME NEW r \in T, NEW i \in 1 .. n PROVE Booked(b, r, b.times[i]) \in T
    BY <1>1, BookedResult
  <2> HIDE DEF T
  <2> QED BY <2>1
<1>3. \A r \in T, i \in 1 .. n : F[<<r, i>>] = Booked(b, r, b.times[i])
  OBVIOUS
<1>4. base \in T
  <2>1. b.cash \in Int
    BY DEF Backtests
  <2>2. << >> \in Seq(Int) /\ << >> \in Seq(FairFills(b, Moments, Names))
    OBVIOUS
  <2> QED BY <2>1, <2>2 DEF Opened, Results
<1> HIDE DEF F, T, base
<1>5. PICK g \in [SUBSET (1 .. n) -> T] : Recursion(F, base, n, g)
  BY <1>2, <1>4, RecursionHasSolution
<1>6. ASSUME NEW s \in SUBSET (1 .. n)
      PROVE  g[s] = IF s = {} THEN base ELSE Booked(b, g[s \ {Max(s)}], b.times[Max(s)])
  <2>1. CASE s = {}
    BY <1>5, <2>1 DEF Recursion
  <2>2. CASE s # {}
    <3>1. Max(s) \in 1 .. n
      BY <2>2, MaxOfPositions
    <3>2. g[s \ {Max(s)}] \in T
      <4>1. s \ {Max(s)} \in SUBSET (1 .. n)
        OBVIOUS
      <4> QED BY <1>5, <4>1
    <3>3. g[s] = F[<<g[s \ {Max(s)}], Max(s)>>]
      BY <1>5, <2>2 DEF Recursion
    <3>4. F[<<g[s \ {Max(s)}], Max(s)>>] = Booked(b, g[s \ {Max(s)}], b.times[Max(s)])
      BY <1>3, <3>1, <3>2
    <3> QED BY <2>2, <3>3, <3>4
  <2> QED BY <2>1, <2>2
<1>7. g = RunBody(b, g)
  <2>1. g = [s \in SUBSET (1 .. n) |-> g[s]]
    BY <1>5
  <2>2. g = [s \in SUBSET (1 .. n) |->
               IF s = {} THEN base ELSE Booked(b, g[s \ {Max(s)}], b.times[Max(s)])]
    BY <1>6, <2>1
  <2> QED BY <1>1, <2>2 DEF RunBody, base
<1> DEFINE h == RunIter(b)
<1>8. h = RunBody(b, h)
  BY <1>7 DEF RunIter
<1> HIDE DEF h
<1>9. \A s \in SUBSET (1 .. n) :
        h[s] = IF s = {} THEN base ELSE Booked(b, h[s \ {Max(s)}], b.times[Max(s)])
  BY <1>1, <1>8 DEF RunBody, base
<1>10. h[1 .. 0] = base
  <2>1. 1 .. 0 = {} /\ {} \in SUBSET (1 .. n)
    OBVIOUS
  <2> QED BY <1>9, <2>1
<1>11. ASSUME NEW k \in 1 .. n
       PROVE  h[1 .. k] = Booked(b, h[1 .. (k - 1)], b.times[k])
  <2>1. /\ 1 .. k \in SUBSET (1 .. n) /\ 1 .. k # {} /\ Max(1 .. k) = k
        /\ (1 .. k) \ {Max(1 .. k)} = 1 .. (k - 1)
    BY Accumulates
  <2>2. h[1 .. k] = Booked(b, h[(1 .. k) \ {Max(1 .. k)}], b.times[Max(1 .. k)])
    BY <1>9, <2>1, Zenon
  <2> QED BY <2>1, <2>2, Zenon
<1> DEFINE acc == [k \in 0 .. n |-> h[1 .. k]]
<1>12. acc[0] = base /\ acc[n] = h[1 .. n]
  BY <1>10
<1>13. ASSUME NEW k \in 1 .. n PROVE acc[k] = Booked(b, acc[k - 1], b.times[k])
  <2>1. k \in 0 .. n /\ k - 1 \in 0 .. n
    OBVIOUS
  <2> QED BY <1>11, <2>1
<1>14. Run(b) = h[1 .. n]
  BY <1>1, RunIsIter DEF h
<1>15. acc = [k \in 0 .. n |-> acc[k]]
  OBVIOUS
<1> HIDE DEF acc
<1> DEFINE Typed == {k \in 0 .. n : acc[k] \in T}
<1>16. 0 \in Typed
  BY <1>4, <1>12
<1>17. ASSUME NEW k \in 1 .. n, k - 1 \in Typed PROVE k \in Typed
  <2>1. acc[k - 1] \in T
    BY <1>17
  <2>2. Booked(b, acc[k - 1], b.times[k]) \in T
    BY <1>1, <2>1, BookedResult DEF T
  <2> QED BY <1>13, <2>2
<1> HIDE DEF Typed
<1>18. \A k \in 0 .. n : k \in Typed
  BY <1>16, <1>17, CountUp
<1>19. acc \in [0 .. n -> T]
  BY <1>15, <1>18 DEF Typed
<1>20. Books(b, n, acc)
  BY <1>12, <1>13 DEF Books, base
<1> QED BY <1>12, <1>14, <1>19, <1>20 DEF T

(* The fills of a time, by what of the test they depend on. *)
FillsBy(intents, offers, commission, scale, slip, t) ==
  FlattenSeq([i \in DOMAIN intents[t] |->
    LET intent == intents[t][i] IN
    SetToSeq({[time |-> t, symbol |-> intent.symbol, side |-> intent.side,
               quantity |-> intent.quantity,
               price |-> IF intent.side = "buy" THEN BasePrice(intent, q) * (scale + slip)
                         ELSE Max({0, BasePrice(intent, q) * (scale - slip)}),
               fee |-> commission * intent.quantity] :
                q \in {q \in QuotesOf(offers[t], intent.symbol) : Meets(intent, q)}})])

(* What a time adds does not depend on the other times, so that a run that *)
(* is cut books the same up to there.                                      *)
LEMMA FillsDependOn ==
  ASSUME NEW b, NEW t
  PROVE  FillsAt(b, t) = FillsBy(b.intents, b.quotes, b.commission, b.scale, b.slip, t)
BY Zenon DEF FillsAt, Fill, Price, FillsBy

LEMMA SameOtherwise ==
  ASSUME NEW b, NEW d, d.intents = b.intents, d.quotes = b.quotes, d.slip = b.slip,
         d.commission = b.commission, d.scale = b.scale, d.multiplier = b.multiplier,
         d.cash = b.cash
  PROVE  /\ \A t : FillsAt(d, t) = FillsAt(b, t) /\ Flow(d, t) = Flow(b, t)
         /\ Opened(d) = Opened(b)
         /\ \A r, t : Booked(d, r, t) = Booked(b, r, t)
<1>1. ASSUME NEW t PROVE FillsAt(d, t) = FillsAt(b, t) /\ Flow(d, t) = Flow(b, t)
  <2>1. FillsAt(d, t) = FillsAt(b, t)
    BY FillsDependOn, Zenon
  <2>2. \A f : CashFlow(d, f) = CashFlow(b, f)
    BY Zenon DEF CashFlow
  <2> DEFINE fills == FillsAt(b, t)
  <2>3. [i \in DOMAIN fills |-> CashFlow(d, fills[i])] =
        [i \in DOMAIN fills |-> CashFlow(b, fills[i])]
    BY <2>2
  <2>4. Flow(d, t) = SumFunction([i \in DOMAIN fills |-> CashFlow(d, fills[i])])
    BY <2>1, Zenon DEF Flow
  <2>5. Flow(b, t) = SumFunction([i \in DOMAIN fills |-> CashFlow(b, fills[i])])
    BY Zenon DEF Flow
  <2> HIDE DEF fills
  <2> QED BY <2>1, <2>3, <2>4, <2>5, Zenon
<1>2. Opened(d) = Opened(b)
  BY Zenon DEF Opened
<1>3. \A r, t : Booked(d, r, t) = Booked(b, r, t)
  BY <1>1, Zenon DEF Booked
<1> QED BY <1>1, <1>2, <1>3

(* Cut after a time, the run has booked the same so far. *)
CutAt(b, n) == [b EXCEPT !.times = SubSeq(b.times, 1, n)]
LEMMA CutBooksTheSame ==
  ASSUME NEW Moments, NEW Names, NEW b \in Backtests(Moments, Names),
         NEW n \in 0 .. Len(b.times),
         NEW acc \in [0 .. Len(b.times) -> Results(b, Moments, Names)],
         Books(b, Len(b.times), acc)
  PROVE  Run(CutAt(b, n)) = acc[n]
<1> DEFINE d == CutAt(b, n)
           l == Len(b.times)
<1>1. b.times \in Seq(Moments) /\ l \in Nat /\ n \in Nat
  <2>1. b.times \in Seq(Moments)
    BY DEF Backtests
  <2> QED BY <2>1
<1>2. /\ SubSeq(b.times, 1, n) \in Seq(Moments) /\ Len(SubSeq(b.times, 1, n)) = n
      /\ \A k \in 1 .. n : SubSeq(b.times, 1, n)[k] = b.times[k]
  BY <1>1, PrefixOf
<1>3. /\ d \in Backtests(Moments, Names) /\ d.times = SubSeq(b.times, 1, n)
      /\ d.intents = b.intents /\ d.quotes = b.quotes /\ d.slip = b.slip
      /\ d.commission = b.commission /\ d.scale = b.scale /\ d.multiplier = b.multiplier
      /\ d.cash = b.cash
  BY <1>2 DEF Backtests, CutAt
<1> HIDE DEF d, l
<1>4. Len(d.times) = n /\ \A k \in 1 .. n : d.times[k] = b.times[k]
  BY <1>2, <1>3
<1>5. PICK cut \in [0 .. n -> Results(d, Moments, Names)] : Books(d, n, cut) /\ Run(d) = cut[n]
  BY <1>1, <1>3, <1>4, RunBooks
<1>6. Opened(d) = Opened(b) /\ \A r, t : Booked(d, r, t) = Booked(b, r, t)
  BY <1>3, SameOtherwise
<1> DEFINE Same == {k \in 0 .. n : cut[k] = acc[k]}
<1>7. 0 \in Same
  BY <1>1, <1>5, <1>6 DEF Books
<1>8. ASSUME NEW k \in 1 .. n, k - 1 \in Same PROVE k \in Same
  <2>1. k \in 1 .. l
    BY <1>1 DEF l
  <2>2. cut[k] = Booked(d, cut[k - 1], d.times[k]) /\ acc[k] = Booked(b, acc[k - 1], b.times[k])
    BY <1>5, <2>1 DEF Books, l
  <2>3. cut[k - 1] = acc[k - 1] /\ d.times[k] = b.times[k]
    BY <1>4, <1>8
  <2> QED BY <1>6, <2>2, <2>3
<1> HIDE DEF Same
<1>9. \A k \in 0 .. n : k \in Same
  BY <1>1, <1>7, <1>8, CountUp
<1>10. cut[n] = acc[n]
  <2>1. n \in Same
    BY <1>1, <1>9
  <2> QED BY <2>1 DEF Same
<1> QED BY <1>5, <1>10 DEF d

(* s is how t begins. *)
Begins(s, t) == Len(s) <= Len(t) /\ \A i \in 1 .. Len(s) : s[i] = t[i]

(* What begins a sequence is a prefix of it, and of a longer one.          *)
LEMMA BeginsIsPrefix ==
  ASSUME NEW X, NEW s \in Seq(X), NEW t \in Seq(X), Begins(s, t)
  PROVE  IsPrefix(s, t) /\ s = SubSeq(t, 1, Len(s))
<1> DEFINE n == Len(s)
           u == SubSeq(t, 1, n)
           v == SubSeq(s, 1, n)
<1>1. n \in Nat /\ n <= Len(t) /\ Len(t) \in Nat
  BY DEF Begins
<1>2. u \in Seq(X) /\ Len(u) = n /\ \A j \in 1 .. n : u[j] = t[j]
  <2>1. n \in 0 .. Len(t)
    BY <1>1
  <2> HIDE DEF n
  <2> QED BY <2>1, PrefixOf
<1>3. v \in Seq(X) /\ Len(v) = n /\ \A j \in 1 .. n : v[j] = s[j]
  <2>1. n \in 0 .. Len(s)
    BY <1>1
  <2> HIDE DEF n
  <2> QED BY <2>1, PrefixOf
<1> HIDE DEF u, v
<1>4. s = [i \in 1 .. n |-> s[i]] /\ u = [i \in 1 .. n |-> u[i]] /\ v = [i \in 1 .. n |-> v[i]]
  BY <1>2, <1>3, SequenceIsFunction
<1>5. \A i \in 1 .. n : s[i] = u[i] /\ s[i] = v[i]
  BY <1>2, <1>3 DEF Begins
<1> HIDE DEF n
<1>6. s = u /\ s = v
  BY <1>4, <1>5
<1> QED BY <1>1, <1>6 DEF IsPrefix, u, v, n

LEMMA JoinedBegins ==
  ASSUME NEW X, NEW s \in Seq(X), NEW t \in Seq(X), NEW u \in Seq(X), Begins(s, t)
  PROVE  Begins(s, t \o u)
<1>1. Len(t \o u) = Len(t) + Len(u) /\ \A i \in 1 .. Len(t) : (t \o u)[i] = t[i]
  OBVIOUS
<1>2. Len(s) \in Nat /\ Len(t) \in Nat /\ Len(u) \in Nat /\ Len(s) <= Len(t)
  BY DEF Begins
<1> DEFINE w == t \o u
<1>3. Len(w) = Len(t) + Len(u) /\ \A i \in 1 .. Len(t) : w[i] = t[i]
  BY <1>1
<1> HIDE DEF w
<1>4. \A i \in 1 .. Len(s) : i \in 1 .. Len(t) /\ s[i] = t[i]
  BY <1>2 DEF Begins
<1>5. Begins(s, w)
  BY <1>2, <1>3, <1>4 DEF Begins
<1> QED BY <1>5 DEF w

(* Sums along the positions, and of nothing.                               *)
LEMMA SumUpTo ==
  ASSUME NEW n \in Nat, NEW x \in [1 .. n -> Int], NEW k \in 1 .. n
  PROVE  /\ SumFunctionOnSet(x, 1 .. k) = SumFunctionOnSet(x, 1 .. (k - 1)) + x[k]
         /\ SumFunctionOnSet(x, 1 .. (k - 1)) \in Int
<1> DEFINE y == [i \in 1 .. k |-> x[i]]
<1>1. y \in [1 .. k -> Int] /\ \A i \in 1 .. k : x[i] = y[i]
  OBVIOUS
<1>2. k \in Int /\ k - 1 \in Int /\ 1 \in Int /\ k \in 1 .. k
  OBVIOUS
<1>3. IsFiniteSet(1 .. k) /\ IsFiniteSet(1 .. (k - 1))
  BY <1>2, FS_Interval, Zenon
<1>4. (1 .. k) \ {k} = 1 .. (k - 1)
  OBVIOUS
<1> HIDE DEF y
<1>5. SumFunctionOnSet(x, 1 .. k) = SumFunctionOnSet(y, 1 .. k)
  BY <1>1, <1>3, SumSame
<1>6. \A i \in 1 .. (k - 1) : x[i] = y[i]
  BY <1>1
<1>7. SumFunctionOnSet(x, 1 .. (k - 1)) = SumFunctionOnSet(y, 1 .. (k - 1))
  BY <1>3, <1>6, SumSame
<1>8. /\ SumFunctionOnSet(y, 1 .. k) = y[k] + SumFunctionOnSet(y, (1 .. k) \ {k})
      /\ SumFunctionOnSet(y, (1 .. k) \ {k}) \in Int
  BY <1>1, <1>2, <1>3, SumRemove
<1>9. y[k] = x[k] /\ x[k] \in Int
  BY <1>1, <1>2
<1> DEFINE a == SumFunctionOnSet(y, 1 .. (k - 1))
<1>10. SumFunctionOnSet(y, 1 .. k) = y[k] + a /\ a \in Int
  BY <1>4, <1>8, Zenon
<1>11. SumFunctionOnSet(x, 1 .. (k - 1)) = a
  BY <1>7
<1> HIDE DEF a
<1>12. SumFunctionOnSet(x, 1 .. k) = y[k] + a
  BY <1>5, <1>10, Zenon
<1>13. y[k] + a = a + x[k]
  BY <1>9, <1>10
<1> QED BY <1>10, <1>11, <1>12, <1>13, Zenon

LEMMA SumOfZeros ==
  ASSUME NEW S, IsFiniteSet(S), NEW f \in [S -> Int], \A x \in S : f[x] = 0
  PROVE  SumFunctionOnSet(f, S) = 0
<1>1. {} \in SUBSET S /\ \A x \in S \ {} : f[x] = 0
  OBVIOUS
<1>2. SumFunctionOnSet(f, S) = SumFunctionOnSet(f, {})
  BY <1>1, SumZeros
<1> QED BY <1>2, SumEmpty

LEMMA TimesSum ==
  ASSUME NEW a \in Int, NEW b \in Int, NEW c \in Int
  PROVE  a * (b + c) = a * b + a * c /\ a * b \in Int /\ a * c \in Int
OBVIOUS

(* What is valued by its class and cancels in each class is worth nothing. *)
Valued(n, S, c, v, d, x, shares) ==
  /\ \A i \in 1 .. n : x[i] = v[c[i]] * d[i]
  /\ \A s \in S : \A i \in 1 .. n : shares[s][i] = IF c[i] = s THEN d[i] ELSE 0
  /\ \A s \in S : SumFunctionOnSet(shares[s], 1 .. n) = 0
(* Numbers that are each a share of a value of their class add up to       *)
(* nothing, if the shares of every class do.                               *)
LEMMA SumByClass ==
  ASSUME NEW n \in Nat, NEW S, IsFiniteSet(S), NEW c \in [1 .. n -> S], NEW v \in [S -> Int],
         NEW d \in [1 .. n -> Int], NEW x \in [1 .. n -> Int],
         NEW shares \in [S -> [1 .. n -> Int]], Valued(n, S, c, v, d, x, shares)
  PROVE  SumFunctionOnSet(x, 1 .. n) = 0
<1> DEFINE P(k) == SumFunctionOnSet(x, 1 .. k)
           D(s, k) == SumFunctionOnSet(shares[s], 1 .. k)
           G(k) == [s \in S |-> v[s] * D(s, k)]
           W(k) == SumFunctionOnSet(G(k), S)
           Equal == {k \in 0 .. n : P(k) = W(k)}
<1>1. ASSUME NEW k \in 0 .. n PROVE G(k) \in [S -> Int]
  <2>1. ASSUME NEW s \in S PROVE D(s, k) \in Int
    <3>0. shares[s] \in [1 .. n -> Int]
      OBVIOUS
    <3>1. CASE k = 0
      <4>1. 1 .. k = {}
        BY <3>1
      <4>2. D(s, k) = 0
        BY <4>1, SumEmpty
      <4> QED BY <4>2
    <3>2. CASE k # 0
      <4>1. k \in 1 .. n
        BY <3>2
      <4>2. /\ D(s, k) = SumFunctionOnSet(shares[s], 1 .. (k - 1)) + shares[s][k]
            /\ SumFunctionOnSet(shares[s], 1 .. (k - 1)) \in Int
        BY <3>0, <4>1, SumUpTo
      <4>3. shares[s][k] \in Int
        BY <3>0, <4>1
      <4> QED BY <4>2, <4>3
    <3> QED BY <3>1, <3>2
  <2>2. ASSUME NEW s \in S PROVE v[s] * D(s, k) \in Int
    <3> HIDE DEF D
    <3>1. v[s] \in Int /\ D(s, k) \in Int
      BY <2>1
    <3> QED BY <3>1, TimesSum
  <2> HIDE DEF D
  <2> QED BY <2>2
<1>2. P(0) = W(0)
  <2>1. 1 .. 0 = {} /\ 0 \in 0 .. n
    OBVIOUS
  <2>2. P(0) = 0
    BY <2>1, SumEmpty
  <2>3. \A s \in S : D(s, 0) = 0
    BY <2>1, SumEmpty
  <2>4. G(0) \in [S -> Int]
    BY <1>1, <2>1
  <2>5. \A s \in S \ {} : G(0)[s] = 0
    <3> HIDE DEF D
    <3>1. \A s \in S : v[s] * 0 = 0
      OBVIOUS
    <3> QED BY <2>3, <3>1
  <2>6. {} \in SUBSET S
    OBVIOUS
  <2> DEFINE g == G(0)
  <2>8. W(0) = SumFunctionOnSet(g, S)
    OBVIOUS
  <2>9. g \in [S -> Int] /\ \A s \in S \ {} : g[s] = 0
    BY <2>4, <2>5
  <2> HIDE DEF G, W, g
  <2>7. \A s \in S : g[s] = 0
    BY <2>9
  <2>10. SumFunctionOnSet(g, S) = 0
    BY <2>7, <2>9, SumOfZeros, Zenon
  <2> QED BY <2>2, <2>8, <2>10
<1>3. ASSUME NEW k \in 1 .. n, k - 1 \in Equal PROVE k \in Equal
  <2> DEFINE j == k - 1
             s == c[k]
  <2>1. k \in 0 .. n /\ j \in 0 .. n /\ s \in S /\ d[k] \in Int /\ v[s] \in Int
    OBVIOUS
  <2>2. P(k) = P(j) + x[k]
    BY SumUpTo
  <2>3. ASSUME NEW r \in S PROVE D(r, k) = D(r, j) + shares[r][k] /\ D(r, j) \in Int
    <3>1. shares[r] \in [1 .. n -> Int]
      OBVIOUS
    <3> QED BY <3>1, SumUpTo
  <2>4. G(k) \in [S -> Int] /\ G(j) \in [S -> Int]
    BY <1>1, <2>1
  <2>5. \A r \in S : G(k)[r] = v[r] * D(r, k) /\ G(j)[r] = v[r] * D(r, j)
    OBVIOUS
  <2> HIDE DEF D, G, P, s, j
  <2>6. ASSUME NEW r \in S \ {s} PROVE G(j)[r] = G(k)[r]
    <3>1. shares[r][k] = 0
      BY DEF s, Valued
    <3> DEFINE a == D(r, j)
    <3>2. D(r, k) = a + shares[r][k] /\ a \in Int
      BY <2>3
    <3> HIDE DEF a
    <3>3. D(r, k) = a
      BY <3>1, <3>2
    <3> QED BY <2>5, <3>3 DEF a
  <2>7. G(k)[s] = G(j)[s] + v[s] * d[k]
    <3>1. shares[s][k] = d[k]
      BY <2>1 DEF s, Valued
    <3>2. D(s, k) = D(s, j) + d[k] /\ D(s, j) \in Int
      BY <2>1, <2>3, <3>1
    <3>3. v[s] * (D(s, j) + d[k]) = v[s] * D(s, j) + v[s] * d[k]
      BY <2>1, <3>2, TimesSum
    <3> QED BY <2>1, <2>5, <3>2, <3>3
  <2>8. W(k) = W(j) - G(j)[s] + G(k)[s]
    <3> DEFINE f == G(j)
               g == G(k)
    <3>1. W(k) = SumFunctionOnSet(g, S) /\ W(j) = SumFunctionOnSet(f, S)
      OBVIOUS
    <3>2. f \in [S -> Int] /\ g \in [S -> Int] /\ \A r \in S \ {s} : f[r] = g[r]
      BY <2>4, <2>6
    <3> HIDE DEF f, g, W
    <3>4. s \in S
      BY <2>1
    <3>5. f \in [S -> Int]
      BY <3>2
    <3>6. g \in [S -> Int]
      BY <3>2
    <3>7. \A r \in S \ {s} : f[r] = g[r]
      BY <3>2
    <3>3. SumFunctionOnSet(g, S) = SumFunctionOnSet(f, S) - f[s] + g[s]
      BY <3>4, <3>5, <3>6, <3>7, SumUpdate, ZenonT(40)
    <3> QED BY <3>1, <3>3 DEF f, g
  <2>9. W(j) \in Int /\ G(j)[s] \in Int /\ v[s] * d[k] \in Int
    <3>1. W(j) \in Int
      BY <2>4, SumType
    <3>2. v[s] * d[k] \in Int
      BY <2>1, TimesSum
    <3> QED BY <2>1, <2>4, <3>1, <3>2
  <2>10. x[k] = v[s] * d[k]
    BY DEF s, Valued
  <2>11. P(j) = W(j)
    BY <1>3 DEF j
  <2> HIDE DEF W
  <2> QED BY <2>1, <2>2, <2>7, <2>8, <2>9, <2>10, <2>11
<1>4. 0 \in Equal
  BY <1>2
<1> HIDE DEF Equal
<1>5. \A k \in 0 .. n : k \in Equal
  BY <1>3, <1>4, CountUp
<1>6. P(n) = W(n)
  <2>1. n \in Equal
    BY <1>5
  <2> QED BY <2>1 DEF Equal
<1>7. W(n) = 0
  <2>1. G(n) \in [S -> Int]
    BY <1>1
  <2>2. \A s \in S \ {} : G(n)[s] = 0
    <3>1. \A s \in S : D(s, n) = 0
      BY DEF Valued
    <3> HIDE DEF D
    <3>2. \A s \in S : v[s] * 0 = 0
      OBVIOUS
    <3> QED BY <3>1, <3>2
  <2>3. {} \in SUBSET S
    OBVIOUS
  <2> DEFINE g == G(n)
  <2>4. W(n) = SumFunctionOnSet(g, S)
    OBVIOUS
  <2>5. g \in [S -> Int] /\ \A s \in S \ {} : g[s] = 0
    BY <2>1, <2>2
  <2> HIDE DEF G, W, g
  <2>6. \A s \in S : g[s] = 0
    BY <2>5
  <2>7. SumFunctionOnSet(g, S) = 0
    BY <2>5, <2>6, SumOfZeros, Zenon
  <2> QED BY <2>4, <2>7
<1> QED BY <1>6, <1>7

(* What the market of its time makes of a fill, bought or sold at the bid. *)
Bid(b, t, s) == (CHOOSE q \in QuotesOf(b.quotes[t], s) : TRUE).bid
BidValue(b, t, s) == Bid(b, t, s) * b.scale * b.multiplier
Sold(f) == IF f.side = "buy" THEN 0 - f.quantity ELSE f.quantity

(* Products of prices, quantities and multipliers keep the order of the    *)
(* prices.                                                                 *)
LEMMA ProductOrder ==
  ASSUME NEW x \in Int, NEW y \in Int, NEW q \in Nat, NEW m \in Nat, x <= y
  PROVE  /\ x * q * m \in Int /\ y * q * m \in Int /\ x * q * m <= y * q * m
         /\ y * m * q = y * q * m /\ y * m * (0 - q) = 0 - y * q * m /\ y * m \in Int
<1>1. x * q \in Int /\ y * q \in Int /\ x * q <= y * q
  OBVIOUS
<1>2. (x * q) * m <= (y * q) * m /\ (x * q) * m \in Int /\ (y * q) * m \in Int
  BY <1>1
<1>3. y * m * q = y * q * m /\ y * m * (0 - q) = 0 - y * q * m /\ y * m \in Int
  OBVIOUS
<1> QED BY <1>2, <1>3

(* Cash flows in at most by what is sold, and out by what is bought, at    *)
(* the bid.                                                                *)
LEMMA FlowAtBid ==
  ASSUME NEW Moments, NEW Names, NEW b \in Backtests(Moments, Names), NEW t \in Moments,
         NEW f \in FairFills(b, Moments, Names), f.time = t
  PROVE  /\ BidValue(b, t, f.symbol) \in Int /\ CashFlow(b, f) \in Int
         /\ CashFlow(b, f) <= BidValue(b, t, f.symbol) * Sold(f)
<1>1. /\ f.price \in Int /\ f.quantity \in Nat /\ f.fee \in Nat /\ f.side \in {"buy", "sell"}
      /\ Fair(b, f)
  BY DEF FairFills
<1>2. b.scale \in Nat /\ b.multiplier \in Nat /\ b.quotes[t] \in Seq(MarketQuotes(Names))
  BY DEF Backtests
<1>3. PICK q \in MarketQuotes(Names) : QuotesOf(b.quotes[t], f.symbol) = {q}
  <2>1. QuotesOf(b.quotes[t], f.symbol) # {}
    BY <1>1 DEF Fair
  <2> QED BY <1>2, <2>1, QuoteOfSymbol
<1>4. q.bid \in Nat /\ q.ask \in Nat /\ q.bid <= q.ask /\ Bid(b, t, f.symbol) = q.bid
  BY <1>3 DEF MarketQuotes, Bid
<1> DEFINE m == q.bid * b.scale
           p == f.price
           n == f.quantity
           w == b.multiplier
<1>5. m \in Int /\ (f.side = "buy" => p >= m) /\ (f.side # "buy" => p <= m)
  <2>1. f.side = "buy" => p >= q.ask * b.scale
    BY <1>1, <1>3 DEF Fair
  <2>2. f.side # "buy" => p <= m
    BY <1>1, <1>3 DEF Fair
  <2>3. m \in Int /\ q.ask * b.scale \in Int /\ m <= q.ask * b.scale
    <3>1. ASSUME NEW x \in Nat, NEW y \in Nat, NEW z \in Nat, x <= y
          PROVE  x * z \in Int /\ y * z \in Int /\ x * z <= y * z
      BY <3>1
    <3> QED BY <1>2, <1>4, <3>1
  <2> HIDE DEF m
  <2> QED BY <1>1, <2>1, <2>2, <2>3
<1>6. BidValue(b, t, f.symbol) = m * w
  BY <1>4 DEF BidValue
<1>7. CashFlow(b, f) = IF f.side = "buy" THEN 0 - p * n * w - f.fee ELSE p * n * w - f.fee
  BY Zenon DEF CashFlow
<1>8. p \in Int /\ n \in Nat /\ w \in Nat
  BY <1>1, <1>2
<1> HIDE DEF m, p, n, w
<1>9. CASE f.side = "buy"
  <2>1. Sold(f) = 0 - n
    BY <1>9 DEF Sold, n
  <2>2. /\ m * n * w \in Int /\ p * n * w \in Int /\ m * n * w <= p * n * w
    BY <1>5, <1>8, <1>9, ProductOrder
  <2>3. m * w * (0 - n) = 0 - m * n * w /\ m * w \in Int
    BY <1>5, <1>8, ProductOrder
  <2>4. CashFlow(b, f) = 0 - p * n * w - f.fee
    BY <1>7, <1>9
  <2>5. BidValue(b, t, f.symbol) * Sold(f) = 0 - m * n * w
    BY <1>6, <2>1, <2>3
  <2> DEFINE x == p * n * w
             y == m * n * w
  <2>6. x \in Int /\ y \in Int /\ y <= x /\ CashFlow(b, f) = 0 - x - f.fee
        /\ BidValue(b, t, f.symbol) * Sold(f) = 0 - y
    BY <2>2, <2>4, <2>5
  <2> HIDE DEF x, y
  <2> QED BY <1>1, <1>6, <2>3, <2>6
<1>10. CASE f.side # "buy"
  <2>1. Sold(f) = n
    BY <1>10 DEF Sold, n
  <2>2. /\ m * n * w \in Int /\ p * n * w \in Int /\ p * n * w <= m * n * w
    BY <1>5, <1>8, <1>10, ProductOrder
  <2>3. m * w * n = m * n * w /\ m * w \in Int
    BY <1>5, <1>8, ProductOrder
  <2>4. CashFlow(b, f) = p * n * w - f.fee
    BY <1>7, <1>10
  <2>5. BidValue(b, t, f.symbol) * Sold(f) = m * n * w
    BY <1>6, <2>1, <2>3
  <2> DEFINE x == p * n * w
             y == m * n * w
  <2>6. x \in Int /\ y \in Int /\ x <= y /\ CashFlow(b, f) = x - f.fee
        /\ BidValue(b, t, f.symbol) * Sold(f) = y
    BY <2>2, <2>4, <2>5
  <2> HIDE DEF x, y
  <2> QED BY <1>1, <1>6, <2>3, <2>6
<1> QED BY <1>9, <1>10

(* What is bought and sold again at one time never gains. *)
LEMMA FlatNeverGains ==
  ASSUME NEW Moments, NEW Names, NEW b \in Backtests(Moments, Names), NEW t \in Moments,
         \A s \in SymbolsFilled(b, t) : Traded(b, t, "buy", s) = Traded(b, t, "sell", s)
  PROVE  Flow(b, t) <= 0
<1> DEFINE fills == FillsAt(b, t)
           n == Len(fills)
           S == SymbolsFilled(b, t)
           X == {f \in FairFills(b, Moments, Names) : f.time = t}
           c == [i \in 1 .. n |-> fills[i].symbol]
           v == [s \in S |-> IF BidValue(b, t, s) \in Int THEN BidValue(b, t, s) ELSE 0]
           d == [i \in 1 .. n |-> Sold(fills[i])]
           x == [i \in 1 .. n |-> v[c[i]] * d[i]]
           y == [i \in 1 .. n |-> CashFlow(b, fills[i])]
           shares == [s \in S |-> [i \in 1 .. n |-> IF c[i] = s THEN d[i] ELSE 0]]
<1>1. n \in Nat /\ DOMAIN fills = 1 .. n /\ \A i \in 1 .. n : fills[i] \in X
  <2>1. fills \in Seq(X)
    BY FillsAreFair
  <2> HIDE DEF fills, X
  <2> QED BY <2>1
<1>2. S = {fills[i].symbol : i \in 1 .. n}
  <2>1. S = {f.symbol : f \in ToSet(fills)}
    BY DEF SymbolsFilled
  <2>2. ToSet(fills) = {fills[i] : i \in 1 .. n}
    <3> HIDE DEF fills, n
    <3> QED BY <1>1 DEF ToSet
  <2> HIDE DEF S, fills, n
  <2> QED BY <2>1, <2>2
<1> DEFINE Buys(s) == [i \in 1 .. n |-> IF fills[i].side = "buy" /\ fills[i].symbol = s
                                          THEN fills[i].quantity ELSE 0]
           Sells(s) == [i \in 1 .. n |-> IF fills[i].side = "sell" /\ fills[i].symbol = s
                                           THEN fills[i].quantity ELSE 0]
<1>3. \A s : /\ Traded(b, t, "buy", s) = SumFunctionOnSet(Buys(s), 1 .. n)
             /\ Traded(b, t, "sell", s) = SumFunctionOnSet(Sells(s), 1 .. n)
  <2>1. DOMAIN fills = 1 .. n
    BY <1>1
  <2> HIDE DEF fills, n
  <2>2. ASSUME NEW s, NEW side
        PROVE  Traded(b, t, side, s) =
                 SumFunctionOnSet([i \in 1 .. n |-> IF fills[i].side = side /\ fills[i].symbol = s
                                                    THEN fills[i].quantity ELSE 0], 1 .. n)
    <3> DEFINE g == [i \in DOMAIN fills |-> IF fills[i].side = side /\ fills[i].symbol = s
                                            THEN fills[i].quantity ELSE 0]
    <3>1. Traded(b, t, side, s) = SumFunction(g)
      BY Zenon DEF Traded, fills
    <3>2. DOMAIN g = 1 .. n
      BY <2>1
    <3>3. g = [i \in 1 .. n |-> IF fills[i].side = side /\ fills[i].symbol = s
                                THEN fills[i].quantity ELSE 0]
      BY <2>1
    <3>4. SumFunction(g) = SumFunctionOnSet(g, DOMAIN g)
      BY Zenon DEF SumFunction
    <3> HIDE DEF g
    <3> QED BY <3>1, <3>2, <3>3, <3>4, Zenon
  <2> QED BY <2>2
<1>4. Flow(b, t) = SumFunctionOnSet(y, 1 .. n)
  <2> HIDE DEF n
  <2>1. Flow(b, t) = SumFunction([i \in DOMAIN fills |-> CashFlow(b, fills[i])])
    BY Zenon DEF Flow
  <2> HIDE DEF fills
  <2>2. Flow(b, t) = SumFunction(y)
    BY <1>1, <2>1
  <2>3. DOMAIN y = 1 .. n
    OBVIOUS
  <2> HIDE DEF y
  <2> QED BY <2>2, <2>3 DEF SumFunction
<1> HIDE DEF fills, n, X, S
<1>5. IsFiniteSet(1 .. n) /\ IsFiniteSet(S)
  <2>1. 1 \in Int /\ n \in Int
    BY <1>1
  <2>2. IsFiniteSet(1 .. n)
    BY <2>1, FS_Interval, Zenon
  <2> DEFINE g == [i \in 1 .. n |-> fills[i].symbol]
  <2>3. S = {g[i] : i \in 1 .. n}
    BY <1>2
  <2>4. g \in [1 .. n -> S] /\ \A s \in S : \E i \in 1 .. n : g[i] = s
    BY <2>3
  <2> HIDE DEF g
  <2>5. g \in Surjection(1 .. n, S)
    BY <2>4 DEF Surjection
  <2> QED BY <2>2, <2>5, FS_Surjection, Zenon
<1>6. \A i \in 1 .. n : /\ fills[i].quantity \in Nat /\ fills[i].side \in {"buy", "sell"}
                        /\ fills[i] \in FairFills(b, Moments, Names) /\ fills[i].time = t
                        /\ fills[i].symbol \in S
  BY <1>1, <1>2 DEF X, FairFills
<1>7. c \in [1 .. n -> S] /\ v \in [S -> Int]
  BY <1>6
<1>8. d \in [1 .. n -> Int]
  <2>1. \A i \in 1 .. n : Sold(fills[i]) \in Int
    BY <1>6 DEF Sold
  <2> QED BY <2>1
<1> HIDE DEF d, v, c
<1>9. x \in [1 .. n -> Int] /\ \A i \in 1 .. n : x[i] = v[c[i]] * d[i]
  <2>1. ASSUME NEW i \in 1 .. n PROVE v[c[i]] * d[i] \in Int
    <3>1. v[c[i]] \in Int /\ d[i] \in Int
      BY <1>7, <1>8
    <3> QED BY <3>1, TimesSum
  <2> QED BY <2>1
<1>10. shares \in [S -> [1 .. n -> Int]]
       /\ \A s \in S : \A i \in 1 .. n : shares[s][i] = IF c[i] = s THEN d[i] ELSE 0
  BY <1>8
<1> HIDE DEF x, shares
<1>11. ASSUME NEW s \in S PROVE SumFunctionOnSet(shares[s], 1 .. n) = 0
  <2> DEFINE f == shares[s]
             g == Buys(s)
             h == Sells(s)
  <2>1. f \in [1 .. n -> Int]
    BY <1>10
  <2>2. g \in [1 .. n -> Int] /\ h \in [1 .. n -> Int]
    BY <1>6
  <2>3. \A i \in 1 .. n : h[i] = f[i] + g[i]
    <3>1. ASSUME NEW i \in 1 .. n PROVE h[i] = f[i] + g[i]
      <4>1. f[i] = IF fills[i].symbol = s THEN Sold(fills[i]) ELSE 0
        BY <1>10 DEF c, d
      <4>2. /\ g[i] = IF fills[i].side = "buy" /\ fills[i].symbol = s
                      THEN fills[i].quantity ELSE 0
            /\ h[i] = IF fills[i].side = "sell" /\ fills[i].symbol = s
                      THEN fills[i].quantity ELSE 0
        OBVIOUS
      <4> HIDE DEF f, g, h
      <4> QED BY <1>6, <4>1, <4>2 DEF Sold
    <3> QED BY <3>1
  <2>4. SumFunctionOnSet(g, 1 .. n) = SumFunctionOnSet(h, 1 .. n)
    BY <1>3 DEF S
  <2> HIDE DEF f, g, h
  <2>5. SumFunctionOnSet(h, 1 .. n) = SumFunctionOnSet(f, 1 .. n) + SumFunctionOnSet(g, 1 .. n)
    <3>1. /\ IsFiniteSet(1 .. n) /\ f \in [1 .. n -> Int] /\ g \in [1 .. n -> Int]
          /\ h \in [1 .. n -> Int]
      BY <1>5, <2>1, <2>2
    <3> DEFINE N == 1 .. n
    <3>2. IsFiniteSet(N) /\ f \in [N -> Int] /\ g \in [N -> Int] /\ h \in [N -> Int]
          /\ \A i \in N : h[i] = f[i] + g[i]
      BY <2>3, <3>1
    <3> HIDE DEF N
    <3>3. SumFunctionOnSet(h, N) = SumFunctionOnSet(f, N) + SumFunctionOnSet(g, N)
      BY <3>2, SumPlus
    <3> QED BY <3>3 DEF N
  <2>6. SumFunctionOnSet(f, 1 .. n) \in Int /\ SumFunctionOnSet(g, 1 .. n) \in Int
    BY <1>5, <2>1, <2>2, SumType
  <2>7. SumFunctionOnSet(f, 1 .. n) = 0
    BY <2>4, <2>5, <2>6
  <2> QED BY <2>7 DEF f
<1>12. Valued(n, S, c, v, d, x, shares)
  BY <1>9, <1>10, <1>11 DEF Valued
<1>13. SumFunctionOnSet(x, 1 .. n) = 0
  <2>1. n \in Nat
    BY <1>1
  <2>2. IsFiniteSet(S)
    BY <1>5
  <2>3. c \in [1 .. n -> S]
    BY <1>7
  <2>4. v \in [S -> Int]
    BY <1>7
  <2>5. x \in [1 .. n -> Int]
    BY <1>9
  <2>6. shares \in [S -> [1 .. n -> Int]]
    BY <1>10
  <2> QED BY <1>8, <1>12, <2>1, <2>2, <2>3, <2>4, <2>5, <2>6, SumByClass
<1>14. y \in [1 .. n -> Int] /\ \A i \in 1 .. n : y[i] <= x[i]
  <2>1. ASSUME NEW i \in 1 .. n PROVE CashFlow(b, fills[i]) \in Int /\ CashFlow(b, fills[i]) <= x[i]
    <3> DEFINE f == fills[i]
    <3>1. /\ BidValue(b, t, f.symbol) \in Int /\ CashFlow(b, f) \in Int
          /\ CashFlow(b, f) <= BidValue(b, t, f.symbol) * Sold(f)
      BY <1>6, FlowAtBid
    <3>2. c[i] = f.symbol /\ d[i] = Sold(f) /\ v[f.symbol] = BidValue(b, t, f.symbol)
      BY <1>6, <3>1 DEF c, d, v
    <3>3. x[i] = BidValue(b, t, f.symbol) * Sold(f)
      BY <1>9, <3>2
    <3> QED BY <3>1, <3>3
  <2> QED BY <2>1
<1> HIDE DEF y
<1>15. SumFunctionOnSet(y, 1 .. n) <= SumFunctionOnSet(x, 1 .. n)
  BY <1>5, <1>9, <1>14, SumMonotone
<1> QED BY <1>4, <1>13, <1>15

(* The curve holds the cash of each time, and fills only come in addition. *)
LEMMA RunGrows ==
  ASSUME NEW Moments, NEW Names, NEW b \in Backtests(Moments, Names), NEW n \in Nat,
         n = Len(b.times), NEW acc \in [0 .. n -> Results(b, Moments, Names)], Books(b, n, acc)
  PROVE  /\ \A k \in 0 .. n :
              /\ Len(acc[k].curve) = k
              /\ \A j \in 1 .. k : acc[k].curve[j] = acc[j].cash
         /\ \A m \in 0 .. n : \A k \in m .. n : Begins(acc[m].fills, acc[k].fills)
<1> DEFINE X == FairFills(b, Moments, Names)
<1>0. ASSUME NEW k \in 1 .. n PROVE b.times[k] \in Moments
  <2>1. b.times \in Seq(Moments)
    BY DEF Backtests
  <2> QED BY <2>1
<1>1. \A k \in 0 .. n : /\ acc[k].cash \in Int /\ acc[k].curve \in Seq(Int)
                        /\ acc[k].fills \in Seq(X)
  <2> HIDE DEF X
  <2> QED BY DEF Results, X
<1>2. ASSUME NEW k \in 1 .. n
      PROVE  /\ k - 1 \in 0 .. n /\ k \in 0 .. n
             /\ acc[k].curve = Append(acc[k - 1].curve, acc[k].cash)
             /\ acc[k].fills = acc[k - 1].fills \o FillsAt(b, b.times[k])
  <2>1. acc[k] = Booked(b, acc[k - 1], b.times[k])
    BY DEF Books
  <2> DEFINE r == acc[k]
             o == acc[k - 1]
             t == b.times[k]
  <2>4. r = [cash |-> o.cash + Flow(b, t), curve |-> Append(o.curve, o.cash + Flow(b, t)),
             fills |-> o.fills \o FillsAt(b, t)]
    BY <2>1, Zenon DEF Booked
  <2> HIDE DEF r, o, t
  <2>2. /\ r.cash = o.cash + Flow(b, t)
        /\ r.curve = Append(o.curve, o.cash + Flow(b, t))
        /\ r.fills = o.fills \o FillsAt(b, t)
    BY <2>4
  <2> USE DEF r, o, t
  <2>3. k - 1 \in 0 .. n /\ k \in 0 .. n
    OBVIOUS
  <2> HIDE DEF X
  <2> QED BY <2>2, <2>3
<1>3. \A k \in 0 .. n : /\ Len(acc[k].curve) = k
                        /\ \A j \in 1 .. k : acc[k].curve[j] = acc[j].cash
  <2> DEFINE Held == {k \in 0 .. n : /\ Len(acc[k].curve) = k
                                     /\ \A j \in 1 .. k : acc[k].curve[j] = acc[j].cash}
  <2>1. 0 \in Held
    BY DEF Books, Opened
  <2>2. ASSUME NEW k \in 1 .. n, k - 1 \in Held PROVE k \in Held
    <3> DEFINE s == acc[k - 1].curve
               e == acc[k].cash
               u == acc[k].curve
    <3>1. s \in Seq(Int) /\ e \in Int /\ u = Append(s, e)
      BY <1>1, <1>2
    <3>2. Len(s) = k - 1 /\ \A j \in 1 .. (k - 1) : s[j] = acc[j].cash
      BY <2>2
    <3> HIDE DEF s, e, u
    <3>3. /\ Len(u) = Len(s) + 1 /\ u[Len(s) + 1] = e
          /\ \A j \in 1 .. Len(s) : u[j] = s[j]
      BY <3>1
    <3>4. Len(u) = k /\ u[k] = acc[k].cash
      BY <3>2, <3>3 DEF e
    <3>5. ASSUME NEW j \in 1 .. k PROVE u[j] = acc[j].cash
      <4>1. CASE j = k
        BY <3>4, <4>1
      <4>2. CASE j # k
        <5>1. j \in 1 .. (k - 1)
          BY <4>2
        <5> QED BY <3>2, <3>3, <5>1
      <4> QED BY <4>1, <4>2
    <3> QED BY <1>2, <3>4, <3>5 DEF u
  <2> HIDE DEF Held
  <2>3. \A k \in 0 .. n : k \in Held
    BY <2>1, <2>2, CountUp
  <2> QED BY <2>3 DEF Held
<1>4. ASSUME NEW m \in 0 .. n
      PROVE  \A k \in m .. n : Begins(acc[m].fills, acc[k].fills)
  <2> DEFINE From == {k \in 0 .. n : k >= m => Begins(acc[m].fills, acc[k].fills)}
  <2>1. Begins(acc[m].fills, acc[m].fills)
    <3>1. Len(acc[m].fills) \in Nat
      BY <1>1
    <3> QED BY <3>1 DEF Begins
  <2>2. 0 \in From
    <3>1. 0 >= m => m = 0
      OBVIOUS
    <3> QED BY <2>1, <3>1
  <2>3. ASSUME NEW k \in 1 .. n, k - 1 \in From PROVE k \in From
    <3>1. CASE k = m
      BY <1>2, <2>1, <3>1
    <3>2. CASE k # m
      <4> SUFFICES ASSUME k >= m PROVE k \in From
        BY <1>2
      <4>1. k - 1 >= m
        BY <3>2
      <4>2. Begins(acc[m].fills, acc[k - 1].fills)
        BY <2>3, <4>1
      <4> DEFINE new == FillsAt(b, b.times[k])
                 Y == {f \in X : f.time = b.times[k]}
      <4>3. new \in Seq(X)
        <5>1. new \in Seq(Y)
          BY <1>0, FillsAreFair
        <5>2. Y \subseteq X
          OBVIOUS
        <5> HIDE DEF new, Y, X
        <5> QED BY <5>1, <5>2
      <4> HIDE DEF new, X
      <4>4. acc[m].fills \in Seq(X) /\ acc[k - 1].fills \in Seq(X)
        BY <1>1, <1>2
      <4>5. Begins(acc[m].fills, acc[k - 1].fills \o new)
        BY <4>2, <4>3, <4>4, JoinedBegins
      <4>6. acc[k].fills = acc[k - 1].fills \o new
        BY <1>2 DEF new
      <4> QED BY <1>2, <4>5, <4>6
    <3> QED BY <3>1, <3>2
  <2> HIDE DEF From
  <2>4. \A k \in 0 .. n : k \in From
    BY <2>2, <2>3, CountUp
  <2>5. \A k \in m .. n : k \in 0 .. n /\ k >= m
    OBVIOUS
  <2> QED BY <2>4, <2>5 DEF From
<1> QED BY <1>3, <1>4

(* A backtest is the same whatever comes after it, fills nothing better    *)
(* than the market, and gains nothing on what it sells again at once, for  *)
(* all quotes and intents (run).                                           *)
THEOREM BacktestsSound ==
  ASSUME NEW Moments, NEW Names, NEW b \in Backtests(Moments, Names)
  PROVE  BacktestSound(b)
<1> DEFINE n == Len(b.times)
           whole == Run(b)
           X == FairFills(b, Moments, Names)
<1>1. b.times \in Seq(Moments) /\ n \in Nat /\ DOMAIN b.times = 1 .. n
      /\ \A k \in 1 .. n : b.times[k] \in Moments
  <2>1. b.times \in Seq(Moments)
    BY DEF Backtests
  <2> QED BY <2>1
<1>2. PICK acc \in [0 .. n -> Results(b, Moments, Names)] : Books(b, n, acc) /\ whole = acc[n]
  <2>1. n = Len(b.times)
    OBVIOUS
  <2> HIDE DEF n
  <2> QED BY <1>1, <2>1, RunBooks
<1>3. /\ \A k \in 0 .. n : /\ Len(acc[k].curve) = k
                           /\ \A j \in 1 .. k : acc[k].curve[j] = acc[j].cash
      /\ \A m \in 0 .. n : \A k \in m .. n : Begins(acc[m].fills, acc[k].fills)
  <2>1. n = Len(b.times)
    OBVIOUS
  <2> HIDE DEF n
  <2> QED BY <1>1, <1>2, <2>1, RunGrows
<1>4. \A k \in 0 .. n : /\ acc[k].cash \in Int /\ acc[k].curve \in Seq(Int)
                        /\ acc[k].fills \in Seq(X)
  <2> HIDE DEF X, n
  <2> QED BY <1>2 DEF Results, X
<1>5. ASSUME NEW m \in 0 .. n
      PROVE  LET cut == Run([b EXCEPT !.times = SubSeq(b.times, 1, m)]) IN
             /\ cut.curve = SubSeq(whole.curve, 1, m)
             /\ IsPrefix(cut.fills, whole.fills)
  <2> DEFINE cut == Run([b EXCEPT !.times = SubSeq(b.times, 1, m)])
  <2>1. cut = acc[m]
    <3>1. /\ m \in 0 .. Len(b.times)
          /\ acc \in [0 .. Len(b.times) -> Results(b, Moments, Names)]
          /\ Books(b, Len(b.times), acc)
      BY <1>2
    <3> HIDE DEF n, whole, X
    <3>2. Run(CutAt(b, m)) = acc[m]
      BY <3>1, CutBooksTheSame
    <3> QED BY <3>2, Zenon DEF CutAt
  <2>2. n \in 0 .. n /\ n \in m .. n
    BY <1>1
  <2> HIDE DEF cut, n, whole, X
  <2>3. Begins(acc[m].curve, acc[n].curve)
    <3>1. Len(acc[m].curve) = m /\ Len(acc[n].curve) = n
      BY <1>3, <2>2
    <3>2. \A j \in 1 .. m : acc[m].curve[j] = acc[j].cash
      BY <1>3
    <3>3. \A j \in 1 .. n : acc[n].curve[j] = acc[j].cash
      BY <1>3, <2>2
    <3>4. \A j \in 1 .. m : j \in 1 .. n
      BY <1>1
    <3>5. m <= n
      BY <1>1
    <3> QED BY <3>1, <3>2, <3>3, <3>4, <3>5 DEF Begins
  <2>4. Begins(acc[m].fills, acc[n].fills)
    BY <1>3, <2>2
  <2>5. acc[m].curve = SubSeq(acc[n].curve, 1, Len(acc[m].curve))
    BY <1>4, <2>2, <2>3, BeginsIsPrefix
  <2>6. IsPrefix(acc[m].fills, acc[n].fills)
    BY <1>4, <2>2, <2>4, BeginsIsPrefix
  <2>7. Len(acc[m].curve) = m
    BY <1>3
  <2>8. cut.curve = SubSeq(whole.curve, 1, m) /\ IsPrefix(cut.fills, whole.fills)
    BY <1>2, <2>1, <2>5, <2>6, <2>7
  <2> QED BY <2>8, Zenon DEF cut
<1>6. ASSUME NEW f \in ToSet(whole.fills)
      PROVE  \E q \in QuotesOf(b.quotes[f.time], f.symbol) :
               IF f.side = "buy" THEN f.price >= q.ask * b.scale
               ELSE f.price <= q.bid * b.scale
  <2>1. whole.fills \in Seq(X)
    <3>1. n \in 0 .. n
      BY <1>1
    <3> HIDE DEF n, X, whole
    <3> QED BY <1>2, <1>4, <3>1
  <2>2. f \in X
    <3> HIDE DEF X, whole
    <3> QED BY <2>1 DEF ToSet
  <2> QED BY <2>2 DEF FairFills, Fair
<1>7. ASSUME NEW k \in DOMAIN b.times,
             \A s \in SymbolsFilled(b, b.times[k]) :
               Traded(b, b.times[k], "buy", s) = Traded(b, b.times[k], "sell", s)
      PROVE  whole.curve[k] <= (IF k = 1 THEN b.cash ELSE whole.curve[k - 1])
  <2>1. k \in 1 .. n /\ b.times[k] \in Moments
    BY <1>1
  <2> DEFINE t == b.times[k]
  <2>2. Flow(b, t) <= 0 /\ Flow(b, t) \in Int
    BY <1>7, <2>1, FlatNeverGains, FlowIsNumber
  <2> HIDE DEF n, whole
  <2>3. acc[k].cash = acc[k - 1].cash + Flow(b, t)
    <3>1. acc[k] = Booked(b, acc[k - 1], t)
      BY <1>2, <2>1 DEF Books
    <3> QED BY <3>1 DEF Booked
  <2>4. n \in 0 .. n /\ k - 1 \in 0 .. n
    BY <1>1, <2>1
  <2>5. whole.curve[k] = acc[k].cash
    BY <1>2, <1>3, <2>1, <2>4
  <2>6. (IF k = 1 THEN b.cash ELSE whole.curve[k - 1]) = acc[k - 1].cash
    <3>1. CASE k = 1
      <4>1. acc[0] = Opened(b) /\ k - 1 = 0
        BY <1>2, <3>1 DEF Books
      <4> QED BY <3>1, <4>1 DEF Opened
    <3>2. CASE k # 1
      <4>1. k - 1 \in 1 .. n
        BY <1>1, <2>1, <3>2
      <4> QED BY <1>2, <1>3, <2>4, <3>2, <4>1
    <3> QED BY <3>1, <3>2
  <2> DEFINE x == acc[k].cash
             y == acc[k - 1].cash
             z == Flow(b, t)
  <2>7. x = y + z /\ z <= 0 /\ z \in Int /\ y \in Int
    BY <1>4, <2>2, <2>3, <2>4
  <2>8. whole.curve[k] = x /\ (IF k = 1 THEN b.cash ELSE whole.curve[k - 1]) = y
    BY <2>5, <2>6
  <2> HIDE DEF x, y, z
  <2>9. x <= y
    BY <2>7
  <2> QED BY <2>8, <2>9, Zenon
<1> QED BY <1>5, <1>6, <1>7, Zenon DEF BacktestSound

-----------------------------------------------------------------------------
(* THE INPUTS (MCComponents) *)

(* The inputs of the instance, one algorithm after the other, are among    *)
(* those the theorems are about.                                           *)
LEMMA FloatsAre ==
  /\ NaN \in Float /\ Zero \in Float /\ {Infinity} \in Float
  /\ \A x \in Int : x <= 300 => {x} \in Float /\ {x} # {Infinity}
BY InfinityAssumption, InputsAssumption DEF Float, NaN, Zero

LEMMA LimitsAreSettings ==
  ASSUME NEW env \in Environments
  PROVE  Limits(env, Default) \in LimitSettings
<1>1. DOMAIN Default = {"order", "open", "fraction"}
      /\ Default.order \in Float /\ Default.open \in Float /\ Default.fraction \in Float
  BY FloatsAre DEF Default
<1>2. /\ env.order.isNumber => env.order.value \in Float
      /\ env.open.isNumber => env.open.value \in Float
      /\ env.fraction.isNumber => env.fraction.value \in Float
  <2>1. PICK order \in {NotANumber} \cup
               {Number(x) : x \in {{-1}, Zero, {100}, {Infinity}, NaN}},
             open \in {NotANumber, Number({Infinity}), Number(NaN)} :
          env = [order |-> order, open |-> open, fraction |-> Number({2})]
    BY DEF Environments
  <2>2. \A x : Number(x).value = x
    BY DEF Number
  <2>3. NotANumber.isNumber = FALSE
    BY DEF NotANumber
  <2>4. order.isNumber => order.value \in Float
    BY <2>2, <2>3, FloatsAre
  <2>5. open.isNumber => open.value \in Float
    BY <2>2, <2>3, FloatsAre
  <2>6. Number({2}).value \in Float
    BY <2>2, FloatsAre
  <2> QED BY <2>1, <2>4, <2>5, <2>6
<1>3. /\ Setting(env.order, Default.order) \in Float
      /\ Setting(env.open, Default.open) \in Float
      /\ Setting(env.fraction, Default.fraction) \in Float
  BY <1>1, <1>2 DEF Setting
<1>4. Limits(env, Default) = [f \in {"order", "open", "fraction"} |-> Setting(env[f], Default[f])]
  BY <1>1, Zenon DEF Limits
<1> QED BY <1>3, <1>4 DEF LimitSettings

LEMMA GateInputsAgree ==
  ASSUME NEW i \in GateInputs
  PROVE  GatesAgree(Limits(i.env, Default), i.snapshot, i.price, i.quantity, i.multiplier)
<1>1. /\ i.env \in Environments /\ i.snapshot \in Snapshots
      /\ i.price \in {NaN, Zero, {1}, {2}, {Infinity}}
      /\ i.quantity \in {0, 1, 2} /\ i.multiplier \in {10, 100, 200}
  BY DEF GateInputs
<1>2. i.snapshot \in Snapshot
  <2>1. {10} \in Float /\ {100} \in Float /\ {300} \in Float /\ {20} \in Float /\ {21} \in Float
        /\ Zero \in Float /\ {Infinity} \in Float
    BY FloatsAre
  <2> DEFINE s == i.snapshot
  <2>2. /\ s = [equity |-> s.equity, open |-> s.open, loss |-> s.loss, kill |-> s.kill]
        /\ s.equity \in {Zero, {10}} /\ s.open \in {Zero, {100}, {300}}
        /\ s.loss \in {Zero, {20}, {21}, {Infinity}} /\ s.kill \in BOOLEAN
    BY <1>1 DEF Snapshots
  <2> HIDE DEF s
  <2>3. s.equity \in Float /\ s.open \in Float /\ s.loss \in Float
    <3>1. \A x \in {Zero, {10}} : x \in Float
      BY <2>1, SMT
    <3>2. \A x \in {Zero, {100}, {300}} : x \in Float
      BY <2>1, SMT
    <3>3. \A x \in {Zero, {20}, {21}, {Infinity}} : x \in Float
      BY <2>1, SMT
    <3> QED BY <2>2, <3>1, <3>2, <3>3, Zenon
  <2>4. s \in Snapshot
    BY <2>2, <2>3 DEF Snapshot
  <2> QED BY <2>4 DEF s
<1>3. i.price \in Float
  <2>1. NaN \in Float /\ Zero \in Float /\ {1} \in Float /\ {2} \in Float
        /\ {Infinity} \in Float
    BY FloatsAre
  <2>2. \A x \in {NaN, Zero, {1}, {2}, {Infinity}} : x \in Float
    BY <2>1, SMT
  <2> QED BY <1>1, <2>2, Zenon
<1>4. Limits(i.env, Default) \in LimitSettings
  BY <1>1, LimitsAreSettings
<1>5. i.quantity \in Int /\ i.multiplier \in Int /\ i.multiplier >= 1
  BY <1>1
<1> QED BY <1>2, <1>3, <1>4, <1>5, GatesAlike

LEMMA QuoteIsRaw ==
  ASSUME NEW Names, NEW symbol \in Names, NEW bid \in Float \ {{Infinity}},
         NEW offer \in Float \ {{Infinity}}, NEW size \in Int, NEW timed \in BOOLEAN
  PROVE  [symbol |-> symbol, bid |-> bid, ask |-> offer, bid_size |-> size, ask_size |-> 2,
          timed |-> timed] \in RawQuotes(Names)
BY DEF RawQuotes
LEMMA QuotesAreRaw == QuoteInputs \subseteq RawQuotes({"X", "Y"})
<1> DEFINE P == Float \ {{Infinity}}
           N == {"X", "Y"}
           Usual == {[symbol |-> symbol, bid |-> {4}, ask |-> {offer}, bid_size |-> size,
                      ask_size |-> 2, timed |-> TRUE] :
                        symbol \in {"X", "Y"}, offer \in {4, 5, 6}, size \in {1, 2}}
           Odd == {[symbol |-> "X", bid |-> bid, ask |-> offer, bid_size |-> size,
                    ask_size |-> 2, timed |-> timed] :
                      bid \in {NaN, {4}}, offer \in {Zero, {3}, {4}, NaN}, size \in {0, 2},
                      timed \in BOOLEAN}
<1>1. NaN \in P /\ Zero \in P /\ {3} \in P /\ {4} \in P /\ {5} \in P /\ {6} \in P
  <2>1. 0 <= 300 /\ 3 <= 300 /\ 4 <= 300 /\ 5 <= 300 /\ 6 <= 300
    OBVIOUS
  <2>2. \A x \in Int : x <= 300 => {x} \in P
    BY FloatsAre
  <2>3. NaN \in P
    BY FloatsAre DEF NaN
  <2> QED BY <2>1, <2>2, <2>3 DEF Zero
<1>2. \A symbol \in N : \A bid, offer \in P : \A size \in Int : \A timed \in BOOLEAN :
        [symbol |-> symbol, bid |-> bid, ask |-> offer, bid_size |-> size, ask_size |-> 2,
         timed |-> timed] \in RawQuotes(N)
  BY QuoteIsRaw, Zenon
<1>3. "X" \in N /\ TRUE \in BOOLEAN
  OBVIOUS
<1> HIDE DEF P
<1> SUFFICES ASSUME NEW raw \in QuoteInputs PROVE raw \in RawQuotes(N)
  BY Zenon DEF N
<1>4. raw \in Usual \/ raw \in Odd
  BY DEF QuoteInputs
<1>5. ASSUME raw \in Usual PROVE raw \in RawQuotes(N)
  <2>1. PICK symbol \in {"X", "Y"}, offer \in {4, 5, 6}, size \in {1, 2} :
          raw = [symbol |-> symbol, bid |-> {4}, ask |-> {offer}, bid_size |-> size,
                 ask_size |-> 2, timed |-> TRUE]
    BY <1>5
  <2>2. {offer} \in P
    BY <1>1
  <2>3. {4} \in P /\ size \in Int /\ symbol \in N
    BY <1>1
  <2> QED BY <1>2, <1>3, <2>1, <2>2, <2>3, Zenon
<1>6. ASSUME raw \in Odd PROVE raw \in RawQuotes(N)
  <2>1. PICK bid \in {NaN, {4}}, offer \in {Zero, {3}, {4}, NaN}, size \in {0, 2},
             timed \in BOOLEAN :
          raw = [symbol |-> "X", bid |-> bid, ask |-> offer, bid_size |-> size,
                 ask_size |-> 2, timed |-> timed]
    BY <1>6
  <2>2. bid \in P
    BY <1>1, Zenon
  <2>3. offer \in P
    BY <1>1, Zenon
  <2>4. size \in Int
    OBVIOUS
  <2> QED BY <1>2, <1>3, <2>1, <2>2, <2>3, <2>4, Zenon
<1> HIDE DEF Usual, Odd, N
<1> QED BY <1>4, <1>5, <1>6, Zenon

LEMMA RouteInputsAgree ==
  ASSUME NEW i \in RouteInputs
  PROVE  RoutesAgree(i.quotes, "X", i.quantity)
<1> DEFINE N == {"X", "Y"}
<1>1. QuoteInputs \subseteq RawQuotes(N)
  BY QuotesAreRaw
<1> HIDE DEF N
<1>2. i.quantity \in Int
  BY DEF RouteInputs
<1>3. PICK n \in 0 .. 3 : i.quotes \in [1 .. n -> QuoteInputs]
  BY DEF RouteInputs
<1>4. n \in Nat /\ i.quotes \in [1 .. n -> RawQuotes(N)]
  BY <1>1, <1>3
<1> QED BY <1>2, <1>4, RoutesAlike

LEMMA FoldInputsSafe ==
  ASSUME NEW i \in FoldInputs PROVE NoLeak(i.c)
<1>1. i.c \in Sizes
  BY DEF FoldInputs, Sizes
<1> QED BY <1>1, FoldsLeakNothing

LEMMA FunctionIsSequence ==
  ASSUME NEW X, NEW n \in Nat, NEW s \in [1 .. n -> X]
  PROVE  s \in Seq(X) /\ Len(s) = n
OBVIOUS

LEMMA RowInputsKnown ==
  ASSUME NEW i \in RowInputs PROVE PrefixesKnown(i.rows)
<1>1. i.rows \in UNION {[1 .. n -> [asof : 1 .. 3, available : 1 .. 3]] : n \in 0 .. 3}
  BY DEF RowInputs
<1>2. PICK n \in 0 .. 3 : i.rows \in [1 .. n -> [asof : 1 .. 3, available : 1 .. 3]]
  BY <1>1
<1>3. [asof : 1 .. 3, available : 1 .. 3] \subseteq [asof : Int, available : Int]
  OBVIOUS
<1>4. i.rows \in Seq([asof : Int, available : Int])
  <2>1. i.rows \in [1 .. n -> [asof : Int, available : Int]]
    BY <1>2, <1>3
  <2>2. n \in Nat
    OBVIOUS
  <2> QED BY <2>1, <2>2, FunctionIsSequence, Zenon
<1> QED BY <1>4, RowsAreKnown

(* The transitions of the instance, written out.                           *)
Plain(state, action, prize, supported) ==
  [state |-> state, action |-> action, reward |-> prize, supported |-> supported,
   available |-> 1]
WithAction(t, x) == [t EXCEPT !.action = x]
WithReward(t, x) == [t EXCEPT !.reward = x]
WithSupport(t, x) == [t EXCEPT !.supported = x]

LEMMA FieldsReplaced ==
  ASSUME NEW state, NEW action, NEW prize, NEW supported, NEW x
  PROVE  /\ WithAction(Plain(state, action, prize, supported), x) =
              Plain(state, x, prize, supported)
         /\ WithReward(Plain(state, action, prize, supported), x) =
              Plain(state, action, x, supported)
         /\ WithSupport(Plain(state, action, prize, supported), x) =
              Plain(state, action, prize, x)
BY DEF Plain, WithAction, WithReward, WithSupport

LEMMA OddTransitions ==
  {[Good("s", 1, 1) EXCEPT !.action = 0], [Good("t", 0, 1) EXCEPT !.action = 0],
   [Good("s", 1, 1) EXCEPT !.reward = {}], [Good("s", 1, 1) EXCEPT !.supported = FALSE]} =
    {Plain("s", 0, {1}, TRUE), Plain("t", 0, {0}, TRUE), Plain("s", 1, {}, TRUE),
     Plain("s", 1, {1}, FALSE)}
<1> DEFINE yes == TRUE
           no == FALSE
<1>1. Good("s", 1, 1) = Plain("s", 1, {1}, yes) /\ Good("t", 0, 1) = Plain("t", 1, {0}, yes)
  BY Zenon DEF Good, Plain
<1> HIDE DEF yes, no
<1>2. /\ WithAction(Good("s", 1, 1), 0) = Plain("s", 0, {1}, yes)
      /\ WithAction(Good("t", 0, 1), 0) = Plain("t", 0, {0}, yes)
      /\ WithReward(Good("s", 1, 1), {}) = Plain("s", 1, {}, yes)
      /\ WithSupport(Good("s", 1, 1), no) = Plain("s", 1, {1}, no)
  <2>1. WithAction(Plain("s", 1, {1}, yes), 0) = Plain("s", 0, {1}, yes)
    BY FieldsReplaced
  <2>2. WithAction(Plain("t", 1, {0}, yes), 0) = Plain("t", 0, {0}, yes)
    BY FieldsReplaced
  <2>3. WithReward(Plain("s", 1, {1}, yes), {}) = Plain("s", 1, {}, yes)
    BY FieldsReplaced
  <2>4. WithSupport(Plain("s", 1, {1}, yes), no) = Plain("s", 1, {1}, no)
    BY FieldsReplaced
  <2> QED BY <1>1, <2>1, <2>2, <2>3, <2>4, Zenon
<1>3. {WithAction(Good("s", 1, 1), 0), WithAction(Good("t", 0, 1), 0),
       WithReward(Good("s", 1, 1), {}), WithSupport(Good("s", 1, 1), no)} =
      {Plain("s", 0, {1}, yes), Plain("t", 0, {0}, yes), Plain("s", 1, {}, yes),
       Plain("s", 1, {1}, no)}
  BY <1>2, Zenon
<1> QED BY <1>3, Zenon DEF WithAction, WithReward, WithSupport, yes, no

LEMMA TransitionIsLogged ==
  ASSUME NEW States, NEW R, NEW state \in States, NEW action \in Int,
         NEW prize \in ({{}} \cup {{r} : r \in R}), NEW supported \in BOOLEAN,
         NEW available \in Int
  PROVE  [state |-> state, action |-> action, reward |-> prize, supported |-> supported,
          available |-> available] \in Logged(States, R)
BY DEF Logged

LEMMA TransitionsAreLogged == Transitions \subseteq Logged({"s", "t"}, {-1, 0, 1})
<1> DEFINE R == {-1, 0, 1}
           S == {"s", "t"}
           Prize == {{}} \cup {{r} : r \in R}
           Usual == {Good(state, reward, available) :
                       state \in {"s", "t"}, reward \in {-1, 1}, available \in {1, 2}}
           Odd == {[Good("s", 1, 1) EXCEPT !.action = 0], [Good("t", 0, 1) EXCEPT !.action = 0],
                   [Good("s", 1, 1) EXCEPT !.reward = {}],
                   [Good("s", 1, 1) EXCEPT !.supported = FALSE]}
<1>1. {} \in Prize /\ {-1} \in Prize /\ {0} \in Prize /\ {1} \in Prize
  OBVIOUS
<1>2. 0 \in Int /\ 1 \in Int /\ TRUE \in BOOLEAN /\ FALSE \in BOOLEAN /\ "s" \in S /\ "t" \in S
  OBVIOUS
<1>3. \A state \in S : \A action \in Int : \A prize \in Prize :
        \A supported \in BOOLEAN : \A available \in Int :
          [state |-> state, action |-> action, reward |-> prize, supported |-> supported,
           available |-> available] \in Logged(S, R)
  BY TransitionIsLogged, Zenon
<1> HIDE DEF Prize, R
<1> SUFFICES ASSUME NEW t \in Transitions PROVE t \in Logged(S, R)
  BY Zenon DEF R
<1>4. t \in Usual \/ t \in Odd
  BY DEF Transitions
<1>5. ASSUME t \in Usual
      PROVE  t \in Logged(S, R)
  <2>1. PICK state \in {"s", "t"}, reward \in {-1, 1}, available \in {1, 2} :
          t = Good(state, reward, available)
    BY <1>5
  <2>2. state \in S /\ available \in Int
    OBVIOUS
  <2>3. {reward} \in Prize
    BY <1>1, Zenon
  <2> QED BY <1>2, <1>3, <2>1, <2>2, <2>3, Zenon DEF Good
<1>6. ASSUME t \in Odd
      PROVE  t \in Logged(S, R)
  <2>1. t \in {Plain("s", 0, {1}, TRUE), Plain("t", 0, {0}, TRUE), Plain("s", 1, {}, TRUE),
                Plain("s", 1, {1}, FALSE)}
    BY <1>6, OddTransitions, Zenon
  <2> HIDE DEF S
  <2>2. /\ Plain("s", 0, {1}, TRUE) \in Logged(S, R)
        /\ Plain("t", 0, {0}, TRUE) \in Logged(S, R)
        /\ Plain("s", 1, {}, TRUE) \in Logged(S, R)
        /\ Plain("s", 1, {1}, FALSE) \in Logged(S, R)
    BY <1>1, <1>2, <1>3, Zenon DEF Plain
  <2> QED BY <2>1, <2>2, Zenon
<1> HIDE DEF Usual, Odd
<1> QED BY <1>4, <1>5, <1>6, Zenon

LEMMA OfflineInputsSound ==
  ASSUME NEW i \in OfflineInputs
  PROVE  OfflineSound(OfflineGate, i.transitions, i.p, i.q, 1)
<1> DEFINE R == {-1, 0, 1}
           S == {"s", "t"}
           L == Logged(S, R)
<1>1. Transitions \subseteq L
  BY TransitionsAreLogged
<1> HIDE DEF S
<1>2. PICK n \in 1 .. 3 : i.transitions \in [1 .. n -> Transitions]
  BY DEF OfflineInputs
<1> HIDE DEF R, L
<1>3. i.transitions \in Seq(L) /\ Len(i.transitions) <= 3 /\ Len(i.transitions) \in Nat
  <2>1. i.transitions \in [1 .. n -> L]
    BY <1>1, <1>2
  <2> QED BY <2>1
<1>4. /\ OfflineGate.minSupported \in Int /\ OfflineGate.advantage \in Int
      /\ OfflineGate.advantage > 0
  BY DEF OfflineGate
<1>5. \A m \in 0 .. Len(i.transitions) : \A r \in [1 .. m -> R] :
        Wealth(r, OfflineGate.unit) \in Int
  <2>1. \A m \in 0 .. Len(i.transitions) : m \in 0 .. 3
    BY <1>3
  <2>2. \A m \in 0 .. 3 : \A r \in [1 .. m -> R] : Wealth(r, OfflineGate.unit) \in Int
    BY InputsAssumption, Zenon DEF R
  <2> QED BY <2>1, <2>2
<1>6. i.transitions \in Seq(Logged(S, R))
  BY <1>3 DEF L
<1> QED BY <1>3, <1>4, <1>5, <1>6, OfflineGateSound

(* The backtests of the instance.                                          *)
LEMMA IntentsAre == Intents \subseteq IntentsFor({"X", "Y"})
<1> DEFINE N == {"X", "Y"}
           L == {{}} \cup {{x} : x \in Int}
           Usual == [symbol : {"X"}, side : {"buy", "sell"}, quantity : {1}, limit : {{}, {3}, {4}}]
           other == [symbol |-> "Y", side |-> "buy", quantity |-> 2, limit |-> {}]
<1>1. {} \in L /\ {3} \in L /\ {4} \in L
  OBVIOUS
<1>2. "X" \in N /\ "Y" \in N
  OBVIOUS
<1>3. IntentsFor(N) = [symbol : N, side : {"buy", "sell"}, quantity : Nat, limit : L]
  BY Zenon DEF IntentsFor
<1> HIDE DEF N, L
<1>4. Usual \subseteq [symbol : N, side : {"buy", "sell"}, quantity : Nat, limit : L]
  BY <1>1, <1>2
<1>5. other \in [symbol : N, side : {"buy", "sell"}, quantity : Nat, limit : L]
  BY <1>1, <1>2
<1>6. Intents = Usual \cup {other}
  BY Zenon DEF Intents
<1> HIDE DEF Usual, other
<1>7. Intents \subseteq IntentsFor(N)
  BY <1>3, <1>4, <1>5, <1>6
<1> QED BY <1>7, Zenon DEF N

LEMMA QuotesAreMarkets ==
  ASSUME NEW bid \in Nat, NEW offer \in Nat, bid <= offer
  PROVE  [symbol |-> "X", bid |-> bid, ask |-> offer] \in MarketQuotes({"X", "Y"})
BY DEF MarketQuotes

LEMMA PairIsFunction ==
  ASSUME NEW X, NEW x \in X, NEW y \in X
  PROVE  <<x, y>> \in [1 .. 2 -> X]
OBVIOUS

LEMMA BacktestInputsSound ==
  ASSUME NEW i \in BacktestInputs
  PROVE  BacktestSound(i.b)
<1> DEFINE N == {"X", "Y"}
           M == MarketQuotes(N)
           J == IntentsFor(N)
<1>1. PICK slip \in {0, 1, 11}, bid \in {2, 5},
           more \in {<< >>, <<[symbol |-> "X", bid |-> 3, ask |-> 3]>>},
           one \in UNION {[1 .. n -> Intents] : n \in 0 .. 2},
           two \in UNION {[1 .. n -> Intents] : n \in 0 .. 1} :
        i.b = [times |-> <<1, 2>>, cash |-> 0, slip |-> slip, commission |-> 1, scale |-> 10,
               multiplier |-> 2,
               quotes |-> << <<[symbol |-> "X", bid |-> 3, ask |-> 4]>> \o more,
                             <<[symbol |-> "X", bid |-> bid, ask |-> 5]>> >>,
               intents |-> <<one, two>>]
  BY DEF BacktestInputs
<1>2. /\ [symbol |-> "X", bid |-> 3, ask |-> 4] \in M
      /\ [symbol |-> "X", bid |-> 3, ask |-> 3] \in M
      /\ [symbol |-> "X", bid |-> bid, ask |-> 5] \in M
  <2>1. 3 <= 4 /\ 3 <= 3 /\ bid <= 5 /\ bid \in Nat /\ 3 \in Nat /\ 4 \in Nat /\ 5 \in Nat
    OBVIOUS
  <2> QED BY <2>1, QuotesAreMarkets
<1>3. Intents \subseteq J
  BY IntentsAre
<1> HIDE DEF N, M, J
<1>4. << <<[symbol |-> "X", bid |-> 3, ask |-> 4]>> \o more,
         <<[symbol |-> "X", bid |-> bid, ask |-> 5]>> >> \in [1 .. 2 -> Seq(M)]
  <2> DEFINE a == [symbol |-> "X", bid |-> 3, ask |-> 4]
             b == [symbol |-> "X", bid |-> 3, ask |-> 3]
             c == [symbol |-> "X", bid |-> bid, ask |-> 5]
  <2>1. more = << >> \/ more = <<b>>
    BY Zenon
  <2>2. a \in M /\ b \in M /\ c \in M
    BY <1>2
  <2> HIDE DEF a, b, c
  <2>3. more \in Seq(M)
    <3>1. << >> \in Seq(M) /\ <<b>> \in Seq(M)
      BY <2>2
    <3> QED BY <2>1, <3>1, Zenon
  <2>4. <<a>> \in Seq(M) /\ <<c>> \in Seq(M)
    BY <2>2
  <2>5. <<a>> \o more \in Seq(M)
    BY <2>3, <2>4
  <2>6. << <<a>> \o more, <<c>> >> \in [1 .. 2 -> Seq(M)]
    BY <2>4, <2>5, PairIsFunction, Zenon
  <2> QED BY <2>6, Zenon DEF a, c
<1>5. <<one, two>> \in [1 .. 2 -> Seq(J)]
  <2>1. PICK n \in 0 .. 2 : one \in [1 .. n -> Intents]
    OBVIOUS
  <2>2. PICK m \in 0 .. 1 : two \in [1 .. m -> Intents]
    OBVIOUS
  <2>3. one \in [1 .. n -> J] /\ two \in [1 .. m -> J] /\ n \in Nat /\ m \in Nat
    BY <1>3, <2>1, <2>2
  <2>4. one \in Seq(J) /\ two \in Seq(J)
    BY <2>3, FunctionIsSequence, Zenon
  <2> QED BY <2>4, PairIsFunction, Zenon
<1>6. <<1, 2>> \in Seq(1 .. 2)
  OBVIOUS
<1>7. i.b \in Backtests(1 .. 2, N)
  <2> DEFINE Q == [1 .. 2 -> Seq(M)]
             K == [1 .. 2 -> Seq(J)]
             T == Seq(1 .. 2)
             t == <<1, 2>>
             q == << <<[symbol |-> "X", bid |-> 3, ask |-> 4]>> \o more,
                     <<[symbol |-> "X", bid |-> bid, ask |-> 5]>> >>
             k == <<one, two>>
  <2>1. q \in Q /\ k \in K /\ t \in T
    BY <1>4, <1>5, <1>6, Zenon
  <2>2. i.b = [times |-> t, cash |-> 0, slip |-> slip, commission |-> 1, scale |-> 10,
               multiplier |-> 2, quotes |-> q, intents |-> k]
    BY <1>1, Zenon
  <2>3. Backtests(1 .. 2, N) = [times : T, cash : Int, slip : Nat, commission : Nat, scale : Nat,
                                multiplier : Nat, quotes : Q, intents : K]
    BY Zenon DEF Backtests, M, J
  <2> HIDE DEF Q, K, T, t, q, k
  <2>4. slip \in Nat
    OBVIOUS
  <2>5. [times |-> t, cash |-> 0, slip |-> slip, commission |-> 1, scale |-> 10,
         multiplier |-> 2, quotes |-> q, intents |-> k] \in
          [times : T, cash : Int, slip : Nat, commission : Nat, scale : Nat,
           multiplier : Nat, quotes : Q, intents : K]
    BY <2>1, <2>4
  <2> QED BY <2>2, <2>3, <2>5, Zenon
<1> QED BY <1>7, BacktestsSound, Zenon

(* The input of a behaviour is one of those, and none if the behaviour is  *)
(* of a component with state.                                              *)
InputChosen == input \in Inputs \cup {[algorithm |-> "none"]}

(* No step changes the input.                                              *)
LEMMA InputChosenInit == Init => InputChosen
<1> SUFFICES ASSUME Init PROVE InputChosen
  OBVIOUS
<1>1. input \in IF part = "input" THEN Inputs ELSE {[algorithm |-> "none"]}
  BY Zenon DEF Init
<1> QED BY <1>1, Zenon DEF InputChosen

LEMMA InputStays == [Next]_all => UNCHANGED input
<1> SUFFICES ASSUME [Next]_all PROVE input' = input
  OBVIOUS
<1>1. CASE UNCHANGED all
  BY <1>1, Zenon DEF all
<1>2. CASE Next
  BY <1>2, Zenon DEF Next, StreamStep, StoreStep, BridgeStep, PolicyStep, PoolStep, MasterStep,
                     QuotesStep
<1> QED BY <1>1, <1>2

LEMMA InputChosenNext == InputChosen /\ [Next]_all => InputChosen'
<1> SUFFICES ASSUME InputChosen, [Next]_all PROVE InputChosen'
  OBVIOUS
<1>1. input' = input
  BY InputStays, Zenon
<1> QED BY <1>1, Zenon DEF InputChosen

(* An input is judged by the algorithm it is for.                          *)
LEMMA InputsByAlgorithm ==
  ASSUME InputChosen
  PROVE  /\ input.algorithm = "gate" => input \in GateInputs
         /\ input.algorithm = "route" => input \in RouteInputs
         /\ input.algorithm = "folds" => input \in FoldInputs
         /\ input.algorithm = "rows" => input \in RowInputs
         /\ input.algorithm = "offline" => input \in OfflineInputs
         /\ input.algorithm = "backtest" => input \in BacktestInputs
<1>1. \A i \in GateInputs : i.algorithm = "gate"
  BY DEF GateInputs
<1>2. \A i \in RouteInputs : i.algorithm = "route"
  BY DEF RouteInputs
<1>3. \A i \in FoldInputs : i.algorithm = "folds"
  BY DEF FoldInputs
<1>4. \A i \in RowInputs : i.algorithm = "rows"
  BY DEF RowInputs
<1>5. \A i \in OfflineInputs : i.algorithm = "offline"
  BY DEF OfflineInputs
<1>6. \A i \in BacktestInputs : i.algorithm = "backtest"
  BY DEF BacktestInputs
<1>7. \A i \in {[algorithm |-> "none"]} : i.algorithm = "none"
  OBVIOUS
<1>8. \/ input \in GateInputs \/ input \in RouteInputs \/ input \in FoldInputs
      \/ input \in RowInputs \/ input \in OfflineInputs \/ input \in BacktestInputs
      \/ input \in {[algorithm |-> "none"]}
  BY Zenon DEF InputChosen, Inputs
<1> QED BY <1>1, <1>2, <1>3, <1>4, <1>5, <1>6, <1>7, <1>8

LEMMA ChosenAgrees == InputChosen => NativeAgrees
<1> SUFFICES ASSUME InputChosen PROVE NativeAgrees
  OBVIOUS
<1>1. input.algorithm = "gate" =>
        GatesAgree(Limits(input.env, Default), input.snapshot, input.price,
                   input.quantity, input.multiplier)
  BY InputsByAlgorithm, GateInputsAgree, Zenon
<1>2. input.algorithm = "route" => RoutesAgree(input.quotes, "X", input.quantity)
  BY InputsByAlgorithm, RouteInputsAgree, Zenon
<1> QED BY <1>1, <1>2, Zenon DEF NativeAgrees

LEMMA ChosenLeaksNothing == InputChosen => ResearchLeaksNothing
<1> SUFFICES ASSUME InputChosen PROVE ResearchLeaksNothing
  OBVIOUS
<1>1. input.algorithm = "folds" => NoLeak(input.c)
  BY InputsByAlgorithm, FoldInputsSafe, Zenon
<1>2. input.algorithm = "rows" => PrefixesKnown(input.rows)
  BY InputsByAlgorithm, RowInputsKnown, Zenon
<1>3. input.algorithm = "backtest" => BacktestSound(input.b)
  BY InputsByAlgorithm, BacktestInputsSound, Zenon
<1>4. input.algorithm = "offline" =>
        OfflineSound(OfflineGate, input.transitions, input.p, input.q, 1)
  BY InputsByAlgorithm, OfflineInputsSound, Zenon
<1> QED BY <1>1, <1>2, <1>3, <1>4, Zenon DEF ResearchLeaksNothing

LEMMA ChosenAlways == Spec => []InputChosen
<1>1. InputChosen /\ [Next]_all => InputChosen'
  BY InputChosenNext
<1> QED BY <1>1, InputChosenInit, PTL DEF Spec

(* The gates and the routers of the three languages decide alike on every  *)
(* input of the run (NativePreTradeGate, SmartOrderRouter and their C++    *)
(* and Rust twins).                                                        *)
THEOREM SpecNativeAgrees == Spec => []NativeAgrees
<1>1. InputChosen => NativeAgrees
  BY ChosenAgrees
<1> QED BY <1>1, ChosenAlways, PTL

(* No fold, row, backtest or evaluation of the inputs of the run uses what *)
(* it must not know.                                                       *)
THEOREM SpecLeaksNothing == Spec => []ResearchLeaksNothing
<1>1. InputChosen => ResearchLeaksNothing
  BY ChosenLeaksNothing
<1> QED BY <1>1, ChosenAlways, PTL
=============================================================================
