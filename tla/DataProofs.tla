----------------------------- MODULE DataProofs -----------------------------
(* What is proved about data on its way through the driver. Decimal          *)
(* arithmetic is exact for every denominator and every machine word that are *)
(* to each other as 10^19 and 2^64 are. Concepts keep their invariants for   *)
(* every message that the schema of the protocol allows, walks of analysed   *)
(* queries for every depth, handles for every number of them.                *)
EXTENDS Values, Concepts, AnalyzedQueries, CInterface, NumberLemmas, FiniteSetTheorems,
        SequenceTheorems, TLAPS

Decimals == [integer : Int, fractional : Nat]

(* A Decimal as from_parts() leaves it, and the number it stands for.        *)
Proper(d) == d \in Decimals /\ d.fractional < Denominator
Number(d) == d.integer * Denominator + d.fractional

(* What the decimal operations keep: the value is proper and exact.          *)
DecimalInv ==
    /\ Proper(decimal.value)
    /\ decimal.exact \in Int
    /\ Number(decimal.value) = decimal.exact

(* A sum or difference of two words taken modulo a word (overflowing_add,    *)
(* overflowing_sub) is off by at most one word.                              *)
LEMMA WordWraps ==
  ASSUME NEW x \in Int, NEW w \in Nat, 0 < w
  PROVE  /\ 0 <= x /\ x < w => x % w = x
         /\ w <= x /\ x < w + w => x % w = x - w
         /\ -w <= x /\ x < 0 => x % w = x + w
  <1>1. ASSUME 0 <= x, x < w PROVE x % w = x
    BY <1>1
  <1>2. ASSUME w <= x, x < w + w PROVE x % w = x - w
    BY <1>2
  <1>3. ASSUME -w <= x, x < 0 PROVE x % w = x + w
    BY <1>3
  <1> QED
    BY <1>1, <1>2, <1>3

(* from_parts() with a fraction below one does not meet its assertion.       *)
LEMMA PartsProper ==
  ASSUME NEW i \in Int, NEW f \in Nat, f < Denominator
  PROVE  /\ Proper(from_parts(i, f))
         /\ Number(from_parts(i, f)) = i * Denominator + f
  <1>1. from_parts(i, f) = [integer |-> i, fractional |-> f]
    BY DEF from_parts
  <1>2. [integer |-> i, fractional |-> f] \in Decimals
    BY DEF Decimals
  <1> QED
    BY <1>1, <1>2 DEF Proper, Number

(* add() is exact, in each of the cases of its carry.                        *)
LEMMA AddExact ==
  ASSUME NEW l, NEW r, Proper(l), Proper(r)
  PROVE  Proper(Add(l, r)) /\ Number(Add(l, r)) = Number(l) + Number(r)
  <1> DEFINE sum == l.fractional + r.fractional
             frac == sum % Word
             int == l.integer + r.integer
  <1>1. /\ l.fractional \in Nat /\ l.fractional < Denominator /\ l.integer \in Int
        /\ r.fractional \in Nat /\ r.fractional < Denominator /\ r.integer \in Int
    BY DEF Proper, Decimals
  <1>2. sum \in Nat /\ sum < Denominator + Denominator /\ int \in Int
    BY <1>1, WordAssumption
  <1>3. Number(l) + Number(r) = int * Denominator + sum
    BY <1>1, WordAssumption DEF Number
  <1>4. CASE sum < Denominator
    <2>1. frac = sum /\ ~(sum >= Word)
      BY <1>2, <1>4, WordWraps, WordAssumption
    <2>2. Add(l, r) = from_parts(int, sum)
      BY <2>1, <1>4 DEF Add
    <2> QED
      BY <2>2, <1>2, <1>3, <1>4, PartsProper
  <1>5. CASE Denominator <= sum /\ sum < Word
    <2>1. frac = sum /\ ~(sum >= Word)
      BY <1>2, <1>5, WordWraps, WordAssumption
    <2>2. Add(l, r) = from_parts(int + 1, sum - Denominator)
      BY <2>1, <1>2, <1>5, WordAssumption DEF Add
    <2>3. sum - Denominator \in Nat /\ sum - Denominator < Denominator /\ int + 1 \in Int
      BY <1>2, <1>5, WordAssumption
    <2>4. (int + 1) * Denominator + (sum - Denominator) = int * Denominator + sum
      BY <1>2, WordAssumption
    <2> QED
      BY <2>2, <2>3, <2>4, <1>3, PartsProper
  <1>6. CASE Word <= sum
    <2>1. frac = sum - Word /\ sum >= Word
      BY <1>2, <1>6, WordWraps, WordAssumption
    <2>2. frac < Denominator /\ (0 - Denominator) % Word = Word - Denominator
      BY <2>1, <1>2, WordWraps, WordAssumption
    <2>3. Add(l, r) = from_parts(int + 1, frac + ((0 - Denominator) % Word))
      BY <2>1, <2>2 DEF Add
    <2>4. frac + ((0 - Denominator) % Word) = sum - Denominator
      BY <2>1, <2>2, <1>2, WordAssumption
    <2>5. sum - Denominator \in Nat /\ sum - Denominator < Denominator /\ int + 1 \in Int
      BY <1>2, <1>6, WordAssumption
    <2>6. (int + 1) * Denominator + (sum - Denominator) = int * Denominator + sum
      BY <1>2, WordAssumption
    <2> QED
      BY <2>3, <2>4, <2>5, <2>6, <1>3, PartsProper
  <1> QED
    BY <1>2, <1>4, <1>5, <1>6, WordAssumption

(* sub() is exact, with and without a borrow.                                *)
LEMMA SubExact ==
  ASSUME NEW l, NEW r, Proper(l), Proper(r)
  PROVE  Proper(Sub(l, r)) /\ Number(Sub(l, r)) = Number(l) - Number(r)
  <1> DEFINE diff == l.fractional - r.fractional
             int == l.integer - r.integer
  <1>1. /\ l.fractional \in Nat /\ l.fractional < Denominator /\ l.integer \in Int
        /\ r.fractional \in Nat /\ r.fractional < Denominator /\ r.integer \in Int
    BY DEF Proper, Decimals
  <1>2. diff \in Int /\ int \in Int /\ diff < Denominator /\ -Denominator < diff
    BY <1>1, WordAssumption
  <1>3. Number(l) - Number(r) = int * Denominator + diff
    BY <1>1, WordAssumption DEF Number
  <1>4. CASE l.fractional >= r.fractional
    <2>1. diff \in Nat /\ diff % Word = diff
      BY <1>1, <1>2, <1>4, WordWraps, WordAssumption
    <2>2. Sub(l, r) = from_parts(int, diff)
      BY <2>1, <1>4 DEF Sub
    <2> QED
      BY <2>1, <2>2, <1>2, <1>3, PartsProper
  <1>5. CASE ~(l.fractional >= r.fractional)
    <2>1. diff % Word = diff + Word
      BY <1>1, <1>2, <1>5, WordWraps, WordAssumption
    <2>2. (diff + Word + Denominator) % Word = diff + Denominator
      <3>1. diff + Word + Denominator \in Int /\ Word <= diff + Word + Denominator
            /\ diff + Word + Denominator < Word + Word
        BY <1>1, <1>2, <1>5, WordAssumption
      <3> QED
        BY <3>1, <1>2, WordWraps, WordAssumption
    <2>3. Sub(l, r) = from_parts(int - 1, diff + Denominator)
      BY <2>1, <2>2, <1>5 DEF Sub
    <2>4. diff + Denominator \in Nat /\ diff + Denominator < Denominator /\ int - 1 \in Int
      BY <1>1, <1>2, <1>5, WordAssumption
    <2>5. (int - 1) * Denominator + (diff + Denominator) = int * Denominator + diff
      BY <1>2, WordAssumption
    <2> QED
      BY <2>3, <2>4, <2>5, <1>3, PartsProper
  <1> QED
    BY <1>4, <1>5

LEMMA NegExact ==
  ASSUME NEW d, Proper(d)
  PROVE  Proper(Neg(d)) /\ Number(Neg(d)) = -Number(d)
  <1> DEFINE zero == [integer |-> 0, fractional |-> 0]
  <1>1. Proper(zero) /\ Number(zero) = 0
    BY WordAssumption DEF Proper, Decimals, Number
  <1>2. Number(d) \in Int
    BY WordAssumption DEF Proper, Decimals, Number
  <1>3. Proper(Sub(zero, d)) /\ Number(Sub(zero, d)) = Number(zero) - Number(d)
    BY <1>1, SubExact
  <1> QED
    BY <1>1, <1>2, <1>3 DEF Neg

(* from_str() gives the number that the text says.                           *)
LEMMA ParseExact ==
  ASSUME NEW t \in Operands, Parseable(t)
  PROVE  /\ Proper(ParseDecimal(t))
         /\ Number(ParseDecimal(t)) = Exact(t)
         /\ Exact(t) \in Int
  <1> DEFINE d == from_parts(t.int, Scaled(t))
  <1>1. t.neg \in BOOLEAN /\ t.int \in Nat /\ Scaled(t) \in Nat /\ Scaled(t) < Denominator
    BY OperandsAssumption DEF Parseable
  <1>2. Proper(d) /\ Number(d) = t.int * Denominator + Scaled(t)
    BY <1>1, PartsProper
  <1>3. Number(d) \in Int
    BY <1>2, WordAssumption DEF Proper, Decimals, Number
  <1>4. CASE t.neg
    <2>1. ParseDecimal(t) = Neg(d)
      BY <1>4 DEF ParseDecimal
    <2>2. Exact(t) = -Number(d)
      BY <1>2, <1>3, <1>4 DEF Exact
    <2> QED
      BY <2>1, <2>2, <1>2, <1>3, NegExact
  <1>5. CASE ~t.neg
    <2>1. ParseDecimal(t) = d
      BY <1>5 DEF ParseDecimal
    <2>2. Exact(t) = Number(d)
      BY <1>2, <1>3, <1>5 DEF Exact
    <2> QED
      BY <2>1, <2>2, <1>2, <1>3
  <1> QED
    BY <1>4, <1>5

LEMMA DecimalInvAlways == ValuesSpec => []DecimalInv
  <1>1. ValuesInit => DecimalInv
    <2> SUFFICES ASSUME ValuesInit PROVE DecimalInv
      OBVIOUS
    <2>1. /\ decimal.value = [integer |-> 0, fractional |-> 0]
          /\ decimal.exact = 0
      BY DEF ValuesInit
    <2>2. [integer |-> 0, fractional |-> 0] \in Decimals
      BY DEF Decimals
    <2> QED
      BY <2>1, <2>2, WordAssumption DEF DecimalInv, Proper, Number
  <1>2. DecimalInv /\ [DecimalNext \/ DurationNext]_valueVars => DecimalInv'
    <2> SUFFICES ASSUME DecimalInv, [DecimalNext \/ DurationNext]_valueVars PROVE DecimalInv'
      OBVIOUS
    <2>0. Number(decimal.value) \in Int
      BY DEF DecimalInv
    <2>1. ASSUME NEW t \in Operands, AddDecimal(t) PROVE DecimalInv'
      <3>1. Proper(ParseDecimal(t)) /\ Number(ParseDecimal(t)) = Exact(t) /\ Exact(t) \in Int
        BY <2>1, ParseExact DEF AddDecimal
      <3>2. /\ Proper(Add(decimal.value, ParseDecimal(t)))
            /\ Number(Add(decimal.value, ParseDecimal(t))) = Number(decimal.value) + Exact(t)
        BY <3>1, AddExact DEF DecimalInv
      <3>3. /\ decimal'.value = Add(decimal.value, ParseDecimal(t))
            /\ decimal'.exact = decimal.exact + Exact(t)
        BY <2>1 DEF AddDecimal
      <3> QED
        BY <3>1, <3>2, <3>3 DEF DecimalInv, Proper, Number
    <2>2. ASSUME NEW t \in Operands, SubDecimal(t) PROVE DecimalInv'
      <3>1. Proper(ParseDecimal(t)) /\ Number(ParseDecimal(t)) = Exact(t) /\ Exact(t) \in Int
        BY <2>2, ParseExact DEF SubDecimal
      <3>2. /\ Proper(Sub(decimal.value, ParseDecimal(t)))
            /\ Number(Sub(decimal.value, ParseDecimal(t))) = Number(decimal.value) - Exact(t)
        BY <3>1, SubExact DEF DecimalInv
      <3>3. /\ decimal'.value = Sub(decimal.value, ParseDecimal(t))
            /\ decimal'.exact = decimal.exact - Exact(t)
        BY <2>2 DEF SubDecimal
      <3> QED
        BY <3>1, <3>2, <3>3 DEF DecimalInv, Proper, Number
    <2>3. CASE NegDecimal
      <3>1. Proper(Neg(decimal.value)) /\ Number(Neg(decimal.value)) = -Number(decimal.value)
        BY NegExact DEF DecimalInv
      <3>2. decimal'.value = Neg(decimal.value) /\ decimal'.exact = -decimal.exact
        BY <2>3 DEF NegDecimal
      <3> QED
        BY <3>1, <3>2 DEF DecimalInv, Proper, Number
    <2>4. CASE ShowDecimal \/ DurationNext \/ UNCHANGED valueVars
      <3>1. decimal'.value = decimal.value /\ decimal'.exact = decimal.exact
        <4>1. CASE ShowDecimal
          BY <4>1 DEF ShowDecimal
        <4>2. CASE DurationNext \/ UNCHANGED valueVars
          <5>1. decimal' = decimal
            BY <4>2, Zenon DEF DurationNext, ShowDuration, ReadDuration, valueVars
          <5> QED
            BY <5>1
        <4> QED
          BY <2>4, <4>1, <4>2
      <3> QED
        BY <3>1 DEF DecimalInv, Proper, Number
    <2> QED
      BY <2>1, <2>2, <2>3, <2>4 DEF DecimalNext
  <1> QED
    BY <1>1, <1>2, PTL DEF ValuesSpec

(* Decimals are exact for every denominator and word size: however many      *)
(* additions, subtractions and negations are chained, no carry or borrow is  *)
(* lost, and neither the assertion of from_parts() nor the unreachable arm   *)
(* of add() is met.                                                          *)
THEOREM DecimalsExact == ValuesSpec => []DecimalExact
  <1>1. DecimalInv => DecimalExact
    BY WordAssumption DEF DecimalInv, Proper, Decimals, Number, DecimalExact, Panic
  <1> QED
    BY <1>1, DecimalInvAlways, PTL

(* Division of the numbers that texts are made of.                           *)
LEMMA Division ==
  ASSUME NEW n \in Nat, NEW b \in Nat, 0 < b
  PROVE  /\ n \div b \in Nat /\ n % b \in Nat /\ n % b < b
         /\ n = (n \div b) * b + (n % b)
  <1>1. n \div b \in Nat /\ n % b \in Nat /\ n % b < b
    OBVIOUS
  <1> DEFINE d == n \div b
             m == n % b
  <1>2. \A q \in Int, r \in Int : q = d /\ r = m => n = q * b + r
    OBVIOUS
  <1>3. d \in Int /\ m \in Int
    BY <1>1
  <1>4. n = d * b + m
    <2> HIDE DEF d, m
    <2> QED
      BY <1>2, <1>3, Zenon
  <1> QED
    BY <1>1, <1>4, Zenon

LEMMA DivisionUnique ==
  ASSUME NEW b \in Nat, NEW q \in Int, NEW r \in Int, NEW p \in Int, NEW s \in Int,
         0 <= r, r < b, 0 <= s, s < b, q * b + r = p * b + s
  PROVE  q = p /\ r = s
  <1>1. ASSUME NEW x \in Int, NEW y \in Int, x < y PROVE x * b + b <= y * b
    <2>1. PICK e \in Nat : y = x + 1 + e
      <3>1. y - x - 1 \in Nat /\ y = x + 1 + (y - x - 1)
        BY <1>1
      <3> QED
        BY <3>1
    <2>2. y * b = x * b + b + e * b /\ e * b \in Nat /\ x * b \in Int
      BY <2>1
    <2> QED
      BY <2>2
  <1>2. q * b \in Int /\ p * b \in Int
    OBVIOUS
  <1>3. ~(q < p)
    <2> SUFFICES ASSUME q < p PROVE FALSE
      OBVIOUS
    <2>1. q * b + b <= p * b
      BY <1>1
    <2> DEFINE u == q * b  v == p * b
    <2>2. u \in Int /\ v \in Int /\ u + r = v + s /\ u + b <= v
      BY <1>2, <2>1
    <2> HIDE DEF u, v
    <2> QED
      BY <2>2
  <1>4. ~(p < q)
    <2> SUFFICES ASSUME p < q PROVE FALSE
      OBVIOUS
    <2>1. p * b + b <= q * b
      BY <1>1
    <2> DEFINE u == q * b  v == p * b
    <2>2. u \in Int /\ v \in Int /\ u + r = v + s /\ v + b <= u
      BY <1>2, <2>1
    <2> HIDE DEF u, v
    <2> QED
      BY <2>2
  <1>5. q = p
    BY <1>3, <1>4
  <1>6. r = s
    BY <1>2, <1>5
  <1> QED
    BY <1>5, <1>6

(* A remainder keeps its own remainder by a divisor of the modulus.          *)
Multiple(h, b) == \E c \in Nat : h = c * b

LEMMA ModOfMod ==
  ASSUME NEW n \in Nat, NEW b \in Nat, NEW h \in Nat, 0 < b, 0 < h, Multiple(h, b)
  PROVE  (n % h) % b = n % b
  <1>0. PICK c \in Nat : h = c * b
    BY DEF Multiple
  <1> DEFINE m == n % h
  <1>1. n \div h \in Nat /\ m \in Nat /\ n = (n \div h) * h + m
    BY Division
  <1>2. m \div b \in Nat /\ m % b \in Nat /\ m % b < b /\ m = (m \div b) * b + (m % b)
    BY <1>1, Division
  <1>3. n \div b \in Nat /\ n % b \in Nat /\ n % b < b /\ n = (n \div b) * b + (n % b)
    BY Division
  <1>4. ASSUME NEW x \in Nat, NEW y \in Nat
        PROVE  x * h + y * b = (x * c + y) * b /\ x * c + y \in Nat
    BY <1>0
  <1> DEFINE q == (n \div h) * c + m \div b
             p == n \div b
             s == m % b
             r == n % b
             top == (n \div h) * h
             low == (m \div b) * b
  <1>5. top + low = q * b /\ q \in Nat
    BY <1>1, <1>2, <1>4, Zenon
  <1>6. n = top + m /\ m = low + s /\ n = p * b + r
    BY <1>1, <1>2, <1>3, Zenon
  <1>7. /\ top \in Nat /\ low \in Nat /\ m \in Nat /\ q \in Nat /\ p \in Nat
        /\ s \in Nat /\ r \in Nat /\ s < b /\ r < b
    BY <1>1, <1>2, <1>3, <1>5
  <1>8. s = r
    <2> HIDE DEF m, q, p, s, r, top, low
    <2>1. q * b + s = p * b + r
      BY <1>5, <1>6, <1>7
    <2> QED
      BY <1>7, <2>1, DivisionUnique
  <1> QED
    BY <1>8

(* A fraction that is not zero ends in fewer than Log10 zeros, and without   *)
(* them it scales back to itself.                                            *)
LEMMA ZerosScaleBack ==
  ASSUME NEW f \in Nat, 0 < f, f < Denominator
  PROVE  /\ Tail0s(f) \in 0..(Log10 - 1)
         /\ f \div 10^Tail0s(f) \in Nat
         /\ (f \div 10^Tail0s(f)) * 10^Tail0s(f) = f
  <1> DEFINE S == {k \in 0..Log10 : f % 10^k # 0}
             k0 == Tail0s(f)
  <1>1. Log10 \in Nat /\ \A k \in 0..Log10 : 10^k \in Nat /\ 10^k > 0
    <2>1. \A k \in Nat : 10^k \in Int
      OBVIOUS
    <2> QED
      BY <2>1, UnitsAssumption
  <1>2. Log10 \in S
    <2>1. f % Denominator = f
      BY WordWraps, WordAssumption
    <2> QED
      BY <1>1, <2>1 DEF Denominator
  <1>3. 0 \notin S
    <2>1. 10^0 = 1
      OBVIOUS
    <2>2. f % 1 = 0
      OBVIOUS
    <2> QED
      BY <2>1, <2>2
  <1>4. Min(S) \in S /\ \A k \in S : Min(S) <= k
    <2>1. S \in SUBSET Nat /\ S # {}
      BY <1>1, <1>2
    <2> QED
      BY <2>1, MinIsFirst
  <1>5. \E k \in 0..Log10 : f % 10^k = 0 /\ f % 10^(k + 1) # 0
    <2> DEFINE k == Min(S) - 1
    <2>1. Min(S) \in 0..Log10 /\ f % 10^Min(S) # 0 /\ Min(S) # 0
      BY <1>3, <1>4
    <2>2. k \in 0..Log10 /\ k + 1 = Min(S) /\ ~(Min(S) <= k)
      BY <1>1, <2>1
    <2>3. k \notin S
      BY <1>4, <2>2
    <2>4. f % 10^k = 0
      BY <2>2, <2>3
    <2> HIDE DEF k, S
    <2> QED
      BY <2>1, <2>2, <2>4
  <1>6. k0 \in 0..Log10 /\ f % 10^k0 = 0
    BY <1>5 DEF Tail0s
  <1> HIDE DEF k0
  <1>7. k0 # Log10
    BY <1>2, <1>6
  <1>8. 10^k0 \in Nat /\ 0 < 10^k0
    BY <1>1, <1>6
  <1>9. f \div 10^k0 \in Nat /\ f = (f \div 10^k0) * 10^k0 + (f % 10^k0)
    <2> DEFINE p == 10^k0
    <2>1. p \in Nat /\ 0 < p
      BY <1>8
    <2> HIDE DEF p
    <2>2. f \div p \in Nat /\ f = (f \div p) * p + (f % p)
      BY <2>1, Division
    <2> QED
      BY <2>2, Zenon DEF p
  <1>10. (f \div 10^k0) * 10^k0 = f
    <2> DEFINE p == (f \div 10^k0) * 10^k0
    <2>1. p \in Nat
      BY <1>8, <1>9
    <2>2. f = p + 0
      BY <1>6, <1>9, Zenon
    <2> HIDE DEF p
    <2>3. p = f
      BY <2>1, <2>2
    <2> QED
      BY <2>3 DEF p
  <1>11. k0 \in 0..(Log10 - 1)
    BY <1>1, <1>6, <1>7
  <1> QED
    BY <1>9, <1>10, <1>11, Zenon DEF k0

(* The text of a proper decimal reads back, when it is whole or not negative.*)
LEMMA PrintedReadsBack ==
  ASSUME NEW d, Proper(d), d.integer >= 0 \/ d.fractional = 0
  PROVE  ParseDecimal(PrintDecimal(d)) = d
  <1> DEFINE k == IF d.fractional = 0 THEN Log10 - 1 ELSE Tail0s(d.fractional)
             i == IF d.integer < 0 THEN -d.integer ELSE d.integer
             t == PrintDecimal(d)
  <1>1. /\ d.integer \in Int /\ d.fractional \in Nat /\ d.fractional < Denominator
        /\ d = [integer |-> d.integer, fractional |-> d.fractional]
    BY DEF Proper, Decimals
  <1>2. Log10 \in Nat \ {0}
    <2>1. Log10 # 0
      <3> SUFFICES ASSUME Log10 = 0 PROVE FALSE
        OBVIOUS
      <3>1. 10^0 = 1
        OBVIOUS
      <3>2. Denominator = 1
        BY <3>1 DEF Denominator
      <3> QED
        BY <3>2, WordAssumption
    <2> QED
      BY <2>1, UnitsAssumption
  <1>3. k \in 0..(Log10 - 1) /\ (d.fractional \div 10^k) * 10^k = d.fractional
    <2>1. CASE d.fractional = 0
      <3> DEFINE p == 10^(Log10 - 1)
      <3>1. p \in Nat /\ 0 < p
        <4>1. Log10 - 1 \in 0..Log10 /\ \A j \in Nat : 10^j \in Int
          BY <1>2
        <4> QED
          BY <4>1, UnitsAssumption
      <3>2. (0 \div p) * p = 0
        <4> HIDE DEF p
        <4> QED
          BY <3>1
      <3> QED
        BY <1>2, <2>1, <3>2
    <2>2. CASE d.fractional # 0
      BY <1>1, <2>2, ZerosScaleBack
    <2> QED
      BY <2>1, <2>2
  <1>4. /\ t.neg = (d.integer < 0) /\ t.int = i
        /\ t.frac = d.fractional \div 10^k /\ t.digits = Log10 - k
    BY Zenon DEF PrintDecimal
  <1>5. Scaled(t) = d.fractional
    <2>1. Log10 - t.digits = k
      BY <1>2, <1>3, <1>4
    <2> HIDE DEF k
    <2> QED
      BY <1>3, <1>4, <2>1, Zenon DEF Scaled
  <1> HIDE DEF k, t
  <1>6. from_parts(i, d.fractional) = [integer |-> i, fractional |-> d.fractional]
    BY <1>1 DEF from_parts
  <1>7. CASE d.integer >= 0
    <2>1. ~(d.integer < 0)
      BY <1>1, <1>7
    <2>2. ~t.neg
      BY <1>4, <2>1, Zenon
    <2>3. ParseDecimal(t) = from_parts(i, d.fractional)
      BY <1>4, <1>5, <2>2, Zenon DEF ParseDecimal
    <2>4. i = d.integer
      BY <2>1
    <2> QED
      BY <1>1, <1>6, <2>3, <2>4, Zenon DEF t
  <1>8. CASE d.integer < 0
    <2>1. d.fractional = 0 /\ i = -d.integer
      BY <1>1, <1>8
    <2>2. ParseDecimal(t) = Neg([integer |-> i, fractional |-> 0])
      BY <1>4, <1>5, <1>6, <1>8, <2>1 DEF ParseDecimal
    <2>3. (0 - 0) % Word = 0
      BY WordWraps, WordAssumption
    <2>4. Neg([integer |-> i, fractional |-> 0]) = from_parts(0 - i, 0)
      BY <2>3 DEF Neg, Sub
    <2>5. 0 - i = d.integer
      BY <1>1, <2>1
    <2>6. from_parts(0 - i, 0) = [integer |-> d.integer, fractional |-> 0]
      BY <2>5, WordAssumption DEF from_parts
    <2> QED
      BY <1>1, <2>1, <2>2, <2>4, <2>6 DEF t
  <1> QED
    BY <1>1, <1>7, <1>8

(* The turns that the loop of from_str() takes over the first m segments.    *)
Turns(f, text, m) ==
    f = [i \in 0..m |-> IF i = 0 THEN Unparsed ELSE ReadSegment(f[i - 1], text[i])]

LEMMA TurnsExist ==
  ASSUME NEW text, NEW N \in Nat
  PROVE  \E f : Turns(f, text, N)
  <1> DEFINE I == {m \in Nat : \E f : Turns(f, text, m)}
  <1>1. \E f : Turns(f, text, 0)
    <2> DEFINE f == [i \in 0..0 |-> Unparsed]
    <2>1. f = [i \in 0..0 |-> IF i = 0 THEN Unparsed ELSE ReadSegment(f[i - 1], text[i])]
      OBVIOUS
    <2> HIDE DEF f
    <2> QED
      BY <2>1 DEF Turns
  <1>2. ASSUME NEW m \in Nat, NEW f, Turns(f, text, m) PROVE \E g : Turns(g, text, m + 1)
    <2> DEFINE g == [i \in 0..(m + 1) |-> IF i = m + 1 THEN ReadSegment(f[m], text[m + 1]) ELSE f[i]]
    <2>1. \A i \in 0..m : f[i] = IF i = 0 THEN Unparsed ELSE ReadSegment(f[i - 1], text[i])
      BY <1>2 DEF Turns
    <2>2. g[m + 1] = ReadSegment(f[m], text[m + 1]) /\ \A i \in 0..m : g[i] = f[i]
      OBVIOUS
    <2>3. g = [i \in 0..(m + 1) |-> g[i]]
      OBVIOUS
    <2> HIDE DEF g
    <2>4. ASSUME NEW i \in 0..(m + 1)
          PROVE  g[i] = IF i = 0 THEN Unparsed ELSE ReadSegment(g[i - 1], text[i])
      <3>1. CASE i = m + 1
        <4>1. i - 1 = m /\ m \in 0..m /\ i # 0
          BY <3>1
        <4> QED
          BY <2>2, <3>1, <4>1
      <3>2. CASE i # m + 1
        <4>1. i \in 0..m /\ (i # 0 => i - 1 \in 0..m)
          BY <3>2
        <4> QED
          BY <2>1, <2>2, <4>1
      <3> QED
        BY <3>1, <3>2
    <2>5. Turns(g, text, m + 1)
      BY <2>3, <2>4 DEF Turns
    <2> QED
      BY <2>5
  <1>3. 0 \in I /\ \A m \in Nat : m \in I => m + 1 \in I
    BY <1>1, <1>2
  <1>4. Nat \subseteq I
    <2> HIDE DEF I
    <2> QED
      BY <1>3, Induction
  <1> QED
    BY <1>4

(* What was read of a text does not depend on what follows.                  *)
LEMMA TurnsAgree ==
  ASSUME NEW text, NEW more, NEW m \in Nat, NEW n \in Nat, m <= n, NEW f, NEW g,
         Turns(f, text, m), Turns(g, more, n), \A i \in 1..m : more[i] = text[i]
  PROVE  f[m] = g[m]
  <1> DEFINE I == {i \in Nat : i <= m => f[i] = g[i]}
  <1>1. f[0] = Unparsed /\ \A i \in 1..m : f[i] = ReadSegment(f[i - 1], text[i])
    BY DEF Turns
  <1>2. g[0] = Unparsed /\ \A i \in 1..n : g[i] = ReadSegment(g[i - 1], more[i])
    BY DEF Turns
  <1>3. ASSUME NEW i \in Nat, i + 1 <= m, f[i] = g[i] PROVE f[i + 1] = g[i + 1]
    <2>1. i + 1 \in 1..m /\ i + 1 \in 1..n /\ (i + 1) - 1 = i
      BY <1>3
    <2> QED
      BY <1>1, <1>2, <1>3, <2>1
  <1>4. 0 \in I /\ \A i \in Nat : i \in I => i + 1 \in I
    BY <1>1, <1>2, <1>3
  <1>5. Nat \subseteq I
    <2> HIDE DEF I
    <2> QED
      BY <1>4, Induction
  <1> QED
    BY <1>5

LEMMA ReadingTurns ==
  ASSUME NEW text, Len(text) \in Nat
  PROVE  \E f : Turns(f, text, Len(text)) /\ Reading(text) = f[Len(text)]
  <1> DEFINE f == CHOOSE g : Turns(g, text, Len(text))
  <1>1. Turns(f, text, Len(text))
    BY TurnsExist
  <1>2. Reading(text) = f[Len(text)]
    BY Zenon DEF Reading, Turns
  <1> QED
    BY <1>1, <1>2

(* A text is read segment by segment.                                        *)
LEMMA ReadingGrows ==
  ASSUME NEW S, NEW text \in Seq(S), NEW s \in S
  PROVE  text \o <<s>> \in Seq(S) /\ Reading(text \o <<s>>) = ReadSegment(Reading(text), s)
  <1> DEFINE m == Len(text)
             more == text \o <<s>>
  <1>1. /\ m \in Nat /\ more \in Seq(S) /\ Len(more) = m + 1
        /\ more[m + 1] = s /\ \A i \in 1..m : more[i] = text[i]
    OBVIOUS
  <1>2. PICK f : Turns(f, text, m) /\ Reading(text) = f[m]
    BY <1>1, ReadingTurns
  <1> HIDE DEF m, more
  <1>3. PICK g : Turns(g, more, m + 1) /\ Reading(more) = g[m + 1]
    <2>1. Len(more) \in Nat
      BY <1>1
    <2> QED
      BY <1>1, <2>1, ReadingTurns
  <1>4. f[m] = g[m]
    <2>1. m + 1 \in Nat /\ m <= m + 1
      BY <1>1
    <2> QED
      BY <1>1, <1>2, <1>3, <2>1, TurnsAgree
  <1>5. g[m + 1] = ReadSegment(g[m], more[m + 1])
    <2>1. m + 1 \in 0..(m + 1) /\ m + 1 # 0 /\ (m + 1) - 1 = m
      BY <1>1
    <2> QED
      BY <1>3, <2>1 DEF Turns
  <1> QED
    BY <1>1, <1>2, <1>3, <1>4, <1>5 DEF more

LEMMA ReadingNothing == Reading(<<>>) = Unparsed
  <1>1. Len(<<>>) = 0
    OBVIOUS
  <1>2. PICK f : Turns(f, <<>>, 0) /\ Reading(<<>>) = f[0]
    BY <1>1, ReadingTurns
  <1> QED
    BY <1>2 DEF Turns
LEMMA SegmentCounts ==
  ASSUME NEW acc, NEW s, acc.months \in Nat, acc.days \in Nat, acc.nanos \in Nat,
         acc.prev # ".", acc.ok, s.number \in Nat
  PROVE  LET a == ReadSegment(acc, s)
             time == acc.time \/ s.time
             k == s.number
             Counts(months, days, nanos) == a.months = months /\ a.days = days /\ a.nanos = nanos
         IN  /\ a.time = time /\ a.prev = s.symbol /\ a.ok
             /\ s.symbol = "Y" => Counts(acc.months + k * MonthsPerYear, acc.days, acc.nanos)
             /\ s.symbol = "M" /\ ~time => Counts(acc.months + k, acc.days, acc.nanos)
             /\ s.symbol = "D" => Counts(acc.months, acc.days + k, acc.nanos)
             /\ s.symbol = "H" => Counts(acc.months, acc.days, acc.nanos + k * NanosPerHour)
             /\ s.symbol = "M" /\ time => Counts(acc.months, acc.days, acc.nanos + k * NanosPerMinute)
             /\ s.symbol \in {"S", "."} => Counts(acc.months, acc.days, acc.nanos + k * NanosPerSec)
  <1> DEFINE a == ReadSegment(acc, s)
             time == acc.time \/ s.time
             k == s.number
             months == CASE s.symbol = "Y" -> k * MonthsPerYear
                         [] s.symbol = "M" /\ ~time -> k
                         [] OTHER -> 0
             days == CASE s.symbol = "W" -> k * DaysPerWeek
                       [] s.symbol = "D" -> k
                       [] OTHER -> 0
             nanos == CASE s.symbol = "H" -> k * NanosPerHour
                        [] s.symbol = "M" /\ time -> k * NanosPerMinute
                        [] s.symbol = "." \/ (s.symbol = "S" /\ acc.prev # ".") -> k * NanosPerSec
                        [] s.symbol = "S" /\ acc.prev = "." -> k * 10^(NanoDigits - s.len)
                        [] OTHER -> 0
  <1>1. /\ a.months = acc.months + months /\ a.days = acc.days + days /\ a.nanos = acc.nanos + nanos
        /\ a.time = time /\ a.prev = s.symbol
        /\ a.ok = (acc.ok /\ (acc.prev = "." => s.symbol = "S"))
    BY Zenon DEF ReadSegment
  <1>2. a.ok
    BY <1>1, Zenon
  <1>3. \A x \in Nat : x + 0 = x
    OBVIOUS
  <1>4. ASSUME s.symbol = "Y" PROVE months = k * MonthsPerYear /\ days = 0 /\ nanos = 0
    BY <1>4
  <1>5. ASSUME s.symbol = "M", ~time PROVE months = k /\ days = 0 /\ nanos = 0
    BY <1>5
  <1>6. ASSUME s.symbol = "D" PROVE months = 0 /\ days = k /\ nanos = 0
    BY <1>6
  <1>7. ASSUME s.symbol = "H" PROVE months = 0 /\ days = 0 /\ nanos = k * NanosPerHour
    BY <1>7
  <1>8. ASSUME s.symbol = "M", time PROVE months = 0 /\ days = 0 /\ nanos = k * NanosPerMinute
    BY <1>8
  <1>9. ASSUME s.symbol \in {"S", "."} PROVE months = 0 /\ days = 0 /\ nanos = k * NanosPerSec
    BY <1>9
  <1> HIDE DEF a, months, days, nanos, time
  <1>10. LET Counts(x, y, z) == a.months = x /\ a.days = y /\ a.nanos = z
         IN  /\ s.symbol = "Y" => Counts(acc.months + k * MonthsPerYear, acc.days, acc.nanos)
             /\ s.symbol = "M" /\ ~time => Counts(acc.months + k, acc.days, acc.nanos)
             /\ s.symbol = "D" => Counts(acc.months, acc.days + k, acc.nanos)
             /\ s.symbol = "H" => Counts(acc.months, acc.days, acc.nanos + k * NanosPerHour)
             /\ s.symbol = "M" /\ time => Counts(acc.months, acc.days, acc.nanos + k * NanosPerMinute)
             /\ s.symbol \in {"S", "."} => Counts(acc.months, acc.days, acc.nanos + k * NanosPerSec)
    BY <1>1, <1>3, <1>4, <1>5, <1>6, <1>7, <1>8, <1>9
  <1> QED
    BY <1>1, <1>2, <1>10, Zenon DEF a, time

Symbols == {"Y", "M", "D", "H", "S", "."}

(* The segments that a duration may print.                                   *)
Segments == {Seg(n, symbol, time) : n \in Nat, symbol \in Symbols, time \in BOOLEAN}
            \cup {NanoSeg(n) : n \in Nat}

(* What from_str() has counted at the end of a text, and whether it has met  *)
(* the T; no fraction is left open.                                          *)
Stands(text, months, days, nanos, time) ==
    /\ text \in Seq(Segments)
    /\ Reading(text).months = months /\ Reading(text).days = days /\ Reading(text).nanos = nanos
    /\ Reading(text).time = time /\ Reading(text).prev # "." /\ Reading(text).ok

LEMMA ClockUnits ==
  /\ NanosPerSec \in Nat /\ 0 < NanosPerSec
  /\ NanosPerMinute \in Nat /\ 0 < NanosPerMinute
  /\ NanosPerHour \in Nat /\ 0 < NanosPerHour
  <1>1. ASSUME NEW n \in Nat, 0 < n PROVE Sixty * n \in Nat /\ 0 < Sixty * n
    <2>1. Sixty \in Nat /\ 0 < Sixty
      BY UnitsAssumption
    <2> QED
      BY <1>1, <2>1
  <1>2. NanosPerSec \in Nat /\ 0 < NanosPerSec
    <2>1. \A k \in Nat : 10^k \in Int
      OBVIOUS
    <2> QED
      BY <2>1, UnitsAssumption DEF NanosPerSec
  <1>3. NanosPerMinute \in Nat /\ 0 < NanosPerMinute
    <2> HIDE DEF NanosPerSec
    <2> QED
      BY <1>1, <1>2 DEF NanosPerMinute
  <1>4. NanosPerHour \in Nat /\ 0 < NanosPerHour
    <2> HIDE DEF NanosPerMinute
    <2> QED
      BY <1>1, <1>3 DEF NanosPerHour
  <1> QED
    BY <1>2, <1>3, <1>4

(* A unit that is zero is left out of the text and out of the reading; the   *)
(* minutes are told from the months by the T before them or earlier.         *)
LEMMA ReadUnit ==
  ASSUME NEW m \in Nat, NEW d \in Nat, NEW n \in Nat, NEW clock \in BOOLEAN,
         NEW text, Stands(text, m, d, n, clock), NEW k \in Nat, NEW time \in BOOLEAN
  PROVE  /\ ~clock => Stands(text \o Positive(k, "Y", FALSE), m + k * MonthsPerYear, d, n, FALSE)
         /\ ~clock => Stands(text \o Positive(k, "M", FALSE), m + k, d, n, FALSE)
         /\ ~clock => Stands(text \o Positive(k, "D", FALSE), m, d + k, n, FALSE)
         /\ Stands(text \o Positive(k, "H", TRUE), m, d, n + k * NanosPerHour, clock \/ k > 0)
         /\ clock \/ time =>
              Stands(text \o Positive(k, "M", time), m, d, n + k * NanosPerMinute, clock \/ k > 0)
         /\ Stands(text \o Positive(k, "S", time), m, d, n + k * NanosPerSec, clock \/ (time /\ k > 0))
  <1>0. text \in Seq(Segments)
    BY DEF Stands
  <1>1. CASE k = 0
    <2>1. \A symbol, flag : text \o Positive(k, symbol, flag) = text
      BY <1>0, <1>1 DEF Positive
    <2>2. /\ m + k * MonthsPerYear = m /\ m + k = m /\ d + k = d
          /\ n + k * NanosPerHour = n /\ n + k * NanosPerMinute = n /\ n + k * NanosPerSec = n
      BY <1>1, ClockUnits, UnitsAssumption
    <2>3. (clock \/ k > 0) = clock /\ (clock \/ (time /\ k > 0)) = clock
      BY <1>1
    <2>4. ~clock => clock = FALSE
      OBVIOUS
    <2> QED
      BY <2>1, <2>2, <2>3, <2>4
  <1>2. CASE k > 0
    <2> DEFINE r == Reading(text)
    <2>1. ASSUME NEW symbol \in Symbols, NEW flag \in BOOLEAN
          PROVE  /\ text \o Positive(k, symbol, flag) \in Seq(Segments)
                 /\ Reading(text \o Positive(k, symbol, flag)) = ReadSegment(r, Seg(k, symbol, flag))
      <3>1. Positive(k, symbol, flag) = <<Seg(k, symbol, flag)>>
        BY <1>2 DEF Positive
      <3>2. Seg(k, symbol, flag) \in Segments
        BY DEF Segments
      <3>3. /\ text \o <<Seg(k, symbol, flag)>> \in Seq(Segments)
            /\ Reading(text \o <<Seg(k, symbol, flag)>>) = ReadSegment(r, Seg(k, symbol, flag))
        BY <1>0, <3>2, ReadingGrows
      <3> QED
        BY <3>1, <3>3, Zenon
    <2>2. /\ r.months = m /\ r.days = d /\ r.nanos = n
          /\ r.time = clock /\ r.prev # "." /\ r.ok
      BY DEF Stands
    <2> HIDE DEF r
    <2>3. ASSUME NEW symbol \in Symbols \ {"."}, NEW flag \in BOOLEAN
          PROVE  LET more == text \o Positive(k, symbol, flag)
                     time1 == clock \/ flag
                     Then(months, days, nanos) == Stands(more, months, days, nanos, time1)
                 IN  /\ symbol = "Y" => Then(m + k * MonthsPerYear, d, n)
                     /\ symbol = "M" /\ ~time1 => Then(m + k, d, n)
                     /\ symbol = "D" => Then(m, d + k, n)
                     /\ symbol = "H" => Then(m, d, n + k * NanosPerHour)
                     /\ symbol = "M" /\ time1 => Then(m, d, n + k * NanosPerMinute)
                     /\ symbol = "S" => Then(m, d, n + k * NanosPerSec)
      <3> DEFINE c == Seg(k, symbol, flag)
                 s == ReadSegment(r, c)
      <3>1. c.number = k /\ c.symbol = symbol /\ c.time = flag
        BY DEF Seg
      <3>2. /\ text \o Positive(k, symbol, flag) \in Seq(Segments)
            /\ Reading(text \o Positive(k, symbol, flag)) = s
        BY <2>1
      <3> HIDE DEF c
      <3>3. s.time = (clock \/ flag) /\ s.prev = symbol /\ s.ok
        BY <2>2, <3>1, SegmentCounts
      <3>4. Stands(text \o Positive(k, symbol, flag), s.months, s.days, s.nanos, clock \/ flag)
        BY <3>2, <3>3 DEF Stands
      <3> QED
        BY <2>2, <3>1, <3>4, SegmentCounts
    <2>4. {"Y", "M", "D", "H", "S"} \subseteq Symbols \ {"."}
      BY DEF Symbols
    <2>5. (clock \/ k > 0) = TRUE /\ (clock \/ (time /\ k > 0)) = (clock \/ time)
      BY <1>2
    <2> QED
      BY <2>3, <2>4, <2>5
  <1>3. k = 0 \/ k > 0
    OBVIOUS
  <1> QED
    BY <1>1, <1>2, <1>3, Zenon

LEMMA TwoInARow ==
  ASSUME NEW S, NEW c \in S, NEW e \in S
  PROVE  <<c>> \o <<e>> = <<c, e>>
  <1> DEFINE s == <<c>>
             t == <<e>>
             u == s \o t
             v == <<c, e>>
  <1>1. s \in Seq(S) /\ t \in Seq(S) /\ Len(s) = 1 /\ Len(t) = 1 /\ s[1] = c /\ t[1] = e
    OBVIOUS
  <1>2. v \in Seq(S) /\ Len(v) = 2 /\ v[1] = c /\ v[2] = e
    OBVIOUS
  <1> HIDE DEF s, t, v
  <1>3. u \in Seq(S) /\ Len(u) = 2 /\ \A i \in 1..2 : u[i] = IF i <= 1 THEN s[i] ELSE t[i - 1]
    BY <1>1, ConcatProperties
  <1> HIDE DEF u
  <1>4. u = v
    BY <1>1, <1>2, <1>3, SeqEqual
  <1> QED
    BY <1>4 DEF u, v, s, t

(* Seconds with a fraction are two segments: the second one, of NanoDigits   *)
(* digits, is read in nanoseconds.                                           *)
LEMMA ReadFraction ==
  ASSUME NEW m \in Nat, NEW d \in Nat, NEW n \in Nat, NEW clock \in BOOLEAN,
         NEW text, Stands(text, m, d, n, clock), NEW k \in Nat, NEW nanos \in Nat, NEW time \in BOOLEAN
  PROVE  LET r == Reading(text \o <<Seg(k, ".", time), NanoSeg(nanos)>>)
         IN  r.months = m /\ r.days = d /\ r.nanos = n + k * NanosPerSec + nanos /\ r.ok
  <1> DEFINE c == Seg(k, ".", time)
             e == NanoSeg(nanos)
             a == Reading(text)
             b == Reading(text \o <<c>>)
             z == Reading(text \o <<c, e>>)
  <1>1. text \in Seq(Segments) /\ c \in Segments /\ e \in Segments
    BY DEF Stands, Segments, Symbols
  <1>2. /\ a.months = m /\ a.days = d /\ a.nanos = n /\ a.prev # "." /\ a.ok
        /\ c.number = k /\ c.symbol = "."
        /\ e.number = nanos /\ e.len = NanoDigits /\ e.symbol = "S"
    BY DEF Stands, Seg, NanoSeg
  <1> HIDE DEF c, e
  <1>3. text \o <<c>> \in Seq(Segments) /\ b = ReadSegment(a, c)
    BY <1>1, ReadingGrows
  <1>4. z = ReadSegment(b, e)
    <2>1. text \o <<c, e>> = (text \o <<c>>) \o <<e>>
      <3>1. <<c>> \in Seq(Segments) /\ <<e>> \in Seq(Segments)
        BY <1>1
      <3>2. <<c>> \o <<e>> = <<c, e>>
        BY <1>1, TwoInARow
      <3>3. (text \o <<c>>) \o <<e>> = text \o (<<c>> \o <<e>>)
        BY <1>1, <3>1, ConcatAssociative
      <3> QED
        BY <3>2, <3>3, Zenon
    <2>2. Reading((text \o <<c>>) \o <<e>>) = ReadSegment(b, e)
      BY <1>1, <1>3, ReadingGrows
    <2> QED
      BY <2>1, <2>2, Zenon
  <1> HIDE DEF a
  <1>5. /\ b.months = m /\ b.days = d /\ b.nanos = n + k * NanosPerSec
        /\ b.prev = "." /\ b.ok
    <2> HIDE DEF b
    <2> QED
      BY <1>2, <1>3, SegmentCounts
  <1>6. n + k * NanosPerSec \in Nat
    BY ClockUnits
  <1>7. nanos * 10^(NanoDigits - NanoDigits) = nanos
    <2> DEFINE p == 10^(NanoDigits - NanoDigits)
    <2>1. NanoDigits - NanoDigits = 0 /\ 10^0 = 1
      BY UnitsAssumption
    <2>2. p = 1
      BY <2>1, Zenon
    <2> HIDE DEF p
    <2>3. nanos * p = nanos
      BY <2>2
    <2> QED
      BY <2>3 DEF p
  <1> HIDE DEF b, z
  <1>8. /\ z.months = m + 0 /\ z.days = d + 0 /\ z.ok
        /\ z.nanos = n + k * NanosPerSec + nanos * 10^(NanoDigits - NanoDigits)
    BY <1>2, <1>4, <1>5, Zenon DEF ReadSegment
  <1> QED
    BY <1>6, <1>7, <1>8 DEF z, c, e

(* Months and days, then the units of the clock, add up to what was printed. *)
LEMMA UnitsAddUp ==
  ASSUME NEW n \in Nat
  PROVE  LET hours == n \div NanosPerHour
             minutes == (n % NanosPerHour) \div NanosPerMinute
             seconds == (n % NanosPerMinute) \div NanosPerSec
             nanos == n % NanosPerSec
         IN  /\ hours \in Nat /\ minutes \in Nat /\ seconds \in Nat /\ nanos \in Nat
             /\ hours * NanosPerHour + minutes * NanosPerMinute + seconds * NanosPerSec + nanos = n
  <1> DEFINE h == NanosPerHour
             m == NanosPerMinute
             s == NanosPerSec
  <1>1. h \in Nat /\ 0 < h /\ m \in Nat /\ 0 < m /\ s \in Nat /\ 0 < s
    BY ClockUnits
  <1>2. Multiple(h, m) /\ Multiple(m, s)
    BY UnitsAssumption DEF NanosPerHour, NanosPerMinute, Multiple
  <1> HIDE DEF h, m, s
  <1>3. (n % h) % m = n % m
    BY <1>1, <1>2, ModOfMod
  <1>4. (n % m) % s = n % s
    BY <1>1, <1>2, ModOfMod
  <1>5. n \div h \in Nat /\ n % h \in Nat /\ n = (n \div h) * h + (n % h)
    BY <1>1, Division
  <1>6. (n % h) \div m \in Nat /\ n % m \in Nat /\ n % h = ((n % h) \div m) * m + (n % m)
    <2>1. (n % h) \div m \in Nat /\ n % h = ((n % h) \div m) * m + ((n % h) % m)
      BY <1>1, <1>5, Division
    <2> QED
      BY <1>1, <1>3, <2>1, Division
  <1>7. (n % m) \div s \in Nat /\ n % s \in Nat /\ n % m = ((n % m) \div s) * s + (n % s)
    <2>1. (n % m) \div s \in Nat /\ n % m = ((n % m) \div s) * s + ((n % m) % s)
      BY <1>1, <1>6, Division
    <2> QED
      BY <1>1, <1>4, <2>1, Division
  <1> DEFINE x == (n \div h) * h
             y == ((n % h) \div m) * m
             z == ((n % m) \div s) * s
             u == n % h
             v == n % m
             w == n % s
  <1>8. x \in Nat /\ y \in Nat /\ z \in Nat /\ u \in Nat /\ v \in Nat /\ w \in Nat
    BY <1>1, <1>5, <1>6, <1>7
  <1>9. n = x + u /\ u = y + v /\ v = z + w
    BY <1>5, <1>6, <1>7, Zenon
  <1>10. x + y + z + w = n
    <2> HIDE DEF x, y, z, u, v, w
    <2> QED
      BY <1>8, <1>9
  <1> QED
    BY <1>5, <1>6, <1>7, <1>10, Zenon DEF h, m, s

(* Every duration reads back, whichever of its units are zero.               *)
LEMMA DurationReadsBack ==
  ASSUME NEW d \in Durations
  PROVE  ParseDuration(PrintDuration(d)) = <<d>>
  <1> DEFINE r == Reading(PrintDuration(d))
             years == d.months \div MonthsPerYear
             months == d.months % MonthsPerYear
             hours == d.nanos \div NanosPerHour
             minutes == (d.nanos % NanosPerHour) \div NanosPerMinute
             seconds == (d.nanos % NanosPerMinute) \div NanosPerSec
             nanos == d.nanos % NanosPerSec
             first == hours = 0 /\ minutes = 0
  <1>1. /\ d.months \in Nat /\ d.days \in Nat /\ d.nanos \in Nat
        /\ d = [months |-> d.months, days |-> d.days, nanos |-> d.nanos]
    BY UnitsAssumption
  <1>2. Stands(<<>>, 0, 0, 0, FALSE)
    <2>1. <<>> \in Seq(Segments)
      OBVIOUS
    <2> QED
      BY <2>1, ReadingNothing DEF Stands, Unparsed
  <1>3. years \in Nat /\ months \in Nat /\ years * MonthsPerYear + months = d.months
    <2>1. MonthsPerYear \in Nat /\ 0 < MonthsPerYear
      BY UnitsAssumption
    <2> QED
      BY <1>1, <2>1, Division
  <1>4. /\ hours \in Nat /\ minutes \in Nat /\ seconds \in Nat /\ nanos \in Nat
        /\ hours * NanosPerHour + minutes * NanosPerMinute + seconds * NanosPerSec + nanos = d.nanos
    BY <1>1, UnitsAddUp
  <1> DEFINE date == PrintDate(d.months, d.days)
             atHours == date \o Positive(hours, "H", TRUE)
             atMinutes == atHours \o Positive(minutes, "M", hours = 0)
             fromHours == hours * NanosPerHour
             fromMinutes == fromHours + minutes * NanosPerMinute
             fromSeconds == fromMinutes + seconds * NanosPerSec
  <1>5. r.months = d.months /\ r.days = d.days /\ r.nanos = d.nanos /\ r.ok
    <2>1. CASE d = [months |-> 0, days |-> 0, nanos |-> 0]
      <3>1. PrintDuration(d) = <<Seg(0, "S", TRUE)>>
        BY <2>1, Zenon DEF PrintDuration
      <3> DEFINE c == Seg(0, "S", TRUE)
      <3>2. c.number = 0 /\ c.symbol = "S" /\ c.time = TRUE
        BY DEF Seg
      <3> HIDE DEF c
      <3>3. Reading(<<>> \o <<c>>) = ReadSegment(Unparsed, c)
        <4>1. <<>> \in Seq({c}) /\ c \in {c}
          OBVIOUS
        <4> QED
          BY <4>1, ReadingGrows, ReadingNothing
      <3>4. <<>> \o <<c>> = <<c>>
        OBVIOUS
      <3>5. r = ReadSegment(Unparsed, c)
        BY <3>1, <3>3, <3>4, Zenon DEF c
      <3>6. 0 + 0 * NanosPerSec = 0
        BY ClockUnits
      <3> HIDE DEF r
      <3>7. r.months = 0 /\ r.days = 0 /\ r.nanos = 0 /\ r.ok
        BY <3>2, <3>5, <3>6, SegmentCounts DEF Unparsed
      <3>8. d.months = 0 /\ d.days = 0 /\ d.nanos = 0
        BY <2>1
      <3> QED
        BY <3>7, <3>8
    <2>2. CASE d # [months |-> 0, days |-> 0, nanos |-> 0]
      <3> HIDE DEF years, months, hours, minutes, seconds, nanos, first
      <3>1. Stands(date, d.months, d.days, 0, FALSE)
        <4> DEFINE t1 == Positive(years, "Y", FALSE)
                   t2 == t1 \o Positive(months, "M", FALSE)
        <4>1. Stands(<<>> \o t1, 0 + years * MonthsPerYear, 0, 0, FALSE)
          <5> HIDE DEF t1
          <5> QED
            BY <1>2, <1>3, ReadUnit DEF t1
        <4>2. <<>> \o t1 = t1
          BY DEF Positive
        <4>3. years * MonthsPerYear \in Nat /\ 0 + years * MonthsPerYear = years * MonthsPerYear
          BY <1>3, UnitsAssumption
        <4>4. Stands(t1, years * MonthsPerYear, 0, 0, FALSE)
          BY <4>1, <4>2, <4>3, Zenon
        <4> HIDE DEF t1
        <4>5. Stands(t2, d.months, 0, 0, FALSE)
          BY <1>3, <4>3, <4>4, ReadUnit
        <4> HIDE DEF t2
        <4>6. Stands(t2 \o Positive(d.days, "D", FALSE), d.months, 0 + d.days, 0, FALSE)
          BY <1>1, <4>5, ReadUnit
        <4>7. date = t2 \o Positive(d.days, "D", FALSE)
          BY Zenon DEF PrintDate, t1, t2, years, months
        <4>8. 0 + d.days = d.days
          BY <1>1
        <4> QED
          BY <4>6, <4>7, <4>8, Zenon
      <3> HIDE DEF date
      <3>2. Stands(atHours, d.months, d.days, fromHours, hours > 0)
        <4>1. Stands(atHours, d.months, d.days, 0 + fromHours, FALSE \/ hours > 0)
          BY <1>1, <1>4, <3>1, ReadUnit
        <4>2. 0 + fromHours = fromHours /\ fromHours \in Nat
          BY <1>4, ClockUnits
        <4>3. (FALSE \/ hours > 0) = (hours > 0)
          OBVIOUS
        <4> QED
          BY <4>1, <4>2, <4>3, Zenon
      <3>3. Stands(atMinutes, d.months, d.days, fromMinutes, hours > 0 \/ minutes > 0)
        <4> DEFINE clock == hours > 0
                   time == hours = 0
        <4>1. fromHours \in Nat /\ clock \in BOOLEAN /\ time \in BOOLEAN /\ (clock \/ time)
          BY <1>4, ClockUnits
        <4>2. Stands(atHours, d.months, d.days, fromHours, clock)
          BY <3>2
        <4> HIDE DEF atHours, fromHours, clock, time
        <4>3. Stands(atHours \o Positive(minutes, "M", time), d.months, d.days,
                     fromHours + minutes * NanosPerMinute, clock \/ minutes > 0)
          <5>1. d.months \in Nat /\ d.days \in Nat /\ minutes \in Nat
            BY <1>1, <1>4
          <5> QED
            BY <4>1, <4>2, <5>1, ReadUnit
        <4> QED
          BY <4>3 DEF clock, time
      <3>4. fromMinutes \in Nat
        BY <1>4, ClockUnits
      <3> DEFINE tail == IF nanos > 0 THEN <<Seg(seconds, ".", first), NanoSeg(nanos)>>
                         ELSE Positive(seconds, "S", first)
      <3>5. PrintDuration(d) = atMinutes \o tail
        BY <2>2, Zenon DEF PrintDuration, date, hours, minutes, seconds, nanos, first
      <3> HIDE DEF atMinutes, fromMinutes, tail
      <3>6. CASE nanos > 0
        <4>1. tail = <<Seg(seconds, ".", first), NanoSeg(nanos)>>
          BY <3>6, Zenon DEF tail
        <4>2. r = Reading(atMinutes \o <<Seg(seconds, ".", first), NanoSeg(nanos)>>)
          BY <3>5, <4>1, Zenon
        <4> DEFINE clock == hours > 0 \/ minutes > 0
        <4>3. first \in BOOLEAN /\ clock \in BOOLEAN /\ Stands(atMinutes, d.months, d.days, fromMinutes, clock)
          BY <3>3 DEF first
        <4> HIDE DEF clock
        <4>4. /\ r.months = d.months /\ r.days = d.days /\ r.ok
              /\ r.nanos = fromMinutes + seconds * NanosPerSec + nanos
          BY <1>1, <1>4, <3>4, <4>2, <4>3, ReadFraction
        <4>5. fromMinutes + seconds * NanosPerSec + nanos = d.nanos
          BY <1>4 DEF fromMinutes
        <4> QED
          BY <4>4, <4>5, Zenon
      <3>7. CASE ~(nanos > 0)
        <4>1. tail = Positive(seconds, "S", first)
          BY <3>7, Zenon DEF tail
        <4>2. r = Reading(atMinutes \o Positive(seconds, "S", first))
          BY <3>5, <4>1, Zenon
        <4>3. first \in BOOLEAN
          BY DEF first
        <4>4. Stands(atMinutes \o Positive(seconds, "S", first), d.months, d.days,
                     fromMinutes + seconds * NanosPerSec,
                     (hours > 0 \/ minutes > 0) \/ (first /\ seconds > 0))
          BY <1>1, <1>4, <3>3, <3>4, <4>3, ReadUnit
        <4>5. fromMinutes + seconds * NanosPerSec = d.nanos
          BY <1>4, <3>7, ClockUnits DEF fromMinutes
        <4> QED
          BY <4>2, <4>4, <4>5, Zenon DEF Stands
      <3> QED
        BY <3>6, <3>7
    <2> QED
      BY <2>1, <2>2
  <1> HIDE DEF r
  <1>6. ParseDuration(PrintDuration(d)) = <<[months |-> r.months, days |-> r.days, nanos |-> r.nanos]>>
    BY <1>5, Zenon DEF ParseDuration, r
  <1> QED
    BY <1>1, <1>5, <1>6, Zenon

(* The texts kept are those of the values they stand beside.                 *)
TextInv ==
    /\ decimal.text \in {NoText, PrintDecimal(decimal.value)}
    /\ duration = [value |-> duration.value, text |-> duration.text, read |-> duration.read]
    /\ duration.value \in Durations
    /\ duration.text \in {<<>>, PrintDuration(duration.value)}
    /\ duration.read \in {<<>>, ParseDuration(PrintDuration(duration.value))}

LEMMA TextInvAlways == ValuesSpec => []TextInv
  <1>1. ValuesInit => TextInv
    BY DEF ValuesInit, TextInv
  <1>2. TextInv /\ [DecimalNext \/ DurationNext]_valueVars => TextInv'
    <2> SUFFICES ASSUME TextInv, [DecimalNext \/ DurationNext]_valueVars PROVE TextInv'
      OBVIOUS
    <2>1. ASSUME \/ \E t \in Operands : AddDecimal(t) \/ SubDecimal(t)
                 \/ NegDecimal
          PROVE  TextInv'
      <3>1. decimal'.text = NoText /\ duration' = duration
        BY <2>1 DEF AddDecimal, SubDecimal, NegDecimal
      <3> QED
        BY <3>1 DEF TextInv
    <2>2. CASE ShowDecimal
      <3>1. /\ decimal'.value = decimal.value /\ decimal'.text = PrintDecimal(decimal.value)
            /\ duration' = duration
        BY <2>2 DEF ShowDecimal
      <3> QED
        BY <3>1 DEF TextInv
    <2>3. CASE ShowDuration
      <3>1. /\ duration'.value = duration.value /\ duration'.text = PrintDuration(duration.value)
            /\ duration'.read = duration.read /\ decimal' = decimal
            /\ duration' = [value |-> duration'.value, text |-> duration'.text, read |-> duration'.read]
        BY <2>3 DEF ShowDuration, TextInv
      <3> QED
        BY <3>1 DEF TextInv
    <2>4. CASE ReadDuration
      <3>1. duration.text = PrintDuration(duration.value)
        BY <2>4 DEF ReadDuration, TextInv
      <3>2. /\ duration'.value = duration.value /\ duration'.text = duration.text
            /\ duration'.read = ParseDuration(duration.text) /\ decimal' = decimal
            /\ duration' = [value |-> duration'.value, text |-> duration'.text, read |-> duration'.read]
        BY <2>4 DEF ReadDuration, TextInv
      <3> QED
        BY <3>1, <3>2 DEF TextInv
    <2>5. CASE UNCHANGED valueVars
      BY <2>5 DEF valueVars, TextInv
    <2> QED
      BY <2>1, <2>2, <2>3, <2>4, <2>5, Zenon DEF DecimalNext, DurationNext
  <1> QED
    BY <1>1, <1>2, PTL DEF ValuesSpec

(* Texts read back for every power of ten as denominator, every number of    *)
(* units and every duration: Display for Decimal loses nothing of a decimal  *)
(* that is whole or not negative, and Display for Duration nothing at all.   *)
THEOREM TextsComeBack == ValuesSpec => []TextsReadBack
  <1>1. DecimalInv /\ TextInv => TextsReadBack
    <2> SUFFICES ASSUME DecimalInv, TextInv PROVE TextsReadBack
      OBVIOUS
    <2> DEFINE d == decimal.value
    <2>1. ASSUME decimal.text # NoText, decimal.exact >= 0 \/ d.fractional = 0 PROVE ReadsBack
      <3>1. Proper(d) /\ decimal.text = PrintDecimal(d)
        BY <2>1 DEF DecimalInv, TextInv
      <3>2. d.integer >= 0 \/ d.fractional = 0
        <4> SUFFICES ASSUME d.integer < 0, decimal.exact >= 0 PROVE FALSE
          BY <2>1, <3>1 DEF Proper, Decimals
        <4>1. d.integer \in Int /\ d.fractional \in Nat /\ d.fractional < Denominator /\ Denominator \in Nat
          BY <3>1, WordAssumption DEF Proper, Decimals
        <4>2. d.integer * Denominator + d.fractional >= 0
          BY DEF DecimalInv, Number
        <4>3. PICK e \in Nat : d.integer = -1 - e
          <5>1. -1 - d.integer \in Nat /\ d.integer = -1 - (-1 - d.integer)
            BY <4>1
          <5> QED
            BY <5>1
        <4>4. d.integer * Denominator = -Denominator - e * Denominator /\ e * Denominator \in Nat
          BY <4>1, <4>3
        <4> QED
          BY <4>1, <4>2, <4>4
      <3> QED
        BY <3>1, <3>2, PrintedReadsBack DEF ReadsBack
    <2>2. ASSUME duration.read # <<>> PROVE duration.read = <<duration.value>>
      BY <2>2, DurationReadsBack DEF TextInv
    <2> QED
      BY <2>1, <2>2 DEF TextsReadBack
  <1> QED
    BY <1>1, DecimalInvAlways, TextInvAlways, PTL

-----------------------------------------------------------------------------
(* Concepts. What a part of a message became when decoding accepted it.      *)
Accepted(c) ==
    /\ c.category \notin {"missing", "noConcept"}
    /\ c.vt # "missing"
    /\ c.category \in {"Entity", "Relation"} => c.iid # 0
    /\ c.category \in {"Attribute", "Value"} =>
         /\ c.value.type \in ValueTypes \ {"Struct"}
         /\ c.value.range = "in"
         /\ c.value.zone.by # "missing"
         /\ c.value.zone.by = "name" => c.value.zone.known
         /\ c.value.zone.by = "offset" => c.value.zone.secs \in (1 - Day)..(Day - 1)

MessageInv ==
    \/ message.kind = "row" /\ message.row \in WireRows
    \/ message.kind = "leaf" /\ message.leaf \in WireLeaves

LeafCategories == {"Empty", "ValueType", "Kind", "Attribute", "Value"} \cup TypeCategories

(* A row is what the message decodes to, entry by entry; a leaf is one of    *)
(* those a document may have.                                                *)
AnswerInv ==
    /\ answer = [state |-> answer.state, row |-> answer.row]
    /\ answer.state \notin {"ok", "unreachable"} /\ message.kind = "row" => answer.row = <<>>
    /\ answer.state # "unreachable"
    /\ \A i \in DOMAIN answer.row : Accepted(answer.row[i])
    /\ message.kind = "row" /\ answer.state = "ok" =>
         answer.row = [i \in DOMAIN message.row |-> Decoded(message.row[i])]
    /\ message.kind = "leaf" =>
         /\ \A i \in DOMAIN answer.row : answer.row[i].category \in LeafCategories
         /\ answer.state = "ok" => 1 \in DOMAIN answer.row

(* An entry that may be given, from the column of a name.                    *)
Taken(message_row, c, name) ==
    Giveable(c) /\ \E k \in DOMAIN message_row :
        Columns[k] = name /\ c = Decoded(message_row[k]) /\ Accepted(c)

(* A row that holds what was set, under its name, and is empty otherwise.    *)
Filled(message_row, row, header, given) ==
    /\ DOMAIN row = DOMAIN header
    /\ \A i \in DOMAIN row : row[i] = Empty \/ (header[i] \in given /\ Taken(message_row, row[i], header[i]))
    /\ \A name \in given : \E i \in DOMAIN row : header[i] = name /\ Taken(message_row, row[i], name)

RowsInv ==
    /\ rows = [header |-> rows.header, row |-> rows.row, pushed |-> rows.pushed,
               sent |-> rows.sent, given |-> rows.given]
    /\ rows # NoRows => message.kind = "row" /\ answer.state = "ok"
    /\ rows.header \in Seq(STRING)
    /\ Filled(message.row, rows.row, rows.header, rows.given)
    /\ rows.pushed \in {<<>>, rows.row}
    /\ rows.sent # <<>> =>
         rows.pushed # <<>> /\ rows.sent = [i \in DOMAIN rows.row |-> Encode(rows.row[i])]

(* A yes that the caller heard is true of its concept for as long as it may  *)
(* call a getter.                                                            *)
True(c, asked) ==
    \/ asked \in ValueTypes /\ TryGetValueType(c) = asked
    \/ asked \in Instances /\ c.category = asked

CallerInv ==
    /\ capi = [concept |-> capi.concept, asked |-> capi.asked, yes |-> capi.yes,
               process |-> capi.process]
    /\ capi.concept = Empty => ~capi.yes
    /\ capi.process = "running" /\ capi.yes => True(capi.concept, capi.asked)
    /\ AskedGetterReturns

ConceptInv == MessageInv /\ AnswerInv /\ RowsInv /\ CallerInv

(* Of a sequence of outcomes "ok" counts only when all are.                  *)
LEMMA FirstBadIsOne ==
  ASSUME NEW n \in Nat, NEW s, DOMAIN s = 1..n
  PROVE  /\ FirstBad(s) = "ok" <=> \A i \in 1..n : s[i] = "ok"
         /\ FirstBad(s) = "ok" \/ \E i \in 1..n : FirstBad(s) = s[i]
  <1>1. CASE \A i \in 1..n : s[i] = "ok"
    BY <1>1 DEF FirstBad
  <1>2. CASE \E i \in 1..n : s[i] # "ok"
    <2> DEFINE S == {i \in 1..n : s[i] # "ok"}
               First(i) == s[i] # "ok" /\ \A j \in 1..(i - 1) : s[j] = "ok"
    <2>1. Min(S) \in S /\ \A i \in S : Min(S) <= i
      <3>1. S \in SUBSET Nat /\ S # {}
        BY <1>2
      <3> QED
        BY <3>1, MinIsFirst
    <2>2. Min(S) \in 1..n /\ First(Min(S))
      <3> DEFINE m == Min(S)
      <3>1. m \in 1..n /\ s[m] # "ok" /\ \A i \in 1..n : s[i] # "ok" => m <= i
        BY <2>1
      <3> HIDE DEF m
      <3>2. \A j \in 1..(m - 1) : j \in 1..n /\ ~(m <= j)
        BY <3>1
      <3> HIDE DEF S
      <3> QED
        BY <3>1, <3>2 DEF m
    <2>3. FirstBad(s) = s[CHOOSE i \in 1..n : First(i)]
      BY <1>2 DEF FirstBad
    <2> QED
      BY <1>2, <2>2, <2>3
  <1> QED
    BY <1>1, <1>2

(* Values arrive as they were sent: the two ways to make an offset agree.    *)
LEMMA DecodedValueSame ==
  ASSUME NEW v \in WireValues
  PROVE  DecodedValue(v) = v
  <1>1. /\ v = [type |-> v.type, range |-> v.range, zone |-> v.zone]
        /\ v.zone = [by |-> v.zone.by, known |-> v.zone.known, secs |-> v.zone.secs]
        /\ v.zone.secs \in Int
    BY DEF WireValues
  <1>2. FixedOffset(v.zone.secs) = v.zone.secs
    BY <1>1 DEF FixedOffset, East, West
  <1>3. [v EXCEPT !.zone.secs = v.zone.secs] = v
    BY <1>1
  <1> QED
    BY <1>2, <1>3 DEF DecodedValue

LEMMA DecodedFields ==
  ASSUME NEW entries, NEW w \in WireEntries(entries)
  PROVE  /\ w.value \in WireValues /\ DecodedValue(w.value) = w.value
         /\ w.iid \in Nat /\ w.entry \in entries
         /\ Decoded(w).category = w.entry /\ Decoded(w).iid = w.iid
         /\ Decoded(w).vt = w.vt /\ Decoded(w).value = w.value
  <1>1. w.value \in WireValues /\ w.iid \in Nat /\ w.entry \in entries
    BY DEF WireEntries
  <1>2. DecodedValue(w.value) = w.value
    BY <1>1, DecodedValueSame
  <1> QED
    BY <1>1, <1>2 DEF Decoded

Outcome == {"ok", "err", "panic"}

(* Of two outcomes the first that is not "ok".                               *)
LEMMA FirstBadOfTwo ==
  ASSUME NEW a \in Outcome, NEW b \in Outcome
  PROVE  /\ FirstBad(<<a, b>>) \in Outcome
         /\ FirstBad(<<a, b>>) = "ok" <=> a = "ok" /\ b = "ok"
  <1> DEFINE s == <<a, b>>
  <1>1. DOMAIN s = 1..2 /\ s[1] = a /\ s[2] = b /\ 1..2 = {1, 2}
    OBVIOUS
  <1> HIDE DEF s
  <1>2. /\ FirstBad(s) = "ok" <=> \A i \in 1..2 : s[i] = "ok"
        /\ FirstBad(s) = "ok" \/ \E i \in 1..2 : FirstBad(s) = s[i]
    BY <1>1, FirstBadIsOne
  <1>3. FirstBad(s) \in Outcome /\ (FirstBad(s) = "ok" <=> a = "ok" /\ b = "ok")
    BY <1>1, <1>2 DEF Outcome
  <1> QED
    BY <1>3 DEF s

(* What a value is when decoding it is no error and no panic.                *)
LEMMA ValueAccepted ==
  ASSUME NEW v \in WireValues
  PROVE  /\ ValueOutcome(v) \in Outcome
         /\ ValueOutcome(v) = "ok" =>
              /\ v.type \in ValueTypes \ {"Struct"}
              /\ v.range = "in"
              /\ v.zone.by # "missing"
              /\ v.zone.by = "name" => v.zone.known
              /\ v.zone.by = "offset" => v.zone.secs \in (1 - Day)..(Day - 1)
  <1>1. /\ v.type \in ValueTypes \cup {"missing"} /\ v.range \in {"in", "out", "missing"}
        /\ v.zone.by \in {"none", "missing", "name", "offset"} /\ v.zone.known \in BOOLEAN
        /\ v.range # "in" => v.type \in {"Decimal", "Date", "Datetime", "DatetimeTZ"}
        /\ v.zone.by = "none" <=> v.type # "DatetimeTZ"
    BY DEF WireValues
  <1>2. CASE v.type = "DatetimeTZ"
    <2> DEFINE a == CASE v.range = "missing" -> "err" [] v.range = "out" -> "panic" [] OTHER -> "ok"
               b == ZoneOutcome(v.zone)
    <2>1. a \in Outcome /\ (a = "ok" => v.range = "in")
      BY <1>1 DEF Outcome
    <2>2. v.zone.by \in {"missing", "name", "offset"}
      BY <1>1, <1>2
    <2>3. b \in Outcome
      BY <2>2 DEF Outcome, ZoneOutcome
    <2>4. b = "ok" => /\ v.zone.by # "missing"
                      /\ v.zone.by = "name" => v.zone.known
                      /\ v.zone.by = "offset" => v.zone.secs \in (1 - Day)..(Day - 1)
      BY <2>2 DEF ZoneOutcome
    <2>5. ValueOutcome(v) = FirstBad(<<a, b>>)
      BY <1>2 DEF ValueOutcome
    <2> HIDE DEF a, b
    <2>6. ValueOutcome(v) \in Outcome /\ (ValueOutcome(v) = "ok" <=> a = "ok" /\ b = "ok")
      BY <2>1, <2>3, <2>5, FirstBadOfTwo
    <2> QED
      BY <1>2, <2>1, <2>4, <2>6 DEF ValueTypes
  <1>3. CASE v.type # "DatetimeTZ"
    BY <1>1, <1>3 DEF ValueOutcome, Outcome, ValueTypes
  <1> QED
    BY <1>2, <1>3

LEMMA EntryAccepted ==
  ASSUME NEW entries, NEW w \in WireEntries(entries), w.entry # "ValueType"
  PROVE  /\ EntryOutcome(w) \in Outcome
         /\ EntryOutcome(w) = "ok" => Accepted(Decoded(w))
  <1>1. /\ w.value \in WireValues
        /\ w.vt = "missing" => w.entry \in {"AttributeType", "Attribute"}
        /\ w.entry \in {"Entity", "Relation"} => w.iid # 0
    BY DEF WireEntries
  <1>2. /\ Decoded(w).category = w.entry /\ Decoded(w).iid = w.iid
        /\ Decoded(w).vt = w.vt /\ Decoded(w).value = w.value
    BY DecodedFields
  <1>3. TypeOutcome(w) \in Outcome /\ (TypeOutcome(w) = "ok" <=> w.vt # "missing")
    BY DEF TypeOutcome, Outcome
  <1>4. ValueOutcome(w.value) \in Outcome
    BY <1>1, ValueAccepted
  <1> DEFINE good ==
        /\ w.value.type \in ValueTypes \ {"Struct"}
        /\ w.value.range = "in"
        /\ w.value.zone.by # "missing"
        /\ w.value.zone.by = "name" => w.value.zone.known
        /\ w.value.zone.by = "offset" => w.value.zone.secs \in (1 - Day)..(Day - 1)
  <1>5. ValueOutcome(w.value) = "ok" => good
    BY <1>1, ValueAccepted
  <1>6. Accepted(Decoded(w)) <=>
          /\ w.entry \notin {"missing", "noConcept"} /\ w.vt # "missing"
          /\ w.entry \in {"Attribute", "Value"} => good
    BY <1>1, <1>2 DEF Accepted
  <1> HIDE DEF good
  <1>7. CASE w.entry = "Attribute"
    <2>1. EntryOutcome(w) = FirstBad(<<TypeOutcome(w), ValueOutcome(w.value)>>)
      BY <1>7 DEF EntryOutcome
    <2>2. /\ EntryOutcome(w) \in Outcome
          /\ EntryOutcome(w) = "ok" <=> TypeOutcome(w) = "ok" /\ ValueOutcome(w.value) = "ok"
      BY <1>3, <1>4, <2>1, FirstBadOfTwo
    <2> QED
      BY <1>3, <1>5, <1>6, <1>7, <2>2
  <1>8. CASE w.entry # "Attribute"
    BY <1>1, <1>3, <1>4, <1>5, <1>6, <1>8 DEF EntryOutcome, Outcome
  <1> QED
    BY <1>7, <1>8

(* What a leaf is when it was accepted, and that it has a JSON form.         *)
LEMMA LeafAccepted ==
  ASSUME NEW w \in LeafEntries
  PROVE  /\ LeafOutcome(w) \in Outcome
         /\ LeafOutcome(w) = "ok" /\ w.entry # "missing" =>
              Accepted(Decoded(w)) /\ Decoded(w).category \in LeafCategories
  <1> DEFINE entries == {"missing", "Empty", "ValueType", "Kind", "Attribute", "Value"} \cup TypeCategories
  <1>0. w \in WireEntries(entries)
    BY DEF LeafEntries
  <1> HIDE DEF entries
  <1>1. /\ w.entry \in entries
        /\ w.vt = "missing" => w.entry \in {"AttributeType", "Attribute", "ValueType"}
        /\ Decoded(w).category = w.entry /\ Decoded(w).vt = w.vt
    BY <1>0, DecodedFields DEF WireEntries
  <1>2. w.entry # "missing" => Decoded(w).category \in LeafCategories
    BY <1>1 DEF LeafCategories, entries
  <1>3. CASE w.entry \in {"Empty", "missing", "ValueType", "Kind"}
    BY <1>1, <1>2, <1>3 DEF LeafOutcome, Outcome, Accepted
  <1>4. CASE w.entry \notin {"Empty", "missing", "ValueType", "Kind"}
    <2>1. LeafOutcome(w) = EntryOutcome(w)
      BY <1>4 DEF LeafOutcome
    <2> QED
      BY <1>0, <1>2, <1>4, <2>1, EntryAccepted
  <1> QED
    BY <1>2, <1>3, <1>4

LEMMA EmptyAccepted == Accepted(Empty) /\ Empty.category = "Empty"
  BY DEF Accepted, Empty

LEMMA JsonOfLeaf ==
  ASSUME NEW c, c.category \in LeafCategories
  PROVE  Json(c) \notin {"ok", "none", "unreachable"}
  BY DEF Json, TypeCategories, LeafCategories

(* The first and the last position of a name are positions of it.            *)
LEMMA PositionsOfName ==
  ASSUME NEW s \in Seq(STRING), NEW name, IndexOf(s, name) # {}
  PROVE  /\ Smallest(IndexOf(s, name)) \in IndexOf(s, name)
         /\ \A i \in IndexOf(s, name) : Smallest(IndexOf(s, name)) <= i
         /\ Largest(IndexOf(s, name)) \in IndexOf(s, name)
  <1> DEFINE I == IndexOf(s, name)
             n == Len(s)
             B == {k \in 0..n : n - k \in I}
  <1>1. n \in Nat /\ I \in SUBSET (1..n)
    BY DEF IndexOf
  <1>2. Min(I) \in I /\ \A i \in I : Min(I) <= i
    <2>1. I \in SUBSET Nat /\ I # {}
      BY <1>1
    <2> HIDE DEF I
    <2> QED
      BY <2>1, MinIsFirst
  <1>3. Min(B) \in B /\ \A k \in B : Min(B) <= k
    <2>1. PICK i \in I : TRUE
      OBVIOUS
    <2>2. n - i \in B
      BY <1>1, <2>1
    <2>3. B \in SUBSET Nat /\ B # {}
      BY <1>1, <2>2
    <2> HIDE DEF B
    <2> QED
      BY <2>3, MinIsFirst
  <1>4. n - Min(B) \in I /\ \A j \in I : j <= n - Min(B)
    <2>1. n - Min(B) \in I /\ Min(B) \in Nat
      BY <1>1, <1>3
    <2>2. ASSUME NEW j \in I PROVE j <= n - Min(B)
      <3>1. n - j \in B
        BY <1>1
      <3> QED
        BY <1>1, <1>3, <2>1, <3>1
    <2> QED
      BY <2>1, <2>2
  <1> HIDE DEF I
  <1>5. Smallest(I) \in I /\ \A i \in I : Smallest(I) <= i
    BY <1>2 DEF Smallest
  <1>6. Largest(I) \in I
    BY <1>4 DEF Largest
  <1> QED
    BY <1>5, <1>6 DEF I

(* What is given and what it is encoded as: nothing that may be given meets  *)
(* an unreachable arm, and the encoding keeps what a server goes by.         *)
LEMMA EncodeKeeps ==
  ASSUME NEW c, Accepted(c), Giveable(c)
  PROVE  /\ Encode(c).category = c.category
         /\ c.category \in Instances \/ Encode(c) = c
         /\ c.category \in Instances => Encode(c).iid = c.iid
  BY DEF Accepted, Giveable, Encode, Empty, Instances, TypeCategories

LEMMA EncodeEmpty == Encode(Empty) = Empty
  BY DEF Encode, Empty, Instances, TypeCategories

(* The fields that an action leaves alone keep their part of the invariant.  *)
LEMMA PartsKept ==
  /\ MessageInv /\ UNCHANGED message => MessageInv'
  /\ AnswerInv /\ UNCHANGED <<message, answer>> => AnswerInv'
  /\ RowsInv /\ UNCHANGED <<message, answer, rows>> => RowsInv'
  /\ CallerInv /\ UNCHANGED capi => CallerInv'
  <1>1. MessageInv /\ UNCHANGED message => MessageInv'
    BY DEF MessageInv
  <1>2. AnswerInv /\ UNCHANGED <<message, answer>> => AnswerInv'
    BY DEF AnswerInv
  <1>3. RowsInv /\ UNCHANGED <<message, answer, rows>> => RowsInv'
    BY DEF RowsInv
  <1>4. CallerInv /\ UNCHANGED capi => CallerInv'
    BY DEF CallerInv, AskedGetterReturns
  <1> QED
    BY <1>1, <1>2, <1>3, <1>4

LEMMA ConceptInvInit == ConceptsInit => ConceptInv
  <1> SUFFICES ASSUME ConceptsInit PROVE ConceptInv
    OBVIOUS
  <1>1. MessageInv
    BY DEF ConceptsInit, MessageInv
  <1>2. AnswerInv
    BY DEF ConceptsInit, AnswerInv
  <1>3. RowsInv
    <2>1. rows = NoRows /\ <<>> \in Seq(STRING) /\ DOMAIN <<>> = {}
      BY DEF ConceptsInit
    <2> QED
      BY <2>1 DEF RowsInv, Filled, NoRows
  <1>4. CallerInv
    BY DEF ConceptsInit, CallerInv, AskedGetterReturns, NoCaller
  <1> QED
    BY <1>1, <1>2, <1>3, <1>4 DEF ConceptInv

(* Before there is an answer there are no given rows.                        *)
LEMMA NoRowsYet ==
  ASSUME RowsInv, answer.state # "ok" \/ message.kind # "row", UNCHANGED <<message, rows>>
  PROVE  RowsInv'
  <1>1. rows = NoRows
    BY DEF RowsInv
  <1> QED
    BY <1>1 DEF RowsInv

LEMMA DecodeRowKeeps ==
  ASSUME ConceptInv, DecodeRow PROVE ConceptInv'
  <1> DEFINE row == message.row
             n == Len(row)
             outcomes == [i \in DOMAIN row |-> EntryOutcome(row[i])]
             decoded == [i \in DOMAIN row |-> Decoded(row[i])]
             outcome == FirstBad(outcomes)
  <1>1. row \in Seq(RowEntries)
    BY ConceptConstants DEF ConceptInv, MessageInv, DecodeRow
  <1>2. n \in Nat /\ DOMAIN row = 1..n /\ \A i \in 1..n : row[i] \in RowEntries
    BY <1>1
  <1>3. ASSUME NEW i \in 1..n
        PROVE  EntryOutcome(row[i]) \in Outcome /\ (EntryOutcome(row[i]) = "ok" => Accepted(Decoded(row[i])))
    <2> DEFINE entries == {"missing", "Empty", "noConcept", "Value", "ConceptList", "ValueList"}
                          \cup TypeCategories \cup Instances
    <2>1. row[i] \in WireEntries(entries)
      BY <1>2 DEF RowEntries
    <2>2. row[i].entry # "ValueType"
      BY <2>1 DEF WireEntries, TypeCategories, Instances
    <2> HIDE DEF entries
    <2> QED
      BY <2>1, <2>2, EntryAccepted
  <1>4. /\ outcome = "ok" <=> \A i \in 1..n : outcomes[i] = "ok"
        /\ outcome = "ok" \/ \E i \in 1..n : outcome = outcomes[i]
    <2>1. DOMAIN outcomes = 1..n
      BY <1>2
    <2> HIDE DEF outcomes
    <2> QED
      BY <1>2, <2>1, FirstBadIsOne
  <1>5. outcome \in Outcome /\ (outcome = "ok" => \A i \in 1..n : Accepted(decoded[i]))
    <2>1. \A i \in 1..n : outcomes[i] = EntryOutcome(row[i]) /\ decoded[i] = Decoded(row[i])
      BY <1>2
    <2> HIDE DEF outcomes, outcome, decoded
    <2> QED
      BY <1>3, <1>4, <2>1 DEF Outcome
  <1>6. /\ answer' = [state |-> outcome, row |-> IF outcome = "ok" THEN decoded ELSE <<>>]
        /\ UNCHANGED <<message, rows, capi>> /\ message.kind = "row" /\ answer.state = "none"
    BY DEF DecodeRow
  <1>7. DOMAIN decoded = 1..n /\ DOMAIN <<>> = {}
    BY <1>2
  <1>8. AnswerInv'
    <2>1. message'.kind = "row" /\ answer'.state = outcome /\ outcome \in {"ok", "err", "panic"}
          /\ answer'.row = IF outcome = "ok" THEN decoded ELSE <<>>
      BY <1>5, <1>6 DEF Outcome
    <2>2. message' = message
      BY <1>6
    <2>3. answer' = [state |-> answer'.state, row |-> answer'.row]
      BY <1>6
    <2>4. \A i \in DOMAIN answer'.row : Accepted(answer'.row[i])
      <3> HIDE DEF outcome, decoded
      <3> QED
        BY <1>5, <1>7, <2>1
    <2>5. answer'.state = "ok" => answer'.row = [i \in DOMAIN message'.row |-> Decoded(message'.row[i])]
      BY <2>1, <2>2
    <2> HIDE DEF outcome, decoded
    <2> QED
      BY <2>1, <2>3, <2>4, <2>5 DEF AnswerInv, Accepted
  <1>9. MessageInv' /\ CallerInv'
    BY <1>6, PartsKept DEF ConceptInv
  <1>10. RowsInv'
    BY <1>6, NoRowsYet DEF ConceptInv
  <1> QED
    BY <1>8, <1>9, <1>10 DEF ConceptInv

LEMMA DecodeLeafKeeps ==
  ASSUME ConceptInv, DecodeLeaf PROVE ConceptInv'
  <1> DEFINE w == message.leaf
             c == IF w.entry = "missing" THEN Empty ELSE Decoded(w)
             outcome == LeafOutcome(w)
  <1>1. /\ answer' = [state |-> outcome, row |-> IF outcome = "ok" THEN <<c>> ELSE <<>>]
        /\ message.kind = "leaf" /\ answer.state = "none" /\ UNCHANGED <<message, rows, capi>>
    BY DEF DecodeLeaf
  <1>2. w \in LeafEntries
    BY <1>1, ConceptConstants DEF ConceptInv, MessageInv
  <1>3. outcome \in Outcome /\ (outcome = "ok" => Accepted(c) /\ c.category \in LeafCategories)
    BY <1>2, LeafAccepted, EmptyAccepted DEF LeafCategories
  <1> HIDE DEF outcome, c
  <1>4. AnswerInv'
    BY <1>1, <1>3 DEF AnswerInv, Outcome, Accepted
  <1>5. MessageInv' /\ CallerInv'
    BY <1>1, PartsKept DEF ConceptInv
  <1>6. RowsInv'
    BY <1>1, NoRowsYet DEF ConceptInv
  <1> QED
    BY <1>4, <1>5, <1>6 DEF ConceptInv

LEMMA DocumentJsonKeeps ==
  ASSUME ConceptInv, DocumentJson PROVE ConceptInv'
  <1> DEFINE json == Json(answer.row[1])
  <1>1. /\ answer' = [answer EXCEPT !.state = json]
        /\ message.kind = "leaf" /\ answer.state = "ok" /\ UNCHANGED <<message, rows, capi>>
    BY DEF DocumentJson
  <1>2. AnswerInv
    BY DEF ConceptInv
  <1>3. json \notin {"ok", "none", "unreachable"}
    <2>1. answer.row[1].category \in LeafCategories
      BY <1>1, <1>2 DEF AnswerInv
    <2> QED
      BY <2>1, JsonOfLeaf
  <1> HIDE DEF json
  <1>4. answer'.row = answer.row /\ answer'.state = json
        /\ answer' = [state |-> answer'.state, row |-> answer'.row]
    BY <1>1, <1>2 DEF AnswerInv
  <1>5. AnswerInv'
    BY <1>1, <1>2, <1>3, <1>4 DEF AnswerInv, Accepted
  <1>6. MessageInv' /\ CallerInv'
    BY <1>1, PartsKept DEF ConceptInv
  <1>7. RowsInv'
    BY <1>1, NoRowsYet DEF ConceptInv
  <1> QED
    BY <1>5, <1>6, <1>7 DEF ConceptInv

(* What a column gives under a name is the first of that name.               *)
LEMMA GetTakes ==
  ASSUME ConceptInv, message.kind = "row", answer.state = "ok",
         NEW name, Available(name), Giveable(Get(name))
  PROVE  Taken(message.row, Get(name), name)
  <1> DEFINE I == IndexOf(Columns, name)
             k == Smallest(I)
             n == Len(message.row)
  <1>1. AnswerInv /\ message.row \in Seq(RowEntries)
    BY ConceptConstants DEF ConceptInv, MessageInv
  <1>2. n \in Nat /\ DOMAIN message.row = 1..n /\ answer.row = [i \in 1..n |-> Decoded(message.row[i])]
    BY <1>1 DEF AnswerInv
  <1>3. I \in SUBSET Nat /\ 0 \notin I /\ I \cap (1..n) # {}
    BY <1>2, ConceptConstants DEF IndexOf, Available
  <1>4. k \in I /\ \A i \in I : k <= i
    BY <1>3, ConceptConstants, PositionsOfName
  <1>5. k \in 1..n
    BY <1>2, <1>3, <1>4
  <1>6. Columns[k] = name
    BY <1>4 DEF IndexOf
  <1>7. Get(name) = Decoded(message.row[k]) /\ Accepted(Get(name))
    BY <1>1, <1>2, <1>5 DEF Get, AnswerInv
  <1> QED
    BY <1>2, <1>5, <1>6, <1>7 DEF Taken

LEMMA NewRowsKeeps ==
  ASSUME ConceptInv, NEW h \in Headers, NewRows(h) PROVE ConceptInv'
  <1> DEFINE none == [i \in DOMAIN h |-> Empty]
  <1>1. /\ rows' = [header |-> h, row |-> none, pushed |-> <<>>, sent |-> <<>>, given |-> {}]
        /\ message.kind = "row" /\ answer.state = "ok" /\ UNCHANGED <<message, answer, capi>>
    BY DEF NewRows, NoRows
  <1>2. h \in Seq(STRING)
    BY ConceptConstants
  <1>3. Filled(message.row, none, h, {})
    <2>1. DOMAIN none = DOMAIN h /\ \A j \in DOMAIN h : none[j] = Empty
      OBVIOUS
    <2> HIDE DEF none
    <2> QED
      BY <2>1 DEF Filled
  <1> HIDE DEF none
  <1>4. RowsInv'
    BY <1>1, <1>2, <1>3 DEF RowsInv
  <1>5. MessageInv' /\ AnswerInv' /\ CallerInv'
    BY <1>1, PartsKept DEF ConceptInv
  <1> QED
    BY <1>4, <1>5 DEF ConceptInv

(* The entry goes to a position of its name, and disturbs no other name.     *)
LEMMA SetVariableKeeps ==
  ASSUME ConceptInv, NEW i \in DOMAIN rows.header, SetVariable(rows.header[i]) PROVE ConceptInv'
  <1> DEFINE name == rows.header[i]
             last == Position(name)
             c == Get(name)
             set == [rows.row EXCEPT ![last] = c]
             given == rows.given \cup {name}
  <1>1. RowsInv
    BY DEF ConceptInv
  <1>2. /\ rows' = [rows EXCEPT !.row[last] = c, !.given = given]
        /\ rows # NoRows /\ rows.pushed = <<>> /\ IndexOf(rows.header, name) # {}
        /\ Available(name) /\ Giveable(Get(name)) /\ UNCHANGED <<message, answer, capi>>
    BY DEF SetVariable, NoRows
  <1>3. message.kind = "row" /\ answer.state = "ok"
    BY <1>1, <1>2 DEF RowsInv
  <1>4. Taken(message.row, c, name)
    BY <1>2, <1>3, GetTakes
  <1>5. last \in DOMAIN rows.header /\ rows.header[last] = name
    <2>1. rows.header \in Seq(STRING) /\ IndexOf(rows.header, name) # {}
      BY <1>1, <1>2 DEF RowsInv
    <2> HIDE DEF name
    <2>2. last \in IndexOf(rows.header, name)
      BY <2>1, PositionsOfName DEF Position
    <2> QED
      BY <2>2 DEF IndexOf
  <1>6. rows' = [header |-> rows.header, row |-> set, pushed |-> rows.pushed, sent |-> rows.sent,
                 given |-> given]
    BY <1>1, <1>2 DEF RowsInv
  <1>7. DOMAIN set = DOMAIN rows.row /\ \A j \in DOMAIN set : set[j] = IF j = last THEN c ELSE rows.row[j]
    OBVIOUS
  <1>8. given = rows.given \cup {name}
    OBVIOUS
  <1> HIDE DEF last, c, set, name, given
  <1>9. Filled(message.row, rows.row, rows.header, rows.given)
    BY <1>1 DEF RowsInv
  <1>10. Filled(message.row, set, rows.header, given)
    <2>1. \A j \in DOMAIN set :
            set[j] = Empty \/ (rows.header[j] \in given /\ Taken(message.row, set[j], rows.header[j]))
      BY <1>4, <1>5, <1>7, <1>8, <1>9 DEF Filled
    <2>2. ASSUME NEW other \in given
          PROVE  \E j \in DOMAIN set : rows.header[j] = other /\ Taken(message.row, set[j], other)
      BY <1>4, <1>5, <1>7, <1>8, <1>9 DEF Filled
    <2> QED
      BY <1>7, <1>9, <2>1, <2>2 DEF Filled
  <1>12. rows.sent = <<>>
    BY <1>1, <1>2 DEF RowsInv
  <1>13. RowsInv'
    <2>1. /\ UNCHANGED <<message, answer>> /\ rows.pushed = <<>>
          /\ rows.header \in Seq(STRING)
      BY <1>1, <1>2 DEF RowsInv
    <2>2. /\ rows'.header = rows.header /\ rows'.row = set /\ rows'.given = given
          /\ rows'.pushed = <<>> /\ rows'.sent = <<>>
      BY <1>6, <1>12, <2>1
    <2>3. Filled(message'.row, rows'.row, rows'.header, rows'.given)
      BY <1>10, <2>1, <2>2
    <2>4. rows' = [header |-> rows'.header, row |-> rows'.row, pushed |-> rows'.pushed,
                   sent |-> rows'.sent, given |-> rows'.given]
      BY <1>6
    <2> QED
      BY <1>3, <2>1, <2>2, <2>3, <2>4 DEF RowsInv
  <1>14. MessageInv' /\ AnswerInv' /\ CallerInv'
    BY <1>2, PartsKept DEF ConceptInv
  <1> QED
    BY <1>13, <1>14 DEF ConceptInv

LEMMA PushRowKeeps ==
  ASSUME ConceptInv, PushRow PROVE ConceptInv'
  <1>1. RowsInv
    BY DEF ConceptInv
  <1>2. /\ rows' = [rows EXCEPT !.pushed = rows.row] /\ UNCHANGED <<message, answer, capi>>
        /\ rows # NoRows /\ rows.pushed = <<>>
    BY DEF PushRow, NoRows
  <1>3. rows' = [header |-> rows.header, row |-> rows.row, pushed |-> rows.row, sent |-> rows.sent,
                 given |-> rows.given]
    BY <1>1, <1>2 DEF RowsInv
  <1>4. rows.sent = <<>> /\ Filled(message.row, rows.row, rows.header, rows.given)
    BY <1>1, <1>2 DEF RowsInv
  <1>6. RowsInv'
    BY <1>1, <1>2, <1>3, <1>4 DEF RowsInv
  <1>7. MessageInv' /\ AnswerInv' /\ CallerInv'
    BY <1>2, PartsKept DEF ConceptInv
  <1> QED
    BY <1>6, <1>7 DEF ConceptInv

LEMMA SendRowsKeeps ==
  ASSUME ConceptInv, SendRows PROVE ConceptInv'
  <1> DEFINE sent == [i \in DOMAIN rows.row |-> Encode(rows.row[i])]
  <1>1. RowsInv
    BY DEF ConceptInv
  <1>2. /\ rows' = [rows EXCEPT !.sent = sent] /\ UNCHANGED <<message, answer, capi>>
        /\ rows # NoRows /\ rows.pushed # <<>>
    BY <1>1 DEF SendRows, NoRows, RowsInv
  <1>3. rows' = [header |-> rows.header, row |-> rows.row, pushed |-> rows.pushed, sent |-> sent,
                 given |-> rows.given]
    BY <1>1, <1>2 DEF RowsInv
  <1>4. Filled(message.row, rows.row, rows.header, rows.given)
    BY <1>1 DEF RowsInv
  <1>5. sent = [i \in DOMAIN rows.row |-> Encode(rows.row[i])]
    OBVIOUS
  <1> HIDE DEF sent
  <1>6. RowsInv'
    BY <1>1, <1>2, <1>3, <1>4, <1>5 DEF RowsInv
  <1>7. MessageInv' /\ AnswerInv' /\ CallerInv'
    BY <1>2, PartsKept DEF ConceptInv
  <1> QED
    BY <1>6, <1>7 DEF ConceptInv

(* The caller: a no is never held against it, a yes is true.                 *)
LEMMA AnswersTrue ==
  ASSUME NEW c, NEW asked
  PROVE  /\ asked \in ValueTypes /\ IsOf(c, asked) => True(c, asked)
         /\ asked \in Instances /\ c.category = asked => True(c, asked)
         /\ asked \in ValueTypes /\ True(c, asked) /\ TryGetAs(c, asked) = NoValue =>
              c.category = "AttributeType"
         /\ asked \in Instances /\ True(c, asked) => BorrowAs(c, asked)
  <1>1. /\ asked \in ValueTypes /\ IsOf(c, asked) => True(c, asked)
        /\ asked \in Instances /\ c.category = asked => True(c, asked)
    BY DEF True, IsOf
  <1>2. asked \in ValueTypes => asked \notin Instances /\ asked # "none" /\ asked # NoValue.type
    BY DEF ValueTypes, Instances, NoValue, WireValue
  <1>3. ASSUME asked \in ValueTypes, True(c, asked), c.category # "AttributeType"
        PROVE  TryGetAs(c, asked) # NoValue
    <2>1. TryGetValueType(c) = asked
      BY <1>2, <1>3 DEF True
    <2>2. c.category \in {"Attribute", "Value"} /\ c.value.type = asked
      BY <1>2, <1>3, <2>1 DEF TryGetValueType
    <2>3. TryGetAs(c, asked) = c.value
      BY <2>2 DEF TryGetAs, TryGetValue
    <2> QED
      BY <1>2, <1>3, <2>2, <2>3
  <1>4. asked \in Instances /\ True(c, asked) => BorrowAs(c, asked)
    BY <1>2 DEF True, BorrowAs
  <1> QED
    BY <1>1, <1>3, <1>4

LEMMA CallerKeeps ==
  ASSUME ConceptInv,
         \/ TakeConcept \/ NewConcept
         \/ \E type \in ValueTypes : AskType(type) \/ GetAs(type)
         \/ \E category \in Instances : AskCategory(category) \/ GetType(category)
  PROVE  ConceptInv'
  <1>1. UNCHANGED <<message, answer, rows>> /\ capi.process = "running"
    BY DEF TakeConcept, NewConcept, AskType, GetAs, AskCategory, GetType, Running
  <1>2. /\ capi = [concept |-> capi.concept, asked |-> capi.asked, yes |-> capi.yes,
                   process |-> capi.process]
        /\ capi.concept = Empty => ~capi.yes
        /\ capi.yes => True(capi.concept, capi.asked)
    BY <1>1 DEF ConceptInv, CallerInv
  <1>3. ASSUME TakeConcept \/ NewConcept PROVE CallerInv'
    <2>1. capi.concept = Empty /\ ~capi.yes
      BY <1>2, <1>3 DEF TakeConcept, NewConcept
    <2>2. \/ \E c : capi' = [capi EXCEPT !.concept = c]
          \/ capi' = [capi EXCEPT !.process = "aborted by constructor"]
      BY <1>3 DEF TakeConcept, NewConcept
    <2>3. /\ capi' = [concept |-> capi'.concept, asked |-> capi'.asked, yes |-> capi'.yes,
                      process |-> capi'.process]
          /\ capi'.yes = capi.yes
      BY <1>2, <2>2
    <2> QED
      BY <2>1, <2>3 DEF CallerInv, AskedGetterReturns
  <1>4. ASSUME NEW type \in ValueTypes, AskType(type) PROVE CallerInv'
    <2>1. capi' = [concept |-> capi.concept, asked |-> type, yes |-> IsOf(capi.concept, type),
                   process |-> "running"]
      BY <1>1, <1>2, <1>4 DEF AskType
    <2>2. capi.concept # Empty
      BY <1>4 DEF AskType
    <2> QED
      BY <2>1, <2>2, AnswersTrue DEF CallerInv, AskedGetterReturns
  <1>5. ASSUME NEW type \in ValueTypes, GetAs(type) PROVE CallerInv'
    <2>1. capi.concept # Empty
      BY <1>5 DEF GetAs
    <2>2. CASE TryGetAs(capi.concept, type) # NoValue
      BY <1>5, <2>2, PartsKept DEF GetAs, ConceptInv
    <2>3. CASE TryGetAs(capi.concept, type) = NoValue
      <3>1. capi' = [concept |-> capi.concept, asked |-> type, yes |-> capi.yes /\ capi.asked = type,
                     process |-> "aborted by getter"]
        BY <1>2, <1>5, <2>3 DEF GetAs
      <3>2. capi.yes /\ capi.asked = type => capi.concept.category = "AttributeType"
        BY <1>2, <2>3, AnswersTrue
      <3> QED
        BY <2>1, <3>1, <3>2 DEF CallerInv, AskedGetterReturns
    <2> QED
      BY <2>2, <2>3
  <1>6. ASSUME NEW category \in Instances, AskCategory(category) PROVE CallerInv'
    <2>1. capi' = [concept |-> capi.concept, asked |-> category,
                   yes |-> capi.concept.category = category, process |-> "running"]
      BY <1>1, <1>2, <1>6 DEF AskCategory
    <2>2. capi.concept # Empty
      BY <1>6 DEF AskCategory
    <2> QED
      BY <2>1, <2>2, AnswersTrue DEF CallerInv, AskedGetterReturns
  <1>7. ASSUME NEW category \in Instances, GetType(category) PROVE CallerInv'
    <2>1. capi.concept # Empty
      BY <1>7 DEF GetType
    <2>2. CASE BorrowAs(capi.concept, category)
      BY <1>7, <2>2, PartsKept DEF GetType, ConceptInv
    <2>3. CASE ~BorrowAs(capi.concept, category)
      <3>1. capi' = [concept |-> capi.concept, asked |-> category,
                     yes |-> capi.yes /\ capi.asked = category, process |-> "aborted by getter"]
        BY <1>2, <1>7, <2>3 DEF GetType
      <3>2. ~(capi.yes /\ capi.asked = category)
        BY <1>2, <2>3, AnswersTrue
      <3> QED
        BY <2>1, <3>1, <3>2 DEF CallerInv, AskedGetterReturns
    <2> QED
      BY <2>2, <2>3
  <1>8. CallerInv'
    BY <1>3, <1>4, <1>5, <1>6, <1>7
  <1> QED
    BY <1>1, <1>8, PartsKept DEF ConceptInv

LEMMA ConceptInvNext == ConceptInv /\ [ConceptsNext]_conceptVars => ConceptInv'
  <1> SUFFICES ASSUME ConceptInv, [ConceptsNext]_conceptVars PROVE ConceptInv'
    OBVIOUS
  <1>1. CASE UNCHANGED conceptVars
    BY <1>1, PartsKept DEF ConceptInv, conceptVars
  <1>2. CASE ConceptsNext
    <2>1. CASE DecodeRow \/ DecodeLeaf \/ DocumentJson
      BY <2>1, DecodeRowKeeps, DecodeLeafKeeps, DocumentJsonKeeps
    <2>2. CASE \E h \in Headers : NewRows(h)
      BY <2>2, NewRowsKeeps
    <2>3. CASE \E i \in DOMAIN rows.header : SetVariable(rows.header[i])
      BY <2>3, SetVariableKeeps
    <2>4. CASE PushRow \/ SendRows
      BY <2>4, PushRowKeeps, SendRowsKeeps
    <2>5. CASE \/ TakeConcept \/ NewConcept
               \/ \E type \in ValueTypes : AskType(type) \/ GetAs(type)
               \/ \E category \in Instances : AskCategory(category) \/ GetType(category)
      BY <2>5, CallerKeeps
    <2> QED
      BY <1>2, <2>1, <2>2, <2>3, <2>4, <2>5 DEF ConceptsNext
  <1> QED
    BY <1>1, <1>2

LEMMA ConceptsKeepInv == ConceptsSpec => []ConceptInv
  BY ConceptInvInit, ConceptInvNext, PTL DEF ConceptsSpec

(* What was sent is the encoding of the row.                                 *)
LEMMA SentRow ==
  ASSUME ConceptInv, rows.sent # <<>>
  PROVE  /\ DOMAIN rows.sent = DOMAIN rows.row
         /\ \A i \in DOMAIN rows.sent : rows.sent[i] = Encode(rows.row[i])
         /\ Filled(message.row, rows.row, rows.header, rows.given)
  BY DEF ConceptInv, RowsInv

(* An entry that was taken from a column carries over.                       *)
LEMMA TakenCarries ==
  ASSUME ConceptInv, rows.sent # <<>>, NEW i \in DOMAIN rows.sent,
         Taken(message.row, rows.row[i], rows.header[i])
  PROVE  TakenFrom(i) # {} /\ rows.sent[i].category # "unreachable"
  <1> DEFINE c == rows.row[i]
             sent == rows.sent[i]
  <1>1. sent = Encode(c)
    BY SentRow
  <1>2. PICK k \in DOMAIN message.row :
          Giveable(c) /\ Accepted(c) /\ Columns[k] = rows.header[i] /\ c = Decoded(message.row[k])
    BY DEF Taken
  <1>3. message.row[k] \in RowEntries
    <2>1. rows # NoRows
      BY DEF NoRows
    <2>2. message.row \in Seq(RowEntries)
      BY <2>1, ConceptConstants DEF ConceptInv, RowsInv, MessageInv
    <2> QED
      BY <2>2
  <1>4. /\ c.category = message.row[k].entry /\ c.iid = message.row[k].iid
        /\ c.value = message.row[k].value
    BY <1>2, <1>3, DecodedFields DEF RowEntries
  <1>5. /\ sent.category = c.category
        /\ c.category \in Instances \/ sent = c
        /\ c.category \in Instances => sent.iid = c.iid
    BY <1>1, <1>2, EncodeKeeps
  <1> HIDE DEF c, sent
  <1>6. sent.iid = c.iid /\ (sent.category = "Value" => sent.value = c.value)
    BY <1>5 DEF Instances
  <1>7. SameThing(sent, message.row[k])
    BY <1>4, <1>5, <1>6 DEF SameThing
  <1>8. sent.category # "unreachable"
    BY <1>3, <1>4, <1>5 DEF RowEntries, WireEntries, TypeCategories, Instances
  <1> QED
    BY <1>2, <1>7, <1>8 DEF TakenFrom, sent

(* A message with a part missing, unknown or out of range never becomes a    *)
(* concept, whatever the server sends within the schema of the protocol and  *)
(* however many entries its row has: the first that is wrong refuses it.     *)
THEOREM MalformedNeverDecoded == ConceptsSpec => []MalformedRefused
  <1>1. ConceptInv => MalformedRefused
    BY DEF ConceptInv, AnswerInv, Accepted, MalformedRefused
  <1> QED
    BY <1>1, ConceptsKeepInv, PTL

(* No message and no use of a concept meets an arm of the JSON conversion or *)
(* of the encoding of given rows that the code marks unreachable, and every  *)
(* instance and value has an IID or a value.                                 *)
THEOREM UnreachableNeverMet == ConceptsSpec => []UnreachableArms
  <1>1. ConceptInv => UnreachableArms
    <2> SUFFICES ASSUME ConceptInv PROVE UnreachableArms
      OBVIOUS
    <2>1. ASSUME NEW i \in DOMAIN answer.row, answer.row[i].category \in Instances \cup {"Value"}
          PROVE  TryGetIid(answer.row[i]) # 0 \/ TryGetValue(answer.row[i]) # NoValue
      <3> DEFINE c == answer.row[i]
      <3>1. Accepted(c)
        BY DEF ConceptInv, AnswerInv
      <3>2. CASE c.category \in {"Entity", "Relation"}
        BY <3>1, <3>2 DEF Accepted, TryGetIid
      <3>3. CASE c.category \in {"Attribute", "Value"}
        <4>1. c.value.type # NoValue.type
          BY <3>1, <3>3 DEF Accepted, NoValue, WireValue, ValueTypes
        <4> QED
          BY <3>3, <4>1 DEF TryGetValue
      <3> QED
        BY <2>1, <3>2, <3>3 DEF Instances
    <2>2. ASSUME NEW i \in DOMAIN rows.sent PROVE rows.sent[i].category # "unreachable"
      <3>1. rows.sent # <<>>
        OBVIOUS
      <3>2. rows.row[i] = Empty \/ Taken(message.row, rows.row[i], rows.header[i])
        BY <3>1, SentRow DEF Filled
      <3>3. rows.row[i] = Empty => rows.sent[i] = Empty
        BY <3>1, SentRow, EncodeEmpty
      <3>4. Empty.category # "unreachable"
        BY DEF Empty
      <3> QED
        BY <3>1, <3>2, <3>3, <3>4, TakenCarries
    <2> QED
      BY <2>1, <2>2 DEF UnreachableArms, ConceptInv, AnswerInv
  <1> QED
    BY <1>1, ConceptsKeepInv, PTL

(* What a client carries from an answer to given rows arrives and names the  *)
(* same thing at the server, and nothing else arrives, for all headers of    *)
(* both and all repeated names in them.                                      *)
THEOREM ConceptsCarriedOver == ConceptsSpec => []CarriedOver
  <1>1. ConceptInv => CarriedOver
    <2> SUFFICES ASSUME ConceptInv, rows.sent # <<>>
                 PROVE  /\ \A name \in rows.given :
                             \E i \in DOMAIN rows.sent : rows.header[i] = name /\ TakenFrom(i) # {}
                        /\ \A i \in DOMAIN rows.sent :
                             rows.sent[i] = Empty \/ (rows.header[i] \in rows.given /\ TakenFrom(i) # {})
      BY DEF CarriedOver
    <2>1. ASSUME NEW name \in rows.given
          PROVE  \E i \in DOMAIN rows.sent : rows.header[i] = name /\ TakenFrom(i) # {}
      <3>1. PICK i \in DOMAIN rows.sent : rows.header[i] = name /\ Taken(message.row, rows.row[i], name)
        BY SentRow DEF Filled
      <3> QED
        BY <3>1, TakenCarries
    <2>2. ASSUME NEW i \in DOMAIN rows.sent
          PROVE  rows.sent[i] = Empty \/ (rows.header[i] \in rows.given /\ TakenFrom(i) # {})
      <3>1. CASE rows.row[i] = Empty
        <4>1. rows.sent[i] = Encode(rows.row[i])
          BY SentRow
        <4> QED
          BY <3>1, <4>1, EncodeEmpty
      <3>2. CASE rows.header[i] \in rows.given /\ Taken(message.row, rows.row[i], rows.header[i])
        BY <3>2, TakenCarries
      <3> QED
        BY <3>1, <3>2, SentRow DEF Filled
    <2> QED
      BY <2>1, <2>2
  <1> QED
    BY <1>1, ConceptsKeepInv, PTL

(* A caller of the C interface that heard that a concept is of a type or of  *)
(* a category is not ended by the getter of it, attribute types apart.       *)
THEOREM AskedThenGot == ConceptsSpec => []AskedGetterReturns
  <1>1. ConceptInv => AskedGetterReturns
    BY DEF ConceptInv, CallerInv
  <1> QED
    BY <1>1, ConceptsKeepInv, PTL

-----------------------------------------------------------------------------
(* Analysed queries. The parts that the interface leaves out.                *)
LeftOut == {"source", "outputs", "is_optional"}

(* The enumerators of the variants that the interface renames.               *)
Enumerators == {"StreamReturn", "SingleReturn", "CheckReturn", "KindOf", "InstanceAnnotations",
                "TypeAnnotations", "ValueAnnotations", "ObjectDocument", "ListDocument", "LeafDocument"}

(* What every part of the tables keeps to: a field has an accessor, named    *)
(* for the variant it matches, or is left out.                               *)
FieldsGood(fields, accessors) ==
    \A f \in fields :
      /\ f[1] \notin Enumerators \cup {"missing"}
      /\ f[2][3] \in {"one", "opt", "many", "held", "enum", "data", "id"}
      /\ f[2][1] \in LeftOut \/ <<Reported(f[1]), f[1], f[2][1]>> \in accessors
AccessorsGood(accessors) == \A a \in accessors : a[1] = Reported(a[2]) /\ a[2] \notin Enumerators

LEMMA FieldTables == FieldsGood(Fields, Accessors)
  <1> USE DEF FieldsGood, Enumerators, LeftOut, Reported, Renamed, As, Of, OfEach, One, Opt, Many, Held, Enum,
              Data, Id, Edge, Has
  <1>1. FieldsGood(QueryFields, QueryAccessors) /\ FieldsGood(FunctionFields, FunctionAccessors)
    BY DEF QueryFields, QueryAccessors, FunctionFields, FunctionAccessors
  <1>2. FieldsGood(PipelineFields, StageAccessors \cup ReduceAccessors \cup ConjunctionAccessors)
    BY DEF PipelineFields, StageAccessors, ReduceAccessors, ConjunctionAccessors
  <1>3. FieldsGood(StageFields, StageAccessors) /\ FieldsGood(ReduceFields \cup SortFields, ReduceAccessors)
    BY DEF StageFields, StageAccessors, ReduceFields, SortFields, ReduceAccessors
  <1>4. FieldsGood(ConstraintFields, AnnotationAccessors \cup TypeAccessors)
    BY DEF ConstraintFields, AnnotationAccessors, TypeAccessors
  <1>5. FieldsGood(EdgeFields, EdgeAccessors \cup ExactnessAccessors)
    BY DEF EdgeFields, EdgeAccessors, ExactnessAccessors
  <1>6. FieldsGood(TermFields, TermAccessors) /\ FieldsGood(ConjunctionFields, ConjunctionAccessors)
    BY DEF TermFields, TermAccessors, ConjunctionFields, ConjunctionAccessors
  <1>7. FieldsGood(VertexFields, VertexAccessors)
    BY DEF VertexFields, VertexAccessors
  <1>8. FieldsGood(AnnotationFields \cup FetchFields, AnnotationAccessors \cup QueryAccessors)
    BY DEF AnnotationFields, FetchFields, AnnotationAccessors, QueryAccessors
  <1> HIDE DEF Enumerators, LeftOut, Reported, Renamed, As, Of, OfEach, One, Opt, Many, Held, Enum, Data, Id,
               Edge, Has
  <1> QED
    BY <1>1, <1>2, <1>3, <1>4, <1>5, <1>6, <1>7, <1>8 DEF Fields, Accessors

LEMMA AccessorTables == AccessorsGood(Accessors)
  <1> USE DEF AccessorsGood, Enumerators, Reported, Renamed, As, Of, OfEach
  <1>1. AccessorsGood(QueryAccessors) /\ AccessorsGood(FunctionAccessors) /\ AccessorsGood(StageAccessors)
    BY DEF QueryAccessors, FunctionAccessors, StageAccessors
  <1>2. AccessorsGood(ReduceAccessors) /\ AccessorsGood(ConjunctionAccessors)
        /\ AccessorsGood(AnnotationAccessors)
    BY DEF ReduceAccessors, ConjunctionAccessors, AnnotationAccessors
  <1>3. AccessorsGood(EdgeAccessors) /\ AccessorsGood(ExactnessAccessors) /\ AccessorsGood(TermAccessors)
    BY DEF EdgeAccessors, ExactnessAccessors, TermAccessors
  <1>4. AccessorsGood(TypeAccessors) /\ AccessorsGood(VertexAccessors)
    BY DEF TypeAccessors, VertexAccessors
  <1> HIDE DEF Enumerators, Reported, Renamed, As, Of, OfEach
  <1> QED
    BY <1>1, <1>2, <1>3, <1>4 DEF Accessors

(* No two variants report the same enumerator.                               *)
LEMMA VariantsToldApart ==
  ASSUME NEW v, NEW w, v \notin Enumerators, w \notin Enumerators, Reported(v) = Reported(w)
  PROVE  v = w
  BY DEF Enumerators, Reported, Renamed

(* A node of a well formed message, or one without its variant.              *)
WellFormed(node) ==
    \/ node.variant = "missing"
    \/ /\ <<node.variant, node.field>> \in Fields /\ node.is \in {"there", "missing"}
       /\ node.is = "missing" => Mode(node) \notin {"data", "held"}

PathNodes == {NoVariant} \cup UNION {Nodes(f[1]) : f \in Fields}

WalkInv ==
    /\ path \in Seq(PathNodes)
    /\ walk.at \in DOMAIN path
    /\ walk = [state |-> walk.state, at |-> walk.at]
    /\ walk.state = "at" => \A i \in DOMAIN path : ~Refused(path[i])
    /\ WalkTotal

LEMMA NodesWellFormed ==
  /\ \A node \in PathNodes : WellFormed(node)
  /\ NoVariant \in PathNodes
  /\ \A v : Nodes(v) \subseteq PathNodes
  <1>1. ASSUME NEW v, NEW node \in Nodes(v) PROVE WellFormed(node) /\ \E f \in Fields : f[1] = v
    <2>1. /\ node.variant = v /\ node.field \in FieldsOf(v) /\ node.is \in {"there", "missing"}
          /\ node.is = "missing" => Mode(node) \notin {"data", "held"}
      BY DEF Nodes
    <2>2. PICK f \in Fields : f[1] = v /\ f[2] = node.field
      BY <2>1 DEF FieldsOf
    <2>3. f = <<f[1], f[2]>>
      BY DEF Fields, Has, QueryFields, FunctionFields, PipelineFields, StageFields, ReduceFields,
             ConstraintFields, EdgeFields, TermFields, ConjunctionFields, SortFields, VertexFields,
             AnnotationFields, FetchFields
    <2> QED
      BY <2>1, <2>2, <2>3 DEF WellFormed
  <1>2. WellFormed(NoVariant)
    BY DEF WellFormed, NoVariant
  <1> QED
    BY <1>1, <1>2 DEF PathNodes

(* What a caller hears of a part that was decoded.                           *)
LEMMA DecodedIsHeard ==
  ASSUME NEW node, WellFormed(node), ~Refused(node), NEW more \in BOOLEAN
  PROVE  /\ Heard(node, more) \in {"hidden", "null", "at", "end"}
         /\ Heard(node, more) = "hidden" => Name(node) \in LeftOut
         /\ Heard(node, more) = "at" => more
  <1> DEFINE named == {a \in Accessors : a[1] = Reported(node.variant) /\ a[3] = Name(node)}
             f == <<node.variant, node.field>>
  <1>1. /\ f \in Fields /\ f[1] = node.variant /\ f[2] = node.field
        /\ node.is = "missing" => Mode(node) \notin {"data", "held", "one", "enum"}
    BY DEF WellFormed, Refused
  <1>2. /\ node.variant \notin Enumerators
        /\ Mode(node) \in {"one", "opt", "many", "held", "enum", "data", "id"}
        /\ Name(node) \in LeftOut \/ <<Reported(node.variant), node.variant, Name(node)>> \in Accessors
    <2> HIDE DEF f
    <2> QED
      BY <1>1, FieldTables DEF FieldsGood, Mode, Name
  <1>3. named = {} => Name(node) \in LeftOut
    BY <1>2
  <1>4. \A a \in named : a[2] = node.variant
    BY <1>2, AccessorTables, VariantsToldApart DEF AccessorsGood
  <1>5. node.is = "missing" /\ Mode(node) # "many" => Nullable(Mode(node))
    BY <1>1, <1>2 DEF Nullable
  <1>6. Heard(node, more) =
          CASE named = {} -> "hidden"
            [] \E a \in named : a[2] # node.variant -> "aborted"
            [] node.is = "missing" /\ Mode(node) # "many" ->
                 IF Nullable(Mode(node)) THEN "null" ELSE "unexpected null"
            [] more -> "at"
            [] OTHER -> "end"
    BY DEF Heard
  <1> HIDE DEF named
  <1> QED
    BY <1>3, <1>4, <1>5, <1>6

LEMMA WalkInvInit == AnalyzeInit => WalkInv
  <1> SUFFICES ASSUME AnalyzeInit PROVE WalkInv
    OBVIOUS
  <1>1. PICK n \in Nodes("Query") : path = <<n>>
    BY DEF AnalyzeInit
  <1>2. walk = [state |-> "message", at |-> 1]
    BY DEF AnalyzeInit
  <1>3. n \in PathNodes
    BY NodesWellFormed
  <1>4. path \in Seq(PathNodes) /\ DOMAIN path = 1..1
    BY <1>1, <1>3
  <1> QED
    BY <1>2, <1>3, <1>4 DEF WalkInv, WalkTotal

LEMMA WalkInvNext == WalkInv /\ [AnalyzeNext]_analyzeVars => WalkInv'
  <1> SUFFICES ASSUME WalkInv, [AnalyzeNext]_analyzeVars PROVE WalkInv'
    OBVIOUS
  <1>1. CASE UNCHANGED analyzeVars
    BY <1>1 DEF analyzeVars, WalkInv, WalkTotal
  <1>2. CASE Extend
    <2>1. PICK n \in {NoVariant} \cup UNION {Nodes(v) : v \in Variants[Child(Deepest)]} :
            path' = Append(path, n)
      BY <1>2 DEF Extend
    <2>2. n \in PathNodes
      BY <2>1, NodesWellFormed
    <2>3. walk.state = "message" /\ walk' = walk
      BY <1>2 DEF Extend
    <2>4. path' \in Seq(PathNodes) /\ DOMAIN path \subseteq DOMAIN path'
      BY <2>1, <2>2, AppendProperties DEF WalkInv
    <2> QED
      BY <2>3, <2>4 DEF WalkInv, WalkTotal
  <1>3. CASE DecodeQuery
    <2>1. path' = path /\ walk.state = "message"
          /\ walk' = [walk EXCEPT !.state = IF \E i \in DOMAIN path : Refused(path[i]) THEN "err" ELSE "at"]
      BY <1>3 DEF DecodeQuery
    <2>2. walk'.at = walk.at /\ walk' = [state |-> walk'.state, at |-> walk.at]
          /\ walk'.state = IF \E i \in DOMAIN path : Refused(path[i]) THEN "err" ELSE "at"
      BY <2>1 DEF WalkInv
    <2> QED
      BY <2>1, <2>2 DEF WalkInv, WalkTotal
  <1>4. CASE CallAccessor
    <2> DEFINE more == walk.at < Len(path)
               heard == Heard(path[walk.at], more)
    <2>1. /\ path' = path /\ walk.state = "at"
          /\ walk' = [state |-> heard, at |-> IF heard = "at" THEN walk.at + 1 ELSE walk.at]
      BY <1>4 DEF CallAccessor
    <2>2. /\ heard \in {"hidden", "null", "at", "end"}
          /\ heard = "hidden" => Name(path[walk.at]) \in LeftOut
          /\ heard = "at" => walk.at < Len(path)
      <3>1. WellFormed(path[walk.at]) /\ ~Refused(path[walk.at])
        BY <2>1, NodesWellFormed DEF WalkInv
      <3>2. more \in BOOLEAN
        OBVIOUS
      <3> HIDE DEF more
      <3>3. /\ heard \in {"hidden", "null", "at", "end"}
            /\ heard = "hidden" => Name(path[walk.at]) \in LeftOut
            /\ heard = "at" => more
        BY <3>1, <3>2, DecodedIsHeard
      <3> QED
        BY <3>3 DEF more
    <2> HIDE DEF heard, more
    <2>3. walk'.state = heard /\ walk'.at = (IF heard = "at" THEN walk.at + 1 ELSE walk.at)
          /\ walk' = [state |-> walk'.state, at |-> walk'.at]
      BY <2>1
    <2>4. walk'.at \in DOMAIN path
      BY <2>2, <2>3 DEF WalkInv
    <2>5. WalkTotal'
      BY <2>1, <2>2, <2>3 DEF WalkTotal, LeftOut
    <2> QED
      BY <2>1, <2>3, <2>4, <2>5 DEF WalkInv
  <1> QED
    BY <1>1, <1>2, <1>3, <1>4 DEF AnalyzeNext

(* A caller can walk every decoded query to its leaves, however deep: no     *)
(* accessor it is led to aborts or lacks a part that must be there.          *)
THEOREM WalksReachLeaves == AnalyzeSpec => []WalkTotal
  <1>1. WalkInv => WalkTotal
    BY DEF WalkInv
  <1> QED
    BY <1>1, WalkInvInit, WalkInvNext, PTL DEF AnalyzeSpec

-----------------------------------------------------------------------------
(* The functions that take a handle and are no destructors, and what the     *)
(* bindings give up when they call them.                                     *)
Takers ==
    {"transaction_commit", "query_answer_into_rows", "query_answer_into_documents", "database_delete",
     "user_delete", "given_rows_header_builder_finish", "void_promise_resolve",
     "query_answer_promise_resolve", "analyzed_query_promise_resolve", "transaction_query_given_rows"}

GivenUp(name) ==
    IF name = "transaction_commit" THEN {"Transaction"}
    ELSE IF name = "query_answer_into_rows" \/ name = "query_answer_into_documents" THEN {"QueryAnswer"}
    ELSE IF name = "database_delete" THEN {"Database"}
    ELSE IF name = "user_delete" THEN {"User"}
    ELSE IF name = "given_rows_header_builder_finish" THEN {"GivenRowsHeaderBuilder"}
    ELSE IF name = "void_promise_resolve" THEN {"VoidPromise"}
    ELSE IF name = "query_answer_promise_resolve" THEN {"QueryAnswerPromise"}
    ELSE IF name = "analyzed_query_promise_resolve" THEN {"AnalyzedQueryPromise"}
    ELSE IF name = "transaction_query_given_rows" THEN {"GivenRows"}
    ELSE {}

LEMMA WhatIsGivenUp ==
  ASSUME NEW name
  PROVE  /\ DelObjects(name) \cup ReleasedByWrapper(name) = GivenUp(name)
         /\ name \notin Takers => GivenUp(name) = {}
  BY DEF DelObjects, ReleasedByWrapper, GivenUp, Takers

(* What every function of the tables keeps to.                               *)
Good(name, fn) ==
    /\ fn = [how |-> fn.how, gives |-> fn.gives, borrows |-> fn.borrows, takes |-> fn.takes]
    /\ fn.how \in DOMAIN Outcomes
    /\ fn.takes = {} \/ name \in Takers \/ fn.how = "free"
    /\ name \in Takers => fn.takes = GivenUp(name) /\ fn.how # "free"
    /\ name \in NotNewObjects => fn.gives \in Leaky \cup {"VoidPromise"}
    /\ name \in Lazy => fn.takes = {}
    /\ "GivenRowsHeader" \notin fn.takes /\ "GivenRowsBuilder" \notin fn.takes
    /\ fn.gives \notin {"GivenRowsBuilder", "GivenRows"}
AllGood(table) == \A f \in table : Good(f[1], f[2])

LEMMA TablesGood == AllGood(Fns)
  <1> USE DEF AllGood, Good, Each, Drops, Gives, Finds, Fn, New, Lazy, Outcomes, Takers, GivenUp,
              NotNewObjects, Leaky
  <1>1. AllGood(DriverFns)
    BY SMTT(30) DEF DriverFns
  <1>2. AllGood(TlsFns) /\ AllGood(OptionFns)
    BY DEF TlsFns, OptionFns
  <1>3. AllGood(ServerFns)
    BY DEF ServerFns
  <1>4. AllGood(DatabaseManagerFns)
    BY DEF DatabaseManagerFns
  <1>5. AllGood(DatabaseFns)
    BY SMTT(30) DEF DatabaseFns
  <1>6. AllGood(UserManagerFns)
    BY DEF UserManagerFns
  <1>7. AllGood(UserFns)
    BY SMTT(30) DEF UserFns
  <1>8. AllGood(TransactionFns)
    BY SMTT(30) DEF TransactionFns
  <1>9. AllGood(PromiseFns)
    BY SMTT(30) DEF PromiseFns
  <1>10. AllGood(AnswerFns)
    BY SMTT(30) DEF AnswerFns
  <1>11. AllGood(IteratorFns)
    BY DEF IteratorFns
  <1>12. AllGood(HeaderFns) /\ AllGood(AnalyzedFns)
    BY SMTT(30) DEF HeaderFns, AnalyzedFns
  <1>13. AllGood(FunctionFns) /\ AllGood(StageFns) /\ AllGood(ReduceFns)
    BY DEF FunctionFns, StageFns, ReduceFns
  <1>14. AllGood(ConjunctionFns) /\ AllGood(EdgeFns) /\ AllGood(TermFns)
    BY SMTT(30) DEF ConjunctionFns, EdgeFns, TermFns
  <1>15. AllGood(CompareFns) /\ AllGood(NestedFns) /\ AllGood(AnalyzedIteratorFns)
    BY SMTT(30) DEF CompareFns, NestedFns, AnalyzedIteratorFns
  <1>16. AllGood(AnalyzedDrops)
    BY DEF AnalyzedDrops
  <1> HIDE DEF Good, Each, Drops, Gives, Finds, Fn, New, Lazy, Outcomes, Takers, GivenUp,
               NotNewObjects, Leaky
  <1> QED
    BY <1>1, <1>2, <1>3, <1>4, <1>5, <1>6, <1>7, <1>8, <1>9, <1>10, <1>11, <1>12, <1>13, <1>14, <1>15, <1>16 DEF Fns, AllAnalyzedFns

(* What the bindings give up is what the function takes.                     *)
LEMMA GivenUpIsTaken ==
  ASSUME NEW name, NEW fn, Good(name, fn)
  PROVE  Released(name, fn) = fn.takes
  <1>1. CASE fn.how = "free"
    BY <1>1 DEF Released
  <1>2. CASE fn.how # "free"
    BY <1>2, WhatIsGivenUp DEF Good, Released
  <1> QED
    BY <1>1, <1>2

(* The owners of the header that are handles: its own, the builder's and     *)
(* the rows'.                                                                *)
Owners(handles) ==
    (IF "GivenRowsHeader" \in handles THEN 1 ELSE 0)
    + (IF "GivenRowsBuilder" \in handles THEN 1 ELSE 0)
    + (IF "GivenRows" \in handles THEN 1 ELSE 0)

HeapObjects == [owners : Nat, into : SUBSET Kinds, rows : Seq(Nat), active : Nat]

HeapInv ==
    /\ heap \in [Kinds -> HeapObjects] /\ held \subseteq Kinds
    /\ unowned \subseteq held /\ unowned \subseteq Leaky \cup {"VoidPromise"}
    /\ client \in [next : Nat \ {0}, open : Nat, rows : Seq(Nat)]
    /\ \A k \in held : heap[k].owners > 0 /\ heap[k].into \subseteq held
    /\ \A k \in Kinds \ {"GivenRowsHeader"} : heap[k].owners > 0 => k \in held \cup Leaky
    /\ heap["GivenRowsHeader"].owners =
         Owners(held) + (IF heap["GivenRowsBuilder"].active = 0 THEN 0 ELSE 1)

(* The row that a builder has open and those committed are the client's.     *)
RowsMade ==
    /\ "GivenRowsBuilder" \in held =>
         /\ heap["GivenRowsBuilder"].active = client.open
         /\ heap["GivenRowsBuilder"].rows = client.rows
    /\ "GivenRowsBuilder" \notin held => heap["GivenRowsBuilder"].active = 0
    /\ "GivenRows" \in held => heap["GivenRows"].rows = client.rows
    /\ ~({"GivenRowsBuilder", "GivenRows"} \subseteq held)

CInv == HeapInv /\ RowsMade

LEMMA KindsNamed ==
  /\ {"GivenRowsHeader", "GivenRowsBuilder", "GivenRows", "Error"} \subseteq Kinds
  /\ \A f \in Fns : f[2].takes \subseteq Kinds /\ f[2].gives \in Kinds
  <1> DEFINE Named == {f[2].takes \cup {f[2].gives} : f \in Fns}
             All == UNION Named
  <1>1. ASSUME NEW f \in Fns PROVE f[2].takes \subseteq All /\ f[2].gives \in All
    <2>1. f[2].takes \cup {f[2].gives} \in Named
      OBVIOUS
    <2> HIDE DEF Named
    <2> QED
      BY <2>1
  <1>2. Kinds = All \cup {"GivenRowsHeader", "GivenRowsBuilder", "GivenRows", "Error"}
    BY DEF Kinds
  <1> HIDE DEF All
  <1> QED
    BY <1>1, <1>2

LEMMA FreedObject ==
  ASSUME NEW into \in SUBSET Kinds
  PROVE  /\ Freed \in HeapObjects /\ Freed.owners = 0 /\ Freed.into = {} /\ Freed.active = 0
         /\ Object(into) = [owners |-> 1, into |-> into, rows |-> <<>>, active |-> 0]
         /\ Object(into) \in HeapObjects
  <1>1. <<>> \in Seq(Nat) /\ {} \in SUBSET Kinds
    OBVIOUS
  <1>2. Freed = [owners |-> 0, into |-> {}, rows |-> <<>>, active |-> 0]
    BY DEF Freed
  <1>3. Object(into) = [owners |-> 1, into |-> into, rows |-> <<>>, active |-> 0]
    BY DEF Object
  <1> QED
    BY <1>1, <1>2, <1>3 DEF HeapObjects

(* The owners of the header are counted by set.                              *)
LEMMA OwnersCounted ==
  ASSUME NEW S
  PROVE  Cardinality({"GivenRowsHeader", "GivenRowsBuilder", "GivenRows"} \cap S) = Owners(S)
  <1> DEFINE Only(n) == IF n \in S THEN {n} ELSE {}
  <1>1. ASSUME NEW n, NEW T, IsFiniteSet(T), n \notin T
        PROVE  IsFiniteSet(T \cup Only(n))
               /\ Cardinality(T \cup Only(n)) = Cardinality(T) + (IF n \in S THEN 1 ELSE 0)
    <2>1. Cardinality(T) \in Nat
      BY <1>1, FS_CardinalityType
    <2>2. CASE n \in S
      BY <1>1, <2>2, FS_AddElement
    <2>3. CASE n \notin S
      BY <1>1, <2>1, <2>3
    <2> QED
      BY <2>2, <2>3
  <1> DEFINE A == {} \cup Only("GivenRowsHeader")
             B == A \cup Only("GivenRowsBuilder")
             C == B \cup Only("GivenRows")
  <1>2. /\ IsFiniteSet(A)
        /\ Cardinality(A) = 0 + (IF "GivenRowsHeader" \in S THEN 1 ELSE 0)
    BY <1>1, FS_EmptySet
  <1>3. IsFiniteSet(B) /\ Cardinality(B) = Cardinality(A) + (IF "GivenRowsBuilder" \in S THEN 1 ELSE 0)
    <2>1. "GivenRowsBuilder" \notin A
      OBVIOUS
    <2> HIDE DEF A, Only
    <2> QED
      BY <1>1, <1>2, <2>1
  <1>4. Cardinality(C) = Cardinality(B) + (IF "GivenRows" \in S THEN 1 ELSE 0)
    <2>1. "GivenRows" \notin B
      OBVIOUS
    <2> HIDE DEF B, Only
    <2> QED
      BY <1>1, <1>3, <2>1
  <1>5. C = {"GivenRowsHeader", "GivenRowsBuilder", "GivenRows"} \cap S
    OBVIOUS
  <1> HIDE DEF A, B, C
  <1> QED
    BY <1>2, <1>3, <1>4, <1>5 DEF Owners

(* One owner of the header less, and objects freed.                          *)
LEMMA Decremented ==
  ASSUME NEW hp \in [Kinds -> HeapObjects], NEW n \in Nat
  PROVE  LET after == DecrementArc(hp, "GivenRowsHeader", n)
         IN  /\ after \in [Kinds -> HeapObjects]
             /\ \A k \in Kinds \ {"GivenRowsHeader"} : after[k] = hp[k]
             /\ after["GivenRowsHeader"].owners =
                  IF hp["GivenRowsHeader"].owners <= n THEN 0 ELSE hp["GivenRowsHeader"].owners - n
             /\ after["GivenRowsHeader"].into \subseteq hp["GivenRowsHeader"].into
  <1> DEFINE o == hp["GivenRowsHeader"]
             one == Fewer(o, n)
             after == [hp EXCEPT !["GivenRowsHeader"] = one]
  <1>1. o \in HeapObjects /\ "GivenRowsHeader" \in Kinds
    BY KindsNamed
  <1>2. /\ one \in HeapObjects /\ one.into \subseteq o.into
        /\ one.owners = IF o.owners <= n THEN 0 ELSE o.owners - n
    <2>1. CASE o.owners <= n
      BY <2>1, FreedObject DEF Fewer
    <2>2. CASE ~(o.owners <= n)
      <3>1. one = [owners |-> o.owners - n, into |-> o.into, rows |-> o.rows, active |-> o.active]
        BY <1>1, <2>2 DEF HeapObjects, Fewer
      <3>2. o.owners - n \in Nat
        BY <1>1, <2>2 DEF HeapObjects
      <3> QED
        BY <1>1, <2>2, <3>1, <3>2 DEF HeapObjects
    <2> QED
      BY <2>1, <2>2
  <1>3. after = DecrementArc(hp, "GivenRowsHeader", n)
    BY DEF DecrementArc
  <1> HIDE DEF one
  <1>4. /\ after \in [Kinds -> HeapObjects] /\ after["GivenRowsHeader"] = one
        /\ \A k \in Kinds \ {"GivenRowsHeader"} : after[k] = hp[k]
    BY <1>1, <1>2
  <1> QED
    BY <1>2, <1>3, <1>4

LEMMA TakenAway ==
  ASSUME NEW hp \in [Kinds -> HeapObjects], NEW kinds
  PROVE  /\ Take(hp, kinds) \in [Kinds -> HeapObjects]
         /\ \A k \in Kinds : Take(hp, kinds)[k] = IF k \in kinds THEN Freed ELSE hp[k]
  BY FreedObject DEF Take

LEMMA DroppedObjects ==
  ASSUME NEW hp \in [Kinds -> HeapObjects], NEW kinds, "GivenRowsHeader" \notin kinds,
         NEW n, n = (IF "GivenRows" \in kinds THEN 1 ELSE 0), hp["GivenRowsHeader"].owners >= n
  PROVE  LET after == Dropped(hp, kinds)
         IN  /\ after \in [Kinds -> HeapObjects]
             /\ \A k \in Kinds \ {"GivenRowsHeader"} : after[k] = IF k \in kinds THEN Freed ELSE hp[k]
             /\ after["GivenRowsHeader"].owners = hp["GivenRowsHeader"].owners - n
             /\ after["GivenRowsHeader"].into \subseteq hp["GivenRowsHeader"].into
  <1> DEFINE less == IF "GivenRows" \in kinds THEN DecrementArc(hp, "GivenRowsHeader", 1) ELSE hp
  <1>1. hp["GivenRowsHeader"] \in HeapObjects /\ "GivenRowsHeader" \in Kinds
    BY KindsNamed
  <1>2. hp["GivenRowsHeader"].owners \in Nat
    BY <1>1 DEF HeapObjects
  <1>3. /\ less \in [Kinds -> HeapObjects]
        /\ \A k \in Kinds \ {"GivenRowsHeader"} : less[k] = hp[k]
        /\ less["GivenRowsHeader"].owners = hp["GivenRowsHeader"].owners - n
        /\ less["GivenRowsHeader"].into \subseteq hp["GivenRowsHeader"].into
    <2>1. CASE "GivenRows" \in kinds
      BY <1>2, <2>1, Decremented
    <2>2. CASE "GivenRows" \notin kinds
      BY <1>2, <2>2
    <2> QED
      BY <2>1, <2>2
  <1>4. Dropped(hp, kinds) = Take(less, kinds)
    BY DEF Dropped
  <1> HIDE DEF less
  <1>5. /\ Take(less, kinds) \in [Kinds -> HeapObjects]
        /\ \A k \in Kinds : Take(less, kinds)[k] = IF k \in kinds THEN Freed ELSE less[k]
    BY <1>3, TakenAway
  <1> QED
    BY <1>1, <1>3, <1>4, <1>5

LEMMA CallKeeps ==
  ASSUME CInv, NEW f \in Fns, Call(f[1], f[2])
  PROVE  CInv'
  <1> DEFINE fn == f[2]
             n == IF "GivenRows" \in fn.takes THEN 1 ELSE 0
             hp == Dropped(heap, fn.takes)
             into == IF f[1] \in Lazy THEN fn.borrows ELSE {}
             made == [hp EXCEPT ![fn.gives] = Object(into)]
             left == held \ fn.takes
  <1>1. Good(f[1], fn) /\ fn.takes \subseteq Kinds /\ fn.gives \in Kinds
    BY TablesGood, KindsNamed DEF AllGood
  <1>2. HeapInv /\ RowsMade /\ MayCall(fn.borrows, fn.takes, fn.gives) /\ client' = client
    BY DEF CInv, Call
  <1>3. /\ Released(f[1], fn) = fn.takes
        /\ f[1] \in NotNewObjects => fn.gives \in Leaky \cup {"VoidPromise"}
    BY <1>1, GivenUpIsTaken DEF Good
  <1>4. \/ heap' = hp /\ held' = left /\ unowned' = unowned \ fn.takes
        \/ /\ heap' = made /\ held' = left \cup {fn.gives} /\ fn.gives # "none"
           /\ unowned' = (unowned \ fn.takes) \cup (IF f[1] \in NotNewObjects THEN {fn.gives} ELSE {})
    <2> HIDE DEF hp, into
    <2> QED
      BY <1>3 DEF Call, hp, into
  <1>5. /\ fn.takes \subseteq held /\ fn.borrows \subseteq held /\ held \subseteq Kinds
        /\ \A k \in left : heap[k].into \cap fn.takes = {}
        /\ fn.gives # "none" => ~(heap[fn.gives].owners > 0)
        /\ "GivenRowsHeader" \notin fn.takes /\ "GivenRowsBuilder" \notin fn.takes
        /\ fn.gives \notin {"GivenRowsBuilder", "GivenRows"}
    BY <1>1, <1>2 DEF MayCall, HeapInv, Good, Live
  <1>6. into \subseteq left /\ into \in SUBSET Kinds
    BY <1>1, <1>5 DEF Good
  <1> DEFINE row == IF heap["GivenRowsBuilder"].active = 0 THEN 0 ELSE 1
  <1>7. /\ heap["GivenRowsHeader"].owners = Owners(held) + row
        /\ Owners(left) = Owners(held) - n
        /\ Owners(held) \in Nat /\ Owners(held) >= n /\ row \in {0, 1}
    <2>1. heap["GivenRowsHeader"].owners = Owners(held) + row
      BY <1>2 DEF HeapInv
    <2>2. Owners(left) = Owners(held) - n /\ Owners(held) \in Nat /\ Owners(held) >= n
      BY <1>5 DEF Owners
    <2> QED
      BY <2>1, <2>2
  <1>8. /\ hp \in [Kinds -> HeapObjects]
        /\ \A k \in Kinds \ {"GivenRowsHeader"} : hp[k] = IF k \in fn.takes THEN Freed ELSE heap[k]
        /\ hp["GivenRowsHeader"].owners = Owners(left) + row
        /\ hp["GivenRowsHeader"].into \subseteq heap["GivenRowsHeader"].into
    <2>1. heap \in [Kinds -> HeapObjects] /\ heap["GivenRowsHeader"].owners >= n
      BY <1>2, <1>7 DEF HeapInv
    <2>2. "GivenRowsHeader" \notin fn.takes /\ n = IF "GivenRows" \in fn.takes THEN 1 ELSE 0
      BY <1>5
    <2> HIDE DEF fn, n
    <2>3. /\ Dropped(heap, fn.takes) \in [Kinds -> HeapObjects]
          /\ \A k \in Kinds \ {"GivenRowsHeader"} :
               Dropped(heap, fn.takes)[k] = IF k \in fn.takes THEN Freed ELSE heap[k]
          /\ Dropped(heap, fn.takes)["GivenRowsHeader"].owners = heap["GivenRowsHeader"].owners - n
          /\ Dropped(heap, fn.takes)["GivenRowsHeader"].into \subseteq heap["GivenRowsHeader"].into
      BY <2>1, <2>2, DroppedObjects
    <2>4. n \in Nat
      BY <2>2
    <2> HIDE DEF row, left
    <2> QED
      BY <1>7, <2>3, <2>4
  <1>9. /\ Object(into) \in HeapObjects /\ Object(into).owners = 1 /\ Object(into).into = into
        /\ Freed.owners = 0
    BY <1>6, FreedObject
  <1> HIDE DEF fn, hp, into, left, n
  <1>10. /\ made \in [Kinds -> HeapObjects] /\ made[fn.gives] = Object(into)
         /\ \A k \in Kinds \ {fn.gives} : made[k] = hp[k]
    BY <1>1, <1>8, <1>9
  <1> HIDE DEF made
  <1>11. left \subseteq held /\ \A k \in Kinds : k \in left <=> k \in held /\ k \notin fn.takes
    BY DEF left
  <1>12. ASSUME NEW k \in left
         PROVE  k \in held /\ k \notin fn.takes /\ heap[k].owners > 0 /\ hp[k].into \subseteq left
    <2>1. k \in held /\ k \in Kinds /\ k \notin fn.takes
      BY <1>5, <1>11
    <2>2. heap[k].owners > 0 /\ heap[k].into \subseteq held /\ heap[k].into \cap fn.takes = {}
      BY <1>2, <1>5, <2>1 DEF HeapInv
    <2>3. hp[k].into \subseteq heap[k].into
      BY <1>8, <2>1
    <2> QED
      BY <2>1, <2>2, <2>3 DEF left
  <1>13. ASSUME NEW k \in Kinds \ {"GivenRowsHeader"}
         PROVE  (k \in left => hp[k].owners > 0) /\ (hp[k].owners > 0 => k \in left \cup Leaky)
    <2>1. CASE k \in fn.takes
      BY <1>8, <1>9, <1>11, <2>1
    <2>2. CASE k \notin fn.takes
      BY <1>2, <1>8, <1>11, <2>2 DEF HeapInv
    <2> QED
      BY <2>1, <2>2
  <1>14. /\ hp["GivenRowsBuilder"] = heap["GivenRowsBuilder"]
         /\ "GivenRowsBuilder" \in left <=> "GivenRowsBuilder" \in held
         /\ "GivenRows" \in left => "GivenRows" \in held /\ hp["GivenRows"] = heap["GivenRows"]
    BY <1>5, <1>8, <1>11, KindsNamed
  <1>15. Owners(left) \in Nat /\ ("GivenRowsHeader" \in left => Owners(left) > 0)
    BY DEF Owners
  <1>215. /\ unowned \ fn.takes \subseteq left
          /\ unowned \ fn.takes \subseteq Leaky \cup {"VoidPromise"}
    BY <1>2, <1>11 DEF HeapInv
  <1>16. CASE heap' = hp /\ held' = left /\ unowned' = unowned \ fn.takes
    <2>1. \A k \in left : hp[k].owners > 0
      BY <1>5, <1>7, <1>8, <1>11, <1>12, <1>13, <1>15
    <2>2. HeapInv'
      BY <1>2, <1>5, <1>8, <1>11, <1>12, <1>13, <1>14, <1>215, <1>16, <2>1 DEF HeapInv
    <2>3. RowsMade'
      BY <1>2, <1>14, <1>16 DEF RowsMade
    <2> QED
      BY <2>2, <2>3 DEF CInv
  <1>17. CASE /\ heap' = made /\ held' = left \cup {fn.gives} /\ fn.gives # "none"
              /\ unowned' = (unowned \ fn.takes) \cup (IF f[1] \in NotNewObjects THEN {fn.gives} ELSE {})
    <2> DEFINE new == left \cup {fn.gives}
    <2>1. /\ made["GivenRowsBuilder"] = heap["GivenRowsBuilder"]
          /\ "GivenRowsBuilder" \in new <=> "GivenRowsBuilder" \in held
          /\ "GivenRows" \in new => "GivenRows" \in held /\ made["GivenRows"] = heap["GivenRows"]
      BY <1>5, <1>10, <1>14, KindsNamed
    <2>2. made["GivenRowsHeader"].owners = Owners(new) + row
      <3>1. CASE fn.gives = "GivenRowsHeader"
        <4>1. Owners(held) = 0 /\ row = 0
          BY <1>5, <1>7, <1>17, <3>1
        <4>2. Owners(new) = 1
          BY <1>11, <3>1, <4>1 DEF Owners
        <4> QED
          BY <1>9, <1>10, <3>1, <4>1, <4>2
      <3>2. CASE fn.gives # "GivenRowsHeader"
        <4>1. Owners(new) = Owners(left)
          BY <1>5, <3>2 DEF Owners
        <4> QED
          BY <1>8, <1>10, <3>2, <4>1, KindsNamed
      <3> QED
        BY <3>1, <3>2
    <2>3. \A k \in new : made[k].owners > 0 /\ made[k].into \subseteq new
      <3>1. ASSUME NEW k \in new, k # fn.gives PROVE made[k].owners > 0 /\ made[k].into \subseteq new
        <4>1. k \in left /\ k \in Kinds /\ made[k] = hp[k]
          BY <1>5, <1>10, <1>11, <3>1
        <4>2. hp[k].owners > 0
          BY <1>7, <1>8, <1>13, <1>15, <4>1
        <4> QED
          BY <1>12, <4>1, <4>2
      <3>2. made[fn.gives].owners > 0 /\ made[fn.gives].into \subseteq new
        BY <1>6, <1>9, <1>10
      <3> QED
        BY <3>1, <3>2
    <2>4. \A k \in Kinds \ {"GivenRowsHeader"} : made[k].owners > 0 => k \in new \cup Leaky
      BY <1>10, <1>13
    <2>5. new \subseteq Kinds
      BY <1>1, <1>5, <1>11
    <2>16. unowned' \subseteq new /\ unowned' \subseteq Leaky \cup {"VoidPromise"}
      BY <1>3, <1>215, <1>17
    <2> HIDE DEF new
    <2>6. HeapInv'
      BY <1>2, <1>10, <1>17, <2>1, <2>2, <2>3, <2>4, <2>5, <2>16 DEF HeapInv, new
    <2>7. RowsMade'
      BY <1>2, <1>17, <2>1 DEF RowsMade, new
    <2> QED
      BY <2>6, <2>7 DEF CInv
  <1> QED
    BY <1>4, <1>16, <1>17

(* The builder's row counts as an owner of the header while it is open.      *)
Row(builder) == IF builder.active = 0 THEN 0 ELSE 1

Client == [next : Nat \ {0}, open : Nat, rows : Seq(Nat)]

(* A step that frees what it takes from the bindings, makes what it gives    *)
(* them and counts the owners of the header.                                 *)
FreesAndMakes(gone, new) ==
    /\ heap' \in [Kinds -> HeapObjects] /\ client' \in Client
    /\ held' = (held \ gone) \cup new /\ new \subseteq Kinds
    /\ unowned' = unowned /\ gone \cap unowned = {}
    /\ \A k \in held \ gone : heap[k].into \cap gone = {}
    /\ \A k \in held \ gone : k \notin new => heap'[k].into \subseteq heap[k].into
    /\ \A k \in new : heap'[k].into = {}
    /\ \A k \in Kinds \ {"GivenRowsHeader"} :
         /\ k \in held' => heap'[k].owners > 0
         /\ heap'[k].owners > 0 => k \in held' \cup Leaky
    /\ heap'["GivenRowsHeader"].owners = Owners(held') + Row(heap'["GivenRowsBuilder"])

(* It keeps the heap sound.                                                  *)
LEMMA HeapStep ==
  ASSUME HeapInv, NEW gone, NEW new, FreesAndMakes(gone, new)
  PROVE  HeapInv'
  <1>1. held' \subseteq Kinds
    BY DEF HeapInv, FreesAndMakes
  <1>2. Owners(held') \in Nat /\ ("GivenRowsHeader" \in held' => Owners(held') > 0)
        /\ Row(heap'["GivenRowsBuilder"]) \in {0, 1}
    BY DEF Owners, Row
  <1> USE DEF FreesAndMakes
  <1>3. ASSUME NEW k \in held' PROVE heap'[k].owners > 0 /\ heap'[k].into \subseteq held'
    <2>1. heap'[k].owners > 0
      BY <1>1, <1>2
    <2>2. CASE k \in new
      BY <2>1, <2>2
    <2>3. CASE k \notin new
      <3>1. k \in held /\ k \notin gone
        BY <2>3
      <3>2. heap'[k].into \subseteq heap[k].into /\ heap[k].into \subseteq held /\ heap[k].into \cap gone = {}
        BY <2>3, <3>1 DEF HeapInv
      <3> QED
        BY <2>1, <3>2
    <2> QED
      BY <2>2, <2>3
  <1>4. heap'["GivenRowsHeader"].owners =
          Owners(held') + (IF heap'["GivenRowsBuilder"].active = 0 THEN 0 ELSE 1)
    BY DEF Row
  <1> QED
    BY <1>1, <1>3, <1>4 DEF HeapInv, Client, Owners

(* What the invariant says in the terms of the steps below.                  *)
LEMMA HeapFacts ==
  ASSUME CInv
  PROVE  /\ heap \in [Kinds -> HeapObjects] /\ client \in Client /\ held \in SUBSET Kinds
         /\ \A k \in held : heap[k].into \subseteq held
         /\ \A k \in Kinds \ {"GivenRowsHeader"} :
              /\ k \in held => heap[k].owners > 0
              /\ heap[k].owners > 0 => k \in held \cup Leaky
         /\ heap["GivenRowsHeader"].owners = Owners(held) + Row(Builder)
         /\ Owners(held) \in Nat /\ Row(Builder) \in {0, 1}
         /\ Active <=> Builder.active # 0
         /\ Active => "GivenRowsBuilder" \in held
         /\ \A k \in {"GivenRowsHeader", "GivenRowsBuilder", "GivenRows", "Error"} :
              k \in Kinds /\ heap[k] \in HeapObjects /\ k \notin Leaky /\ k \notin unowned
  BY KindsNamed DEF CInv, HeapInv, RowsMade, Client, Owners, Row, Builder, Active, Leaky

LEMMA GetLastErrorKeeps ==
  ASSUME CInv, GetLastError PROVE CInv'
  <1>1. /\ heap' = [heap EXCEPT !["Error"] = Object({})]
        /\ held' = held \cup {"Error"} /\ unowned' = unowned /\ client' = client
    BY DEF GetLastError
  <1>2. Object({}) \in HeapObjects /\ Object({}).owners = 1 /\ Object({}).into = {}
    BY FreedObject
  <1>3. /\ heap' \in [Kinds -> HeapObjects] /\ heap'["Error"] = Object({})
        /\ \A k \in Kinds \ {"Error"} : heap'[k] = heap[k]
    BY <1>1, <1>2, HeapFacts
  <1>4. Owners(held') = Owners(held)
    BY <1>1 DEF Owners
  <1>5. FreesAndMakes({}, {"Error"})
    BY <1>1, <1>2, <1>3, <1>4, HeapFacts DEF FreesAndMakes, Builder
  <1>6. RowsMade'
    BY <1>1, <1>3, HeapFacts DEF CInv, RowsMade
  <1> QED
    BY <1>5, <1>6, HeapStep DEF CInv

LEMMA DropHeaderKeeps ==
  ASSUME CInv, DropHeader PROVE CInv'
  <1>1. /\ heap' = DecrementArc(heap, "GivenRowsHeader", 1)
        /\ held' = held \ {"GivenRowsHeader"} /\ unowned' = unowned /\ client' = client
        /\ "GivenRowsHeader" \in held
        /\ \A k \in held \ {"GivenRowsHeader"} : heap[k].into \cap {"GivenRowsHeader"} = {}
    BY DEF DropHeader, MayCall
  <1>2. /\ heap' \in [Kinds -> HeapObjects]
        /\ \A k \in Kinds \ {"GivenRowsHeader"} : heap'[k] = heap[k]
        /\ heap'["GivenRowsHeader"].owners =
             IF heap["GivenRowsHeader"].owners <= 1 THEN 0 ELSE heap["GivenRowsHeader"].owners - 1
    BY <1>1, Decremented, HeapFacts
  <1>3. Owners(held) > 0 /\ Owners(held') = Owners(held) - 1
    BY <1>1 DEF Owners
  <1>4. FreesAndMakes({"GivenRowsHeader"}, {})
    BY <1>1, <1>2, <1>3, HeapFacts DEF FreesAndMakes, Builder
  <1>5. RowsMade'
    BY <1>1, <1>2, HeapFacts DEF CInv, RowsMade
  <1> QED
    BY <1>4, <1>5, HeapStep DEF CInv

(* A committed row goes from the client's and the builder's open row to the  *)
(* end of their rows.                                                        *)
LEMMA RowCommitted ==
  ASSUME NEW o \in HeapObjects, NEW c \in Client
  PROVE  /\ Committed(o) \in HeapObjects /\ Committed(o).owners = o.owners /\ Committed(o).into = o.into
         /\ Committed(o).rows = Append(o.rows, o.active) /\ Committed(o).active = 0
         /\ LET after == [c EXCEPT !.open = 0, !.rows = Append(@, c.open)]
            IN  after \in Client /\ after.open = 0 /\ after.rows = Append(c.rows, c.open)
  <1>1. Append(o.rows, o.active) \in Seq(Nat) /\ Append(c.rows, c.open) \in Seq(Nat)
    BY AppendProperties DEF HeapObjects, Client
  <1>2. /\ Committed(o).owners = o.owners /\ Committed(o).into = o.into
        /\ Committed(o).rows = Append(o.rows, o.active) /\ Committed(o).active = 0
    BY DEF HeapObjects, Committed
  <1>3. Committed(o) \in HeapObjects
    BY <1>1 DEF HeapObjects, Committed
  <1> DEFINE after == [c EXCEPT !.open = 0, !.rows = Append(@, c.open)]
  <1>4. after.open = 0 /\ after.rows = Append(c.rows, c.open)
    BY DEF Client
  <1>5. after \in Client
    BY <1>1 DEF Client
  <1> QED
    BY <1>2, <1>3, <1>4, <1>5

LEMMA RowStarted ==
  ASSUME NEW c \in Client
  PROVE  LET after == [c EXCEPT !.next = @ + 1, !.open = c.next]
         IN  after \in Client /\ after.open = c.next /\ after.rows = c.rows
  <1> DEFINE after == [c EXCEPT !.next = @ + 1, !.open = c.next]
  <1>1. c.next + 1 \in Nat \ {0} /\ c.next \in Nat
    BY DEF Client
  <1>2. after.open = c.next /\ after.rows = c.rows
    BY DEF Client
  <1>3. after \in Client
    BY <1>1 DEF Client
  <1> QED
    BY <1>2, <1>3

(* One owner of the header more.                                             *)
LEMMA SharedObject ==
  ASSUME NEW hp \in [Kinds -> HeapObjects]
  PROVE  /\ Shared(hp) \in [Kinds -> HeapObjects]
         /\ \A k \in Kinds \ {"GivenRowsHeader"} : Shared(hp)[k] = hp[k]
         /\ Shared(hp)["GivenRowsHeader"].owners = hp["GivenRowsHeader"].owners + 1
         /\ Shared(hp)["GivenRowsHeader"].into = hp["GivenRowsHeader"].into
  <1> DEFINE o == hp["GivenRowsHeader"]
             one == [o EXCEPT !.owners = @ + 1]
  <1>1. o \in HeapObjects /\ "GivenRowsHeader" \in Kinds
    BY KindsNamed
  <1>2. o.owners + 1 \in Nat
    BY <1>1 DEF HeapObjects
  <1>3. one.owners = o.owners + 1 /\ one.into = o.into
    BY <1>1 DEF HeapObjects
  <1>4. one \in HeapObjects
    BY <1>1, <1>2 DEF HeapObjects
  <1>5. Shared(hp) = [hp EXCEPT !["GivenRowsHeader"] = one]
    BY DEF Shared
  <1> HIDE DEF one
  <1> QED
    BY <1>1, <1>3, <1>4, <1>5

LEMMA BuilderNewKeeps ==
  ASSUME CInv, BuilderNew PROVE CInv'
  <1> DEFINE more == Shared(heap)
  <1>1. /\ heap' = [more EXCEPT !["GivenRowsBuilder"] = Object({})]
        /\ held' = held \cup {"GivenRowsBuilder"}
        /\ unowned' = unowned /\ client' = [next |-> 1, open |-> 0, rows |-> <<>>]
        /\ ~(heap["GivenRowsBuilder"].owners > 0) /\ ~(heap["GivenRows"].owners > 0)
    BY DEF BuilderNew, MayCall, Live
  <1>2. /\ Object({}) \in HeapObjects /\ Object({}).owners = 1 /\ Object({}).into = {}
        /\ Object({}).active = 0 /\ Object({}).rows = <<>>
    BY FreedObject
  <1>3. /\ more \in [Kinds -> HeapObjects]
        /\ \A k \in Kinds \ {"GivenRowsHeader"} : more[k] = heap[k]
        /\ more["GivenRowsHeader"].owners = heap["GivenRowsHeader"].owners + 1
        /\ more["GivenRowsHeader"].into = heap["GivenRowsHeader"].into
    BY SharedObject, HeapFacts
  <1> HIDE DEF more
  <1>4. /\ heap' \in [Kinds -> HeapObjects] /\ heap'["GivenRowsBuilder"] = Object({})
        /\ \A k \in Kinds \ {"GivenRowsHeader", "GivenRowsBuilder"} : heap'[k] = heap[k]
        /\ heap'["GivenRowsHeader"].owners = heap["GivenRowsHeader"].owners + 1
        /\ heap'["GivenRowsHeader"].into = heap["GivenRowsHeader"].into
    BY <1>1, <1>2, <1>3, HeapFacts
  <1>5. "GivenRowsBuilder" \notin held /\ "GivenRows" \notin held
    BY <1>1, HeapFacts
  <1>6. Owners(held') = Owners(held) + 1 /\ Row(Builder) = 0 /\ Row(heap'["GivenRowsBuilder"]) = 0
    BY <1>1, <1>2, <1>4, <1>5, HeapFacts DEF Owners, Row
  <1>7. client' \in Client
    BY <1>1 DEF Client
  <1>8. FreesAndMakes({}, {"GivenRowsBuilder"})
    BY <1>1, <1>2, <1>4, <1>6, <1>7, HeapFacts DEF FreesAndMakes
  <1>9. RowsMade'
    BY <1>1, <1>2, <1>4, <1>5 DEF RowsMade
  <1> QED
    BY <1>8, <1>9, HeapStep DEF CInv

LEMMA StartNewRowKeeps ==
  ASSUME CInv, StartNewRow PROVE CInv'
  <1> DEFINE more == IF Active THEN heap ELSE Shared(heap)
             builder == [Builder EXCEPT !.active = client.next]
  <1>1. /\ heap' = [more EXCEPT !["GivenRowsBuilder"].active = client.next]
        /\ unowned' = unowned /\ client' = [client EXCEPT !.next = @ + 1, !.open = client.next]
        /\ held' = held /\ "GivenRowsBuilder" \in held
    BY DEF StartNewRow, MayCall
  <1>2. /\ more \in [Kinds -> HeapObjects]
        /\ \A k \in Kinds \ {"GivenRowsHeader"} : more[k] = heap[k]
        /\ more["GivenRowsHeader"].owners = Owners(held) + 1
        /\ more["GivenRowsHeader"].into = heap["GivenRowsHeader"].into
    <2>1. CASE Active
      BY <2>1, HeapFacts DEF Row
    <2>2. CASE ~Active
      BY <2>2, SharedObject, HeapFacts DEF Row
    <2> QED
      BY <2>1, <2>2
  <1> HIDE DEF more
  <1>3. client.next \in Nat \ {0} /\ client.open \in Nat /\ client.rows \in Seq(Nat)
    BY HeapFacts DEF Client
  <1>5. /\ builder \in HeapObjects /\ builder.into = Builder.into /\ builder.rows = Builder.rows
        /\ builder.owners = Builder.owners /\ builder.active = client.next
    BY <1>3, HeapFacts DEF HeapObjects, Builder
  <1>6. heap' = [more EXCEPT !["GivenRowsBuilder"] = builder]
    BY <1>1, <1>2, HeapFacts DEF Builder
  <1> HIDE DEF builder
  <1>7. /\ heap' \in [Kinds -> HeapObjects] /\ heap'["GivenRowsBuilder"] = builder
        /\ \A k \in Kinds \ {"GivenRowsHeader", "GivenRowsBuilder"} : heap'[k] = heap[k]
        /\ heap'["GivenRowsHeader"].owners = Owners(held) + 1
        /\ heap'["GivenRowsHeader"].into = heap["GivenRowsHeader"].into
    BY <1>2, <1>5, <1>6, HeapFacts
  <1>8. Row(heap'["GivenRowsBuilder"]) = 1
    BY <1>3, <1>5, <1>7 DEF Row
  <1>9. client' \in Client /\ client'.open = client.next /\ client'.rows = client.rows
    BY <1>1, HeapFacts, RowStarted
  <1>10. FreesAndMakes({}, {})
    BY <1>1, <1>5, <1>7, <1>8, <1>9, HeapFacts DEF FreesAndMakes, Builder
  <1>11. RowsMade'
    BY <1>1, <1>5, <1>7, <1>9, HeapFacts DEF CInv, RowsMade, Builder
  <1> QED
    BY <1>10, <1>11, HeapStep DEF CInv

LEMMA CommitRowKeeps ==
  ASSUME CInv, CommitRow PROVE CInv'
  <1>1. held' = held /\ unowned' = unowned /\ "GivenRowsBuilder" \in held
    BY DEF CommitRow, MayCall
  <1>2. CASE ~Active
    <2>1. heap' = heap /\ client.open = 0 /\ client' = client
      BY <1>1, <1>2, HeapFacts DEF CommitRow, CInv, RowsMade, Builder
    <2> QED
      BY <1>1, <2>1 DEF CInv, HeapInv, RowsMade
  <1>3. CASE Active
    <2> DEFINE builder == Committed(Builder)
               hp == [heap EXCEPT !["GivenRowsBuilder"] = builder]
    <2>1. /\ heap' = DecrementArc(hp, "GivenRowsHeader", 1)
          /\ Builder.active # 0 /\ client.open = Builder.active /\ client.rows = Builder.rows
          /\ client' = [client EXCEPT !.open = 0, !.rows = Append(@, client.open)]
      BY <1>1, <1>3, HeapFacts DEF CommitRow, CInv, RowsMade, Builder
    <2>2. /\ builder \in HeapObjects /\ builder.into = Builder.into /\ builder.active = 0
          /\ builder.owners = Builder.owners /\ builder.rows = Append(Builder.rows, Builder.active)
          /\ client' \in Client /\ client'.open = 0 /\ client'.rows = Append(Builder.rows, Builder.active)
      <3>1. Builder \in HeapObjects /\ client \in Client
        BY HeapFacts DEF Builder
      <3> DEFINE c == [client EXCEPT !.open = 0, !.rows = Append(@, client.open)]
      <3>2. /\ builder \in HeapObjects /\ builder.into = Builder.into /\ builder.active = 0
            /\ builder.owners = Builder.owners /\ builder.rows = Append(Builder.rows, Builder.active)
            /\ c \in Client /\ c.open = 0 /\ c.rows = Append(client.rows, client.open)
        BY <3>1, RowCommitted
      <3>3. client' = c
        BY <2>1
      <3> HIDE DEF c, builder
      <3> QED
        BY <2>1, <3>2, <3>3
    <2> HIDE DEF builder
    <2>3. /\ hp \in [Kinds -> HeapObjects] /\ hp["GivenRowsBuilder"] = builder
          /\ \A k \in Kinds \ {"GivenRowsBuilder"} : hp[k] = heap[k]
      BY <2>2, HeapFacts
    <2> HIDE DEF hp
    <2>4. Owners(held) > 0 /\ heap["GivenRowsHeader"].owners = Owners(held) + 1
      BY <1>1, <1>3, HeapFacts DEF Owners, Row
    <2>5. /\ heap' \in [Kinds -> HeapObjects] /\ heap'["GivenRowsBuilder"] = builder
          /\ \A k \in Kinds \ {"GivenRowsHeader", "GivenRowsBuilder"} : heap'[k] = heap[k]
          /\ heap'["GivenRowsHeader"].owners = Owners(held)
          /\ heap'["GivenRowsHeader"].into \subseteq heap["GivenRowsHeader"].into
      <3>1. /\ heap' \in [Kinds -> HeapObjects]
            /\ \A k \in Kinds \ {"GivenRowsHeader"} : heap'[k] = hp[k]
            /\ heap'["GivenRowsHeader"].owners =
                 IF hp["GivenRowsHeader"].owners <= 1 THEN 0 ELSE hp["GivenRowsHeader"].owners - 1
            /\ heap'["GivenRowsHeader"].into \subseteq hp["GivenRowsHeader"].into
        BY <2>1, <2>3, Decremented
      <3>2. hp["GivenRowsHeader"] = heap["GivenRowsHeader"]
        BY <2>3, HeapFacts
      <3> QED
        BY <2>3, <2>4, <3>1, <3>2, HeapFacts
    <2>6. Row(heap'["GivenRowsBuilder"]) = 0
      BY <2>2, <2>5 DEF Row
    <2>7. FreesAndMakes({}, {})
      <3>1. heap'["GivenRowsHeader"].owners = Owners(held') + Row(heap'["GivenRowsBuilder"])
        BY <1>1, <2>5, <2>6, HeapFacts
      <3>2. ASSUME NEW k \in Kinds \ {"GivenRowsHeader"}
            PROVE /\ k \in held' => heap'[k].owners > 0
                  /\ heap'[k].owners > 0 => k \in held' \cup Leaky
        BY <1>1, <2>2, <2>5, HeapFacts DEF Builder
      <3>3. \A k \in held : heap'[k].into \subseteq heap[k].into
        BY <2>2, <2>5, HeapFacts DEF Builder
      <3> QED
        BY <1>1, <2>2, <2>5, <3>1, <3>2, <3>3, HeapFacts DEF FreesAndMakes
    <2>8. "GivenRows" \notin held
      BY <1>1 DEF CInv, RowsMade
    <2>9. RowsMade'
      BY <1>1, <2>2, <2>5, <2>8 DEF RowsMade
    <2> QED
      BY <2>7, <2>9, HeapStep DEF CInv
  <1> QED
    BY <1>2, <1>3

LEMMA SetInRowKeeps ==
  ASSUME CInv, SetInRow PROVE CInv'
  BY DEF SetInRow, CInv, HeapInv, RowsMade

LEMMA FinishRowsKeeps ==
  ASSUME CInv, FinishRows PROVE CInv'
  <1> DEFINE hp == Take(heap, {"GivenRowsBuilder"})
             given == [Object({}) EXCEPT !.rows = Builder.rows]
  <1>1. /\ heap' = (IF Active THEN DecrementArc(hp, "GivenRowsHeader", 2)
                    ELSE [hp EXCEPT !["GivenRows"] = given])
        /\ held' = (held \ {"GivenRowsBuilder"}) \cup (IF Active THEN {} ELSE {"GivenRows"})
        /\ unowned' = unowned /\ client' = client
        /\ "GivenRowsBuilder" \in held /\ ~(heap["GivenRows"].owners > 0)
        /\ \A k \in held \ {"GivenRowsBuilder"} : heap[k].into \cap {"GivenRowsBuilder"} = {}
    BY DEF FinishRows, MayCall, Live
  <1>2. Freed \in HeapObjects /\ Freed.owners = 0 /\ Freed.active = 0
    BY FreedObject
  <1>3. /\ hp \in [Kinds -> HeapObjects] /\ hp["GivenRowsBuilder"] = Freed
        /\ \A k \in Kinds \ {"GivenRowsBuilder"} : hp[k] = heap[k]
    <2>1. /\ hp \in [Kinds -> HeapObjects]
          /\ \A k \in Kinds : hp[k] = IF k \in {"GivenRowsBuilder"} THEN Freed ELSE heap[k]
      BY TakenAway, HeapFacts
    <2> HIDE DEF hp
    <2> QED
      BY <2>1, HeapFacts
  <1>4. /\ "GivenRows" \notin held /\ Owners(held) > 0 /\ Row(Freed) = 0
        /\ Owners(held \ {"GivenRowsBuilder"}) = Owners(held) - 1
    BY <1>1, <1>2, HeapFacts DEF Owners, Row
  <1>5. CASE Active
    <2>1. heap' = DecrementArc(hp, "GivenRowsHeader", 2) /\ held' = held \ {"GivenRowsBuilder"}
      BY <1>1, <1>5
    <2> HIDE DEF hp, given
    <2>2. /\ heap' \in [Kinds -> HeapObjects]
          /\ \A k \in Kinds \ {"GivenRowsHeader"} : heap'[k] = hp[k]
          /\ heap'["GivenRowsHeader"].owners =
               IF hp["GivenRowsHeader"].owners <= 2 THEN 0 ELSE hp["GivenRowsHeader"].owners - 2
          /\ heap'["GivenRowsHeader"].into \subseteq hp["GivenRowsHeader"].into
      BY <1>3, <2>1, Decremented
    <2>3. heap["GivenRowsHeader"].owners = Owners(held) + 1 /\ hp["GivenRowsHeader"] = heap["GivenRowsHeader"]
      BY <1>3, <1>5, HeapFacts DEF Row
    <2>4. /\ heap'["GivenRowsBuilder"] = Freed
          /\ \A k \in Kinds \ {"GivenRowsHeader", "GivenRowsBuilder"} : heap'[k] = heap[k]
          /\ heap'["GivenRowsHeader"].owners = Owners(held) - 1
          /\ heap'["GivenRowsHeader"].into \subseteq heap["GivenRowsHeader"].into
      BY <1>3, <1>4, <2>2, <2>3, HeapFacts
    <2>5. FreesAndMakes({"GivenRowsBuilder"}, {})
      <3>1. heap'["GivenRowsHeader"].owners = Owners(held') + Row(heap'["GivenRowsBuilder"])
        BY <1>4, <2>1, <2>4, HeapFacts
      <3>2. ASSUME NEW k \in Kinds \ {"GivenRowsHeader"}
            PROVE /\ k \in held' => heap'[k].owners > 0
                  /\ heap'[k].owners > 0 => k \in held' \cup Leaky
        BY <1>2, <2>1, <2>4, HeapFacts
      <3>3. \A k \in held \ {"GivenRowsBuilder"} : heap'[k].into \subseteq heap[k].into
        BY <2>4, HeapFacts
      <3> QED
        BY <1>1, <2>1, <2>2, <3>1, <3>2, <3>3, HeapFacts DEF FreesAndMakes
    <2>6. RowsMade'
      BY <1>2, <1>4, <2>1, <2>4 DEF RowsMade
    <2> QED
      BY <2>5, <2>6, HeapStep DEF CInv
  <1>6. CASE ~Active
    <2>1. /\ heap' = [hp EXCEPT !["GivenRows"] = given]
          /\ held' = (held \ {"GivenRowsBuilder"}) \cup {"GivenRows"}
      BY <1>1, <1>6
    <2>2. given \in HeapObjects /\ given.owners = 1 /\ given.into = {} /\ given.rows = client.rows
      <3>1. Builder.rows = client.rows /\ Builder.rows \in Seq(Nat)
        BY <1>1, HeapFacts DEF CInv, RowsMade, Builder, HeapObjects
      <3> DEFINE o == Object({})
      <3>2. o \in HeapObjects /\ o.owners = 1 /\ o.into = {}
        BY FreedObject
      <3>3. given = [o EXCEPT !.rows = Builder.rows]
        OBVIOUS
      <3> HIDE DEF o, given
      <3>4. given \in HeapObjects
        BY <3>1, <3>2, <3>3 DEF HeapObjects
      <3>5. given.owners = 1 /\ given.into = {} /\ given.rows = Builder.rows
        BY <3>2, <3>3 DEF HeapObjects
      <3> QED
        BY <3>1, <3>4, <3>5
    <2> HIDE DEF hp, given
    <2>3. /\ heap' \in [Kinds -> HeapObjects] /\ heap'["GivenRowsBuilder"] = Freed
          /\ heap'["GivenRows"] = given /\ heap'["GivenRowsHeader"] = heap["GivenRowsHeader"]
          /\ \A k \in Kinds \ {"GivenRows", "GivenRowsBuilder"} : heap'[k] = heap[k]
      BY <1>3, <2>1, <2>2, HeapFacts
    <2>4. Owners(held') = Owners(held) /\ heap["GivenRowsHeader"].owners = Owners(held)
      BY <1>1, <1>4, <1>6, <2>1, HeapFacts DEF Owners, Row
    <2>5. FreesAndMakes({"GivenRowsBuilder"}, {"GivenRows"})
      BY <1>1, <1>2, <1>4, <2>1, <2>2, <2>3, <2>4, HeapFacts DEF FreesAndMakes
    <2>6. RowsMade'
      BY <1>1, <1>2, <2>1, <2>2, <2>3 DEF RowsMade
    <2> QED
      BY <2>5, <2>6, HeapStep DEF CInv
  <1> QED
    BY <1>5, <1>6

LEMMA DropBuilderKeeps ==
  ASSUME CInv, DropBuilder PROVE CInv'
  <1> DEFINE hp == Take(heap, {"GivenRowsBuilder"})
             n == Row(Builder) + 1
  <1>1. /\ heap' = DecrementArc(hp, "GivenRowsHeader", n)
        /\ held' = held \ {"GivenRowsBuilder"} /\ unowned' = unowned /\ client' = client
        /\ "GivenRowsBuilder" \in held
        /\ \A k \in held \ {"GivenRowsBuilder"} : heap[k].into \cap {"GivenRowsBuilder"} = {}
    <2>1. n = IF Active THEN 2 ELSE 1
      BY HeapFacts DEF Row
    <2> QED
      BY <2>1 DEF DropBuilder, MayCall
  <1>2. Freed \in HeapObjects /\ Freed.owners = 0 /\ Freed.active = 0
    BY FreedObject
  <1>3. /\ hp \in [Kinds -> HeapObjects] /\ hp["GivenRowsBuilder"] = Freed
        /\ \A k \in Kinds \ {"GivenRowsBuilder"} : hp[k] = heap[k]
    <2>1. /\ hp \in [Kinds -> HeapObjects]
          /\ \A k \in Kinds : hp[k] = IF k \in {"GivenRowsBuilder"} THEN Freed ELSE heap[k]
      BY TakenAway, HeapFacts
    <2> HIDE DEF hp
    <2> QED
      BY <2>1, HeapFacts
  <1>4. /\ Owners(held) > 0 /\ Row(Freed) = 0 /\ Owners(held \ {"GivenRowsBuilder"}) = Owners(held) - 1
        /\ n \in Nat /\ heap["GivenRowsHeader"].owners = Owners(held) + n - 1
    BY <1>1, <1>2, HeapFacts DEF Owners, Row
  <1> HIDE DEF hp, n
  <1>5. /\ heap' \in [Kinds -> HeapObjects]
        /\ \A k \in Kinds \ {"GivenRowsHeader"} : heap'[k] = hp[k]
        /\ heap'["GivenRowsHeader"].owners =
             IF hp["GivenRowsHeader"].owners <= n THEN 0 ELSE hp["GivenRowsHeader"].owners - n
        /\ heap'["GivenRowsHeader"].into \subseteq hp["GivenRowsHeader"].into
    BY <1>1, <1>3, <1>4, Decremented
  <1>6. /\ heap'["GivenRowsBuilder"] = Freed
        /\ \A k \in Kinds \ {"GivenRowsHeader", "GivenRowsBuilder"} : heap'[k] = heap[k]
        /\ heap'["GivenRowsHeader"].owners = Owners(held) - 1
        /\ heap'["GivenRowsHeader"].into \subseteq heap["GivenRowsHeader"].into
    BY <1>3, <1>4, <1>5, HeapFacts
  <1>7. FreesAndMakes({"GivenRowsBuilder"}, {})
    <2>1. heap'["GivenRowsHeader"].owners = Owners(held') + Row(heap'["GivenRowsBuilder"])
      BY <1>1, <1>4, <1>6, HeapFacts
    <2>2. ASSUME NEW k \in Kinds \ {"GivenRowsHeader"}
            PROVE /\ k \in held' => heap'[k].owners > 0
                  /\ heap'[k].owners > 0 => k \in held' \cup Leaky
      BY <1>1, <1>2, <1>6, HeapFacts
    <2>3. \A k \in held \ {"GivenRowsBuilder"} : heap'[k].into \subseteq heap[k].into
      BY <1>6, HeapFacts
    <2> QED
      BY <1>1, <1>5, <2>1, <2>2, <2>3, HeapFacts DEF FreesAndMakes
  <1>8. RowsMade'
    BY <1>1, <1>2, <1>6, HeapFacts DEF CInv, RowsMade
  <1> QED
    BY <1>7, <1>8, HeapStep DEF CInv

LEMMA DropRowsKeeps ==
  ASSUME CInv, DropRows PROVE CInv'
  <1>1. /\ heap' = Dropped(heap, {"GivenRows"})
        /\ held' = held \ {"GivenRows"} /\ unowned' = unowned /\ client' = client /\ "GivenRows" \in held
        /\ \A k \in held \ {"GivenRows"} : heap[k].into \cap {"GivenRows"} = {}
    BY DEF DropRows, MayCall
  <1>2. Freed \in HeapObjects /\ Freed.owners = 0
    BY FreedObject
  <1>3. Owners(held) > 0 /\ Owners(held') = Owners(held) - 1
    BY <1>1 DEF Owners
  <1>4. /\ heap' \in [Kinds -> HeapObjects]
        /\ \A k \in Kinds \ {"GivenRowsHeader"} : heap'[k] = IF k = "GivenRows" THEN Freed ELSE heap[k]
        /\ heap'["GivenRowsHeader"].owners = heap["GivenRowsHeader"].owners - 1
        /\ heap'["GivenRowsHeader"].into \subseteq heap["GivenRowsHeader"].into
    <2>1. heap \in [Kinds -> HeapObjects] /\ heap["GivenRowsHeader"].owners >= 1
      BY <1>3, HeapFacts
    <2> DEFINE kinds == {"GivenRows"}
    <2>2. "GivenRowsHeader" \notin kinds /\ 1 = IF "GivenRows" \in kinds THEN 1 ELSE 0
      OBVIOUS
    <2>3. \A k : k \in kinds <=> k = "GivenRows"
      OBVIOUS
    <2>4. heap' = Dropped(heap, kinds)
      BY <1>1
    <2> HIDE DEF kinds
    <2>5. /\ heap' \in [Kinds -> HeapObjects]
          /\ \A k \in Kinds \ {"GivenRowsHeader"} : heap'[k] = IF k \in kinds THEN Freed ELSE heap[k]
          /\ heap'["GivenRowsHeader"].owners = heap["GivenRowsHeader"].owners - 1
          /\ heap'["GivenRowsHeader"].into \subseteq heap["GivenRowsHeader"].into
      BY <2>1, <2>2, <2>4, DroppedObjects
    <2> QED
      BY <2>3, <2>5
  <1>5. FreesAndMakes({"GivenRows"}, {})
    BY <1>1, <1>2, <1>3, <1>4, HeapFacts DEF FreesAndMakes, Builder
  <1>6. RowsMade'
    BY <1>1, <1>4, HeapFacts DEF CInv, RowsMade
  <1> QED
    BY <1>5, <1>6, HeapStep DEF CInv

(* A handle left to the collector is none of given rows.                     *)
LEMMA ForgetKeeps ==
  ASSUME CInv, Forget PROVE CInv'
  <1>1. PICK k \in unowned \ {"VoidPromise"} :
          /\ \A j \in held : k \notin heap[j].into
          /\ held' = held \ {k}
          /\ unowned' = unowned \ {k}
    BY DEF Forget
  <1>2. heap' = heap /\ client' = client
    BY DEF Forget
  <1>3. HeapInv /\ RowsMade
    BY DEF CInv
  <1>4. k \in held /\ k \in Leaky
    BY <1>1, <1>3 DEF HeapInv
  <1>5. k \notin {"GivenRowsHeader", "GivenRowsBuilder", "GivenRows"}
    BY <1>4 DEF Leaky
  <1>6. Owners(held') = Owners(held)
    BY <1>1, <1>5 DEF Owners
  <1>7. \A j \in held' : heap[j].owners > 0 /\ heap[j].into \subseteq held'
    BY <1>1, <1>3 DEF HeapInv
  <1>8. \A j \in Kinds \ {"GivenRowsHeader"} : heap[j].owners > 0 => j \in held' \cup Leaky
    BY <1>1, <1>3, <1>4 DEF HeapInv
  <1>9. HeapInv'
    BY <1>1, <1>2, <1>3, <1>6, <1>7, <1>8 DEF HeapInv
  <1>10. RowsMade'
    BY <1>1, <1>2, <1>3, <1>5 DEF RowsMade
  <1> QED
    BY <1>9, <1>10 DEF CInv

LEMMA CInvInit == CInit => CInv
  <1> SUFFICES ASSUME CInit PROVE CInv
    OBVIOUS
  <1>1. /\ Freed \in HeapObjects /\ Freed.owners = 0 /\ Freed.active = 0
    BY FreedObject
  <1>2. /\ heap \in [Kinds -> HeapObjects] /\ \A k \in Kinds : heap[k] = Freed
        /\ held = {} /\ unowned = {} /\ client = [next |-> 1, open |-> 0, rows |-> <<>>]
    BY <1>1 DEF CInit
  <1>3. HeapInv
    BY <1>1, <1>2, KindsNamed DEF HeapInv, Owners
  <1>4. RowsMade
    BY <1>1, <1>2, KindsNamed DEF RowsMade
  <1> QED
    BY <1>3, <1>4 DEF CInv

LEMMA CInvNext == CInv /\ [CNext]_cVars => CInv'
  <1> SUFFICES ASSUME CInv, [CNext]_cVars PROVE CInv'
    OBVIOUS
  <1>1. CASE UNCHANGED cVars
    BY <1>1 DEF cVars, CInv, HeapInv, RowsMade
  <1>2. CASE CNext
    BY <1>2, CallKeeps, ForgetKeeps, GetLastErrorKeeps, DropHeaderKeeps, BuilderNewKeeps, StartNewRowKeeps,
       SetInRowKeeps, CommitRowKeeps, FinishRowsKeeps, DropBuilderKeeps, DropRowsKeeps DEF CNext
  <1> QED
    BY <1>1, <1>2

LEMMA CInvAlways == CSpec => []CInv
  BY CInvInit, CInvNext, PTL DEF CSpec

(* Handles. Whatever the bindings call and in whatever order, whether the    *)
(* calls succeed or fail, and whatever they leave to the collector, no handle *)
(* they keep dangles, only the results of functions that are no %newobject   *)
(* outlive their last handle, and the shared header has one owner for each   *)
(* handle and for the row in the making.                                     *)
THEOREM HandlesStaySound == CSpec => []HandlesSound
  <1>1. CInv => HandlesSound
    <2> SUFFICES ASSUME CInv PROVE HandlesSound
      OBVIOUS
    <2>1. /\ \A k \in held : heap[k].owners > 0 /\ heap[k].into \subseteq held
          /\ \A k \in Kinds \ {"GivenRowsHeader"} : heap[k].owners > 0 => k \in held \cup Leaky
          /\ heap["GivenRowsHeader"].owners =
               Owners(held) + (IF heap["GivenRowsBuilder"].active = 0 THEN 0 ELSE 1)
      BY DEF CInv, HeapInv
    <2>2. heap["GivenRowsHeader"].owners = Owners(held) + (IF Active THEN 1 ELSE 0)
      BY <2>1 DEF Active, Builder
    <2>3. Cardinality({"GivenRowsHeader", "GivenRowsBuilder", "GivenRows"} \cap held) = Owners(held)
      BY OwnersCounted
    <2> QED
      BY <2>1, <2>2, <2>3 DEF HandlesSound, Live, Lost
  <1> QED
    BY <1>1, CInvAlways, PTL

(* Given rows. The rows of a builder, and those finished from it, are the    *)
(* rows its client committed, each once and in order.                        *)
THEOREM RowsStayFaithful == CSpec => []RowsFaithful
  <1>1. CInv => RowsFaithful
    BY KindsNamed DEF CInv, HeapInv, RowsMade, RowsFaithful, Live, Leaky
  <1> QED
    BY <1>1, CInvAlways, PTL

=============================================================================
