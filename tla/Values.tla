------------------------------- MODULE Values -------------------------------
(* The arithmetic of Decimal and the texts of Decimal and Duration. Machine  *)
(* words, denominators and clock units are parameters; numbers in a text are *)
(* a value and a count of digits.                                            *)
EXTENDS Integers, Sequences

CONSTANTS Log10,         \* FRACTIONAL_PART_DENOMINATOR_LOG10
          Word,          \* 2^64, the modulus of u64
          Operands,      \* texts of decimals: [neg, int, frac, digits]
          MaxExact,      \* bound on the decimals computed, in units of 1/Denominator
          Durations,     \* durations: [months, days, nanos]
          MonthsPerYear, DaysPerWeek,
          NanoDigits,    \* 9
          Sixty          \* seconds of a minute, minutes of an hour

Denominator == 10^Log10

(* Like 10^19 and 2^64: the sum of two fractions may overflow a word.        *)
ASSUME WordAssumption ==
    /\ Denominator \in Nat /\ Word \in Nat
    /\ 0 < Denominator /\ Denominator < Word /\ Word < 2 * Denominator

(* A fraction of d digits, in units of 1/Denominator.                        *)
Scaled(t) == t.frac * 10^(Log10 - t.digits)

(* Digits after the point are a fraction: a text says less than one by them. *)
ASSUME OperandsAssumption ==
    \A t \in Operands :
        /\ t.neg \in BOOLEAN /\ t.int \in Nat
        /\ t.digits <= Log10 => Scaled(t) \in Nat /\ Scaled(t) < Denominator

(* Units are positive, and so are the powers of ten.                         *)
ASSUME UnitsAssumption ==
    /\ Log10 \in Nat /\ \A k \in 0..Log10 : 10^k > 0
    /\ NanoDigits \in Nat /\ 10^NanoDigits > 0
    /\ {MonthsPerYear, DaysPerWeek, Sixty} \subseteq Nat \ {0}
    /\ Durations \subseteq [months : Nat, days : Nat, nanos : Nat]

VARIABLES
    decimal,   \* value: the Decimal; exact: the number it should be; text: its last print
    duration   \* value: the Duration; text: its print; read: what the text parsed to, once it was

valueVars == <<decimal, duration>>

NoText == [neg |-> FALSE, int |-> 0, frac |-> 0, digits |-> 0]

-----------------------------------------------------------------------------
(* Decimal: a signed integer part plus a fraction counted in 1/Denominator.  *)
Panic == [integer |-> 0, fractional |-> Word]

from_parts(integer, fractional) ==
    IF fractional < Denominator THEN [integer |-> integer, fractional |-> fractional] ELSE Panic

FaultyAdd(l, r) ==
    LET sum == l.fractional + r.fractional
        carry == IF sum % Word >= Denominator THEN 1 ELSE 0
    IN  from_parts(l.integer + r.integer + carry, (sum % Word) - carry * Denominator)

(* overflowing_add: the sum modulo a word, and whether it overflowed.        *)
Add(l, r) ==
    LET sum == l.fractional + r.fractional
        frac == sum % Word
        overflow == sum >= Word
        int == l.integer + r.integer
    IN  IF overflow
        THEN IF frac < Denominator
             THEN from_parts(int + 1, frac + ((0 - Denominator) % Word)) ELSE Panic
        ELSE IF frac < Denominator
             THEN from_parts(int, frac) ELSE from_parts(int + 1, frac - Denominator)

Sub(l, r) ==
    LET frac == (l.fractional - r.fractional) % Word
    IN  IF l.fractional >= r.fractional
        THEN from_parts(l.integer - r.integer, frac)
        ELSE from_parts(l.integer - r.integer - 1, (frac + Denominator) % Word)

Neg(d) == Sub([integer |-> 0, fractional |-> 0], d)

(* from_str(): the fraction is scaled up to Log10 digits.                    *)
Parseable(t) == t.digits <= Log10

ParseDecimal(t) ==
    LET d == from_parts(t.int, Scaled(t))
    IN  IF t.neg THEN Neg(d) ELSE d

(* How many zeros end the fraction.                                          *)
Tail0s(fractional) == CHOOSE k \in 0..Log10 :
    fractional % 10^k = 0 /\ fractional % 10^(k + 1) # 0

FaultyPrintDecimal(d) ==
    [neg |-> d.integer < 0, int |-> IF d.integer < 0 THEN -d.integer ELSE d.integer,
     frac |-> IF d.fractional = 0 THEN 0 ELSE d.fractional \div 10^Tail0s(d.fractional),
     digits |-> Log10]

(* Debug and Display: the integer part, then the fraction without them.      *)
PrintDecimal(d) ==
    LET k == IF d.fractional = 0 THEN Log10 - 1 ELSE Tail0s(d.fractional)
    IN  [neg |-> d.integer < 0, int |-> IF d.integer < 0 THEN -d.integer ELSE d.integer,
         frac |-> d.fractional \div 10^k, digits |-> Log10 - k]

-----------------------------------------------------------------------------
(* Duration: a text is a sequence of segments, each with its number, the     *)
(* digits of it, its symbol, and whether a T stands before it.               *)
NanosPerSec == 10^NanoDigits
NanosPerMinute == Sixty * NanosPerSec
NanosPerHour == Sixty * NanosPerMinute

Digits(n) == CHOOSE k \in 1..10 : n < 10^k /\ (k = 1 \/ n >= 10^(k - 1))
Seg(n, symbol, time) == [number |-> n, len |-> Digits(n), symbol |-> symbol, time |-> time]
NanoSeg(n) == [number |-> n, len |-> NanoDigits, symbol |-> "S", time |-> FALSE]

Positive(n, symbol, time) == IF n > 0 THEN <<Seg(n, symbol, time)>> ELSE <<>>

PrintDate(months, days) ==
    Positive(months \div MonthsPerYear, "Y", FALSE) \o Positive(months % MonthsPerYear, "M", FALSE)
    \o Positive(days, "D", FALSE)

(* The T stands before the first unit of the clock that is printed.          *)
PrintDuration(d) ==
    LET hours == d.nanos \div NanosPerHour
        minutes == (d.nanos % NanosPerHour) \div NanosPerMinute
        seconds == (d.nanos % NanosPerMinute) \div NanosPerSec
        nanos == d.nanos % NanosPerSec
        first == hours = 0 /\ minutes = 0
    IN  IF d = [months |-> 0, days |-> 0, nanos |-> 0] THEN <<Seg(0, "S", TRUE)>>
        ELSE PrintDate(d.months, d.days) \o Positive(hours, "H", TRUE) \o Positive(minutes, "M", hours = 0)
             \o IF nanos > 0 THEN <<Seg(seconds, ".", first), NanoSeg(nanos)>>
                ELSE Positive(seconds, "S", first)

(* One turn of the loop of from_str(). Numbers stay below 2^32 here.         *)
Unparsed == [months |-> 0, days |-> 0, nanos |-> 0, time |-> FALSE, prev |-> "P", ok |-> TRUE]

ReadSegment(acc, s) ==
    LET time == acc.time \/ s.time
        months == CASE s.symbol = "Y" -> s.number * MonthsPerYear
                    [] s.symbol = "M" /\ ~time -> s.number
                    [] OTHER -> 0
        days == CASE s.symbol = "W" -> s.number * DaysPerWeek
                  [] s.symbol = "D" -> s.number
                  [] OTHER -> 0
        nanos == CASE s.symbol = "H" -> s.number * NanosPerHour
                   [] s.symbol = "M" /\ time -> s.number * NanosPerMinute
                   [] s.symbol = "." \/ (s.symbol = "S" /\ acc.prev # ".") -> s.number * NanosPerSec
                   [] s.symbol = "S" /\ acc.prev = "." -> s.number * 10^(NanoDigits - s.len)
                   [] OTHER -> 0
    IN  [months |-> acc.months + months, days |-> acc.days + days, nanos |-> acc.nanos + nanos,
         time |-> time, prev |-> s.symbol, ok |-> acc.ok /\ (acc.prev = "." => s.symbol = "S")]

(* The loop of from_str(), to the end of the text.                           *)
Reading(text) ==
    LET turn[i \in 0..Len(text)] ==
          IF i = 0 THEN Unparsed ELSE ReadSegment(turn[i - 1], text[i])
    IN  turn[Len(text)]

ParseDuration(text) ==
    LET r == Reading(text)
    IN  IF r.ok THEN <<[months |-> r.months, days |-> r.days, nanos |-> r.nanos]>> ELSE <<"err">>

-----------------------------------------------------------------------------
ValuesInit ==
    /\ decimal = [value |-> [integer |-> 0, fractional |-> 0], exact |-> 0, text |-> NoText]
    /\ duration \in [value : Durations, text : {<<>>}, read : {<<>>}]

InRange(n) == -MaxExact <= n /\ n <= MaxExact
Exact(t) == (IF t.neg THEN -1 ELSE 1) * (t.int * Denominator + Scaled(t))

(* A text that would lose digits is refused and changes nothing.             *)
AddDecimal(t) ==
    /\ Parseable(t)
    /\ InRange(decimal.exact + Exact(t))
    /\ decimal' = [value |-> Add(decimal.value, ParseDecimal(t)),
                   exact |-> decimal.exact + Exact(t), text |-> NoText]
    /\ UNCHANGED duration

SubDecimal(t) ==
    /\ Parseable(t)
    /\ InRange(decimal.exact - Exact(t))
    /\ decimal' = [value |-> Sub(decimal.value, ParseDecimal(t)),
                   exact |-> decimal.exact - Exact(t), text |-> NoText]
    /\ UNCHANGED duration

NegDecimal ==
    /\ decimal' = [value |-> Neg(decimal.value), exact |-> -decimal.exact, text |-> NoText]
    /\ UNCHANGED duration

ShowDecimal ==
    /\ decimal' = [value |-> decimal.value, exact |-> decimal.exact,
                   text |-> PrintDecimal(decimal.value)]
    /\ UNCHANGED duration

ShowDuration ==
    /\ duration.read = <<>>
    /\ duration' = [duration EXCEPT !.text = PrintDuration(duration.value)]
    /\ UNCHANGED decimal

ReadDuration ==
    /\ duration.text # <<>>
    /\ duration' = [duration EXCEPT !.read = ParseDuration(duration.text)]
    /\ UNCHANGED decimal

DecimalNext == (\E t \in Operands : AddDecimal(t) \/ SubDecimal(t)) \/ NegDecimal \/ ShowDecimal
DurationNext == ShowDuration \/ ReadDuration

ValuesSpec == ValuesInit /\ [][DecimalNext \/ DurationNext]_valueVars

-----------------------------------------------------------------------------
(* Sums, differences, negations and parsed texts of decimals are exact       *)
(* however the fractions carry and borrow across a machine word; no step     *)
(* meets the assertion of from_parts() or the unreachable arm of add().      *)
DecimalExact ==
    /\ decimal.value # Panic
    /\ decimal.value.integer * Denominator + decimal.value.fractional = decimal.exact

ReadsBack == ParseDecimal(decimal.text) = decimal.value

(* A decimal that is whole or not negative prints as a text that reads back  *)
(* as the same decimal, however many zeros end its fraction; a duration      *)
(* printed in ISO 8601 reads back as the same months, days and nanoseconds,  *)
(* whichever of its units are zero.                                          *)
TextsReadBack ==
    /\ decimal.text # NoText /\ (decimal.exact >= 0 \/ decimal.value.fractional = 0) => ReadsBack
    /\ duration.read # <<>> => duration.read = <<duration.value>>

(* The text of any decimal reads back: the printed number is "the integer    *)
(* part of the decimal" and its "digits after the decimal point"             *)
(* (concept/value.rs).                                                       *)
AnyDecimalText == decimal.text # NoText => ReadsBack

=============================================================================
