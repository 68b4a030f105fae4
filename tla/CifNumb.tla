------------------------------ MODULE CifNumb ------------------------------
(***************************************************************************)
(* The numbers of value.c: how a number with an uncertainty is rounded to  *)
(* a scale and formatted (cif_value_init_numb, cif_value_autoinit_numb),   *)
(* and how text is parsed as a number (cif_value_parse_numb).              *)
(*                                                                         *)
(* A double is a whole number of eighths.  The decimal expansion that      *)
(* to_digits computes in base BBASE is exact, and so are the quotients     *)
(* here; the base is 10^DDig for a small DDig.  Rounding is to nearest,    *)
(* the default mode.  A character string is a sequence of characters.      *)
(***************************************************************************)
EXTENDS Integers, Sequences, FiniteSets, FiniteSetsExt

CONSTANTS
    DDig,       \* DDIG_PER_DIG: the decimal digits of one digit of the base
    LineLength  \* CIF_LINE_LENGTH: no text of a number is longer

ASSUME NumbAssumption == DDig \in Nat \ {0} /\ LineLength \in Nat

Digit   == {"0", "1", "2", "3", "4", "5", "6", "7", "8", "9"}
NoSu    == <<>>     \* su_digits = NULL
Invalid == [kind |-> "invalid"]

\* A number value (numb_value_s) as it is initialized: not quoted.
Number(text, sign, digits, su, scale) ==
    [kind |-> "numb", text |-> text, quoted |-> FALSE, sign |-> sign, digits |-> digits,
     su |-> su, scale |-> scale]

---------------------------------------------------------------------------
(* Digit strings *)

Abs(n) == IF n < 0 THEN -n ELSE n
DigitOf(k) == <<"0", "1", "2", "3", "4", "5", "6", "7", "8", "9">>[k + 1]
Places(n) == 1 + CHOOSE k \in 0..9 : n \div 10^k \in 0..9 /\ (k > 0 => n \div 10^k # 0)
Decimal(n) == [i \in 1..Places(n) |-> DigitOf((n \div 10^(Places(n) - i)) % 10)]
ZerosButOne(k) == [i \in 1..(k - 1) |-> "0"]

Zeros(k) == [i \in 1..k |-> "0"]

\* round_it, compare_half: p / q to the nearest integer, a tie to the even one
RoundIt(p, q) ==
    LET whole == p \div q
        tail  == 2 * (p % q)
    IN  IF tail > q \/ (tail = q /\ whole % 2 = 1) THEN whole + 1 ELSE whole

\* A number of eighths as a multiple of 10^(-scale), rounded.
Rounded(n, scale) ==
    IF scale >= 0 THEN RoundIt(n * 10^scale, 8) ELSE RoundIt(n, 8 * 10^(-scale))

\* MSP: the decimal place of the leading digit
MSP(n) ==
    IF n = 0 THEN 0
    ELSE CHOOSE k \in -3..9 :
            IF k >= 0 THEN 8 * 10^k <= Abs(n) /\ Abs(n) < 8 * 10^(k + 1)
            ELSE 8 <= Abs(n) * 10^(-k) /\ Abs(n) * 10^(-k - 1) < 8

\* The index, from the units to the right, of the bignum digit that holds a
\* decimal place: the leading one of n (msd), the last one kept (round_digit).
\* The quotient of a negative number is truncated in C.
MsdOf(n) == -(MSP(n) \div DDig)

RoundDigit(scale) == IF scale <= 0 THEN -((-scale) \div DDig) ELSE (scale + DDig - 1) \div DDig

\* to_digits: the digits of n at the scale.  A number that rounds to zero comes
\* out as "0" when its leading bignum digit lies beyond the one that is rounded,
\* and otherwise as one zero, cut off with the other places of that digit.
ToDigits(n, scale) ==
    LET kept == Rounded(Abs(n), scale) IN
    IF n = 0 \/ kept > 0 \/ MsdOf(n) > RoundDigit(scale) THEN Decimal(kept) ELSE <<>>

\* frac_bits less the exponent: the bits right of the binary point
FractionBits(n) == IF n % 8 = 0 THEN 0 ELSE IF n % 4 = 0 THEN 1 ELSE IF n % 2 = 0 THEN 2 ELSE 3

---------------------------------------------------------------------------
(* Formatting *)

Sign(n) == IF n < 0 THEN <<"-">> ELSE <<>>
WriteSu(su) == IF su = NoSu THEN <<>> ELSE <<"(">> \o su \o <<")">>

\* The fraction digits that follow the first k digits.
Fraction(digits, k) == SubSeq(digits, k + 1, Len(digits))

\* format_text_decimal
FormatDecimal(n, digits, su, scale) ==
    LET whole == Len(digits) - scale IN
    Sign(n)
    \o (IF whole <= 0 THEN <<"0", ".">> \o Zeros(-whole) \o digits
        ELSE SubSeq(digits, 1, whole) \o (IF scale > 0 THEN <<".">> ELSE <<>>)
             \o Fraction(digits, whole))
    \o WriteSu(su)

\* format_text_sci.  Its assertion that there are digits (value.c:916) is off in
\* a default build (configure.ac:109), and test_value_init_numb.c:240-247 expects
\* the text of a number without any.
FormatSci(n, digits, su, scale) ==
    LET place    == (IF digits = <<>> THEN 0 ELSE Len(digits) - 1) - scale
        exponent == Decimal(Abs(place))
    IN  Sign(n)
        \o (IF digits = <<>> THEN <<"0">>
            ELSE <<digits[1]>> \o (IF Len(digits) > 1 THEN <<".">> \o Fraction(digits, 1) ELSE <<>>))
        \o <<"e", IF place < 0 THEN "-" ELSE "+">>
        \o Zeros(2 - Len(exponent)) \o exponent
        \o WriteSu(su)

\* Whether cif_value_init_numb chooses scientific notation.
IsSci(n, scale, leading) == scale < 0 \/ -(MSP(n) + 1) > leading

\* cif_value_init_numb: the number that n and su, in eighths, make at a scale;
\* an uncertainty without digits is none.  A text beyond the line length is
\* refused.
InitNumb(n, su, scale, leading) ==
    LET digits == ToDigits(n, scale)
        suDigits == IF su > 0 THEN ToDigits(su, scale) ELSE NoSu
        text == IF IsSci(n, scale, leading) THEN FormatSci(n, digits, suDigits, scale)
                ELSE FormatDecimal(n, digits, suDigits, scale)
    IN  IF Len(text) > LineLength THEN Invalid
        ELSE Number(text, IF n < 0 THEN -1 ELSE 1, digits, suDigits, scale)

\* The uncertainty rounded to the number of digits of the rule: sprintf %.*e.
RuleDigits(rule) == Places(rule)
SuScale(su, rule) == RuleDigits(rule) - 1 - MSP(su)
RuleScaleUnreduced(su, rule) == SuScale(su, rule)

RuleScale(su, rule) ==
    LET digits == Rounded(su, SuScale(su, rule))
        \* rounding may carry into one more place
        carried == Places(digits) > RuleDigits(rule)
        scale   == IF carried THEN SuScale(su, rule) - 1 ELSE SuScale(su, rule)
    IN  IF (IF carried THEN digits \div 10 ELSE digits) > rule THEN scale - 1 ELSE scale

\* cif_value_autoinit_numb: the scale it asks cif_value_init_numb for, with
\* DEFAULT_MAX_LEAD_ZEROES
AutoInitNumb(n, su, rule) ==
    InitNumb(n, su, IF su = 0 THEN FractionBits(n) ELSE RuleScale(su, rule), 5)

---------------------------------------------------------------------------
(* Parsing *)

At(t, p) == IF p \in DOMAIN t THEN t[p] ELSE "end"

\* The first position, from p on, whose character is not in S.
Skip(t, p, S) == CHOOSE q \in p..(Len(t) + 1) :
                    At(t, q) \notin S /\ \A i \in p..(q - 1) : t[i] \in S

\* The last of the positions p to q - 1 that leading characters of S leave.
SkipLeading(t, p, q, S) == Min({Skip(t, p, S), q - 1})

NatOf(t, p, q) ==
    FoldSet(LAMBDA i, a : a + ((CHOOSE d \in 0..9 : DigitOf(d) = t[i]) * 10^(q - i)), 0, p..q)

\* cif_value_parse_numb: an optional sign, digits with at most one decimal
\* point, an optional exponent and an optional uncertainty, and nothing after.
\* Leading zeroes are dropped, the last digit is not.
ParseNumb(t) ==
    LET start    == IF At(t, 1) \in {"-", "+"} THEN 2 ELSE 1
        point    == Skip(t, start, Digit)
        hasPoint == At(t, point) = "."
        stop     == IF hasPoint THEN Skip(t, point + 1, Digit) ELSE point
        decimals == IF hasPoint /\ stop > point + 1 THEN stop - point - 1 ELSE 0
        last     == IF hasPoint /\ stop = point + 1 THEN point ELSE stop
        first    == SkipLeading(t, start, last, {"0", "."})
        hasExp   == At(t, stop) \in {"e", "E"}
        expStart == IF ~hasExp THEN stop
                    ELSE IF At(t, stop + 1) \in {"-", "+"} THEN stop + 2 ELSE stop + 1
        expStop  == IF hasExp THEN Skip(t, expStart, Digit) ELSE stop
        exponent == IF hasExp THEN NatOf(t, expStart, expStop - 1) ELSE 0
        hasSu    == At(t, expStop) = "("
        suStop   == IF hasSu THEN Skip(t, expStop + 1, Digit) ELSE expStop
        tail     == IF hasSu THEN suStop + 1 ELSE expStop
    IN  IF \/ stop = (IF hasPoint THEN start + 1 ELSE start)
           \/ hasExp /\ expStop = expStart
           \/ hasSu /\ (suStop = expStop + 1 \/ At(t, suStop) # ")")
           \/ At(t, tail) # "end"
        THEN Invalid
        ELSE Number(t, IF At(t, 1) = "-" THEN -1 ELSE 1,
                    SelectSeq(SubSeq(t, first, last - 1), LAMBDA c : c # "."),
                    IF hasSu
                    THEN SubSeq(t, SkipLeading(t, expStop + 1, suStop, {"0"}), suStop - 1)
                    ELSE NoSu,
                    decimals - (IF hasExp /\ At(t, stop + 1) = "-" THEN -exponent ELSE exponent))

=============================================================================
