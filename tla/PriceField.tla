------------------------------ MODULE PriceField ------------------------------
(***************************************************************************)
(* The price of a menu item, from the text of a form to minor units and     *)
(* back (money.ts, itemForm.ts): the currency, which the page reads apart   *)
(* from the item, says how many digits a fraction has. Digits are values,   *)
(* of either script; spaces around them are left out.                       *)
(***************************************************************************)
EXTENDS Integers, Sequences, SequencesExt

CONSTANTS
    Exponents,      \* fraction digits of the currencies of businesses
    Prices,         \* prices that are stored to begin with, or set elsewhere
    Wholes,         \* the digits typed before the dot
    Fractions,      \* and after it
    MaxPrice,       \* the largest price the server takes
    MaxSafe,        \* the largest integer a number holds
    MaxPriceEvents  \* bound: saves, answers that are lost, prices set elsewhere

PriceConstants ==
    /\ Exponents \subseteq Nat /\ Prices \subseteq 0 .. MaxPrice
    /\ {MaxPrice, MaxSafe, MaxPriceEvents} \subseteq Nat /\ MaxPrice < MaxSafe
    /\ \A t \in Wholes \cup Fractions : t \in Seq(0 .. 9)

VARIABLES
    exponent,       \* of the currency of the business
    currencyRead,          \* the page has read the business
    price,          \* the item's, on the server
    itemRead,          \* as the page read it
    field,          \* the text of the form
    taken,        \* the text that the form took last from the item
    origin,         \* where the text is from: the item, the keys, or the answer to a save
    pricing,         \* the save under way
    priceEvents     \* how much of the bound was used

priceVars == <<exponent, currencyRead, price, itemRead, field, taken, origin, pricing, priceEvents>>

-----------------------------------------------------------------------------
(* Text and minor units.                                                   *)

Text(whole, fraction) == [sign |-> "none", whole |-> whole, fraction |-> fraction]
Empty == Text(<< >>, << >>)
Texts ==
    {Text(w, f) : w \in Wholes, f \in Fractions}
    \cup {[Text(<<5>>, << >>) EXCEPT !.sign = s] : s \in {"minus", "other"}}

ValueOf(digits) ==
    LET value[n \in 0 .. Len(digits)] == IF n = 0 THEN 0 ELSE 10 * value[n - 1] + digits[n]
    IN  value[Len(digits)]
DigitsOf(minor) ==
    LET text[n \in 0 .. minor] == IF n < 10 THEN <<n>> ELSE Append(text[n \div 10], n % 10)
    IN  text[minor]

Zeros(n) == [i \in 1 .. n |-> 0]
PadEnd(digits, n) == digits \o Zeros(n - Len(digits))
PadStart(digits, n) == IF Len(digits) < n THEN Zeros(n - Len(digits)) \o digits ELSE digits

Error(kind) == [ok |-> FALSE, error |-> kind]
Minor(n) == IF n > MaxSafe THEN Error("unsafe") ELSE [ok |-> TRUE, minor |-> n]

\* Mutant: the digits as they stand.
ParseUnpadded(text, e) ==
    IF text.sign = "none" /\ text # Empty /\ Len(text.fraction) <= e
    THEN Minor(ValueOf(text.whole \o text.fraction)) ELSE Error("malformed")

ParseMajorToMinor(text, e) ==
    CASE text = Empty -> Error("required")
      [] text.sign = "minus" -> Error("negative")
      [] text.sign = "other" -> Error("malformed")
      [] OTHER ->
            IF Len(text.fraction) > e THEN Error(IF e = 0 THEN "wholeOnly" ELSE "tooPrecise")
            ELSE Minor(ValueOf(text.whole \o PadEnd(text.fraction, e)))

MinorToMajorInput(minor, e) ==
    LET digits == PadStart(DigitsOf(minor), e + 1)
        whole == Len(digits) - e
    IN  Text(SubSeq(digits, 1, whole), SubSeq(digits, whole + 1, Len(digits)))

-----------------------------------------------------------------------------
(* The form.                                                               *)

NoPrice == -1
NoSave == [phase |-> "none"]
Dollars == 2

Exponent(read) == IF read THEN exponent ELSE Dollars
Assumed == Exponent(currencyRead)

\* The form takes its text from the item when the item, another field of it too,
\* or the currency, differs from what it took before.
Adopt(minor, e, other) ==
    IF minor # NoPrice /\ (other \/ MinorToMajorInput(minor, e) # taken)
    THEN /\ taken' = MinorToMajorInput(minor, e)
         /\ field' = taken' /\ origin' = "item"
    ELSE UNCHANGED <<taken, field, origin>>

Counted == priceEvents < MaxPriceEvents /\ priceEvents' = priceEvents + 1

PriceInit ==
    /\ exponent \in Exponents /\ currencyRead \in BOOLEAN
    /\ price \in Prices \cup {NoPrice} /\ itemRead = price
    /\ field = IF itemRead = NoPrice THEN Empty ELSE MinorToMajorInput(itemRead, Assumed)
    /\ taken = field /\ origin = "item"
    /\ pricing = NoSave /\ priceEvents = 0

Type ==
    /\ \E t \in Texts \ {field} : field' = t
    /\ origin' = "keys"
    /\ UNCHANGED <<exponent, currencyRead, price, itemRead, taken, pricing, priceEvents>>

\* Another field may be what was changed. A price that is the item's already is
\* not sent.
Save ==
    /\ pricing = NoSave /\ Counted
    /\ (itemRead = NoPrice) = (price = NoPrice)
    /\ LET parsed == ParseMajorToMinor(field, Assumed) IN
        /\ parsed.ok /\ parsed.minor # itemRead
        /\ pricing' = [phase |-> "sent", minor |-> parsed.minor, field |-> field,
                      assumed |-> Assumed, origin |-> origin]
    /\ UNCHANGED <<exponent, currencyRead, price, itemRead, field, taken, origin>>

RunSave ==
    /\ pricing.phase = "sent"
    /\ IF pricing.minor <= MaxPrice
       THEN price' = pricing.minor /\ pricing' = [pricing EXCEPT !.phase = "saved"]
       ELSE price' = price /\ pricing' = NoSave
    /\ UNCHANGED <<exponent, currencyRead, itemRead, field, taken, origin, priceEvents>>

\* The form shows what was saved, in the currency of the render that sent it; the
\* page of a new item gives way to that item's.
TakeSaved ==
    /\ pricing.phase = "saved" /\ pricing' = NoSave
    /\ field' = IF itemRead = NoPrice THEN Empty ELSE MinorToMajorInput(pricing.minor, pricing.assumed)
    /\ origin' = "answer"
    /\ UNCHANGED <<exponent, currencyRead, price, itemRead, taken, priceEvents>>

LoseSaved ==
    /\ pricing # NoSave /\ Counted /\ pricing' = NoSave
    /\ UNCHANGED <<exponent, currencyRead, price, itemRead, field, taken, origin>>

ReadItem ==
    /\ itemRead' = price /\ price # NoPrice /\ \E other \in BOOLEAN : Adopt(price, Assumed, other)
    /\ UNCHANGED <<exponent, currencyRead, price, pricing, priceEvents>>

ReadBusiness ==
    /\ ~currencyRead /\ currencyRead' = TRUE /\ Adopt(itemRead, Exponent(TRUE), FALSE)
    /\ UNCHANGED <<exponent, price, itemRead, pricing, priceEvents>>

AnotherSets ==
    /\ price # NoPrice /\ Counted /\ \E p \in Prices : price' = p
    /\ UNCHANGED <<exponent, currencyRead, itemRead, field, taken, origin, pricing>>

PriceNext ==
    \/ Type \/ Save \/ RunSave \/ TakeSaved \/ LoseSaved
    \/ ReadItem \/ ReadBusiness \/ AnotherSets

PriceSpec == PriceInit /\ [][PriceNext]_priceVars

-----------------------------------------------------------------------------

PriceTypeOK ==
    /\ exponent \in Exponents /\ currencyRead \in BOOLEAN
    /\ {price, itemRead} \subseteq 0 .. MaxPrice \cup {NoPrice}
    /\ \A t \in {field, taken} : \A d \in Range(t.whole \o t.fraction) : d \in 0 .. 9
    /\ origin \in {"item", "keys", "answer"} /\ pricing.phase \in {"none", "sent", "saved"}
    /\ priceEvents \in 0 .. MaxPriceEvents

TenTo(n) == LET power[k \in 0 .. n] == IF k = 0 THEN 1 ELSE 10 * power[k - 1] IN power[n]

\* A text and an amount say the same, without a conversion of either.
Says(text, minor, e) ==
    minor * TenTo(Len(text.fraction)) = ValueOf(text.whole \o text.fraction) * TenTo(e)

(* A price that a save stores is to the last unit what the field said, in    *)
(* the currency that the field was in.                                       *)
SavedAsTyped ==
    [][pricing.phase = "sent" /\ pricing'.phase = "saved" => Says(pricing.field, price', pricing.assumed)]_priceVars

(* A price that the field took from the item is not sent with the other      *)
(* fields, so that the price another administrator sets meanwhile stands     *)
(* (toItemUpdate, itemValues).                                               *)
ItemsPriceIsNotSent == pricing # NoSave => pricing.origin # "item"

=============================================================================
