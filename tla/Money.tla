-------------------------------- MODULE Money --------------------------------
(***************************************************************************)
(* Money as integer cents (balancecheck/substrate/money.py): the one       *)
(* rendering, and the digits the error foundry transposes.                 *)
(***************************************************************************)
EXTENDS Integers, Sequences, TLC

Magnitude(n) == IF n < 0 THEN -n ELSE n

\* n in decimal, padded with zeros to the given width.
Padded(n, width) ==
    LET pad[k \in Nat] == IF k = 0 THEN "" ELSE "0" \o pad[k - 1]
        text == ToString(n)
    IN  pad[IF Len(text) < width THEN width - Len(text) ELSE 0] \o text

\* Thousands grouped by commas.
Grouped(n) ==
    LET group[k \in Nat] ==
          IF k < 1000 THEN ToString(k)
                      ELSE group[k \div 1000] \o "," \o Padded(k % 1000, 3)
    IN  group[n]

Render(amount) ==
    (IF amount < 0 THEN "-$" ELSE "$")
      \o Grouped(Magnitude(amount) \div 100)
      \o "." \o Padded(Magnitude(amount) % 100, 2)

\* The decimal digits of a positive number, most significant first.
Digits(n) ==
    LET digits[k \in Nat] ==
          IF k < 10 THEN <<k>> ELSE Append(digits[k \div 10], k % 10)
    IN  digits[n]

FromDigits(ds) ==
    LET value[k \in 0..Len(ds)] == IF k = 0 THEN 0 ELSE 10 * value[k - 1] + ds[k]
    IN  value[Len(ds)]

=============================================================================
