----------------------------- MODULE TemporaryNumber -----------------------------
(***************************************************************************)
(* The management numbers of borrowed equipment, TEMP-<site>-<letter><nnnn>, *)
(* for one site.  The next number is the largest one as a string, its last   *)
(* four digits plus one, whatever letter it has; the letter is that of the   *)
(* equipment's classification.  Letters are modelled by their rank, 0 to 25. *)
(***************************************************************************)
EXTENDS Naturals

CONSTANTS
    Letters,   \* ranks of the classification letters: A, E, P, R, S, W
    Limit      \* the first serial that four digits do not hold: 10000

ASSUME LettersAssumption == Letters \subseteq 0 .. 25
ASSUME LimitAssumption == Limit \in Nat /\ Limit > 1

\* Serials are padded to four digits, so Limit is the first one with five.
Numbers == [letter : Letters, serial : 1 .. Limit]

\* String order of two serials.  Limit, 1 followed by zeros, comes behind what
\* its first four digits come behind.
SerialBefore(m, n) ==
    \/ m # Limit /\ n # Limit /\ m < n
    \/ m # Limit /\ n = Limit /\ m <= Limit \div 10
    \/ m = Limit /\ n # Limit /\ n > Limit \div 10

Before(a, b) ==
    \/ a.letter < b.letter
    \/ a.letter = b.letter /\ SerialBefore(a.serial, b.serial)

Largest(given) == CHOOSE a \in given : \A b \in given \ {a} : Before(b, a)

\* The last four digits of the largest number, plus one.
NextSerial(given) ==
    IF given = {} THEN 1 ELSE (Largest(given).serial % Limit) + 1

NextNumber(given, letter) == [letter |-> letter, serial |-> NextSerial(given)]

=============================================================================
