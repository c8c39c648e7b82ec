------------------------- MODULE TemporaryNumberProofs -------------------------
(***************************************************************************)
(* The numbering of borrowed equipment.  The order of strings is total, so *)
(* there is one largest number, and the next one is well formed.  When     *)
(* everything received has the same classification and serials are below   *)
(* the limit, the largest number is the one with the largest serial, and   *)
(* the next was not given before.                                          *)
(***************************************************************************)
EXTENDS TemporaryNumber, WellFoundedInduction, TLAPS

LEMMA Fields ==
    ASSUME NEW a \in Numbers
    PROVE  /\ a.letter \in Nat
           /\ a.serial \in Nat /\ 1 <= a.serial /\ a.serial <= Limit
           /\ a = [letter |-> a.letter, serial |-> a.serial]
<1>1. a.letter \in Letters /\ a.serial \in 1 .. Limit
  BY DEF Numbers
<1>2. a = [letter |-> a.letter, serial |-> a.serial]
  BY DEF Numbers
<1> QED
  BY <1>1, <1>2, LimitAssumption, LettersAssumption

\* The order in which the database sorts numbers is strict and total, so that
\* a set has at most one largest number.
THEOREM OrderIsTotal ==
    ASSUME NEW a \in Numbers, NEW b \in Numbers
    PROVE  /\ ~ (Before(a, b) /\ Before(b, a))
           /\ a # b => Before(a, b) \/ Before(b, a)
<1> DEFINE tenth == Limit \div 10
<1>1. Limit \in Nat /\ Limit > 1 /\ Letters \subseteq Nat
  BY LimitAssumption, LettersAssumption
<1>2. tenth \in Nat /\ tenth < Limit
  BY <1>1
<1>3. ASSUME NEW m \in 1 .. Limit, NEW n \in 1 .. Limit
      PROVE  /\ ~ (SerialBefore(m, n) /\ SerialBefore(n, m))
             /\ m # n => SerialBefore(m, n) \/ SerialBefore(n, m)
  <2> HIDE DEF tenth
  <2>1. SerialBefore(m, n) <=>
            \/ m # Limit /\ n # Limit /\ m < n
            \/ m # Limit /\ n = Limit /\ m <= tenth
            \/ m = Limit /\ n # Limit /\ n > tenth
    BY DEF SerialBefore, tenth
  <2>2. SerialBefore(n, m) <=>
            \/ n # Limit /\ m # Limit /\ n < m
            \/ n # Limit /\ m = Limit /\ n <= tenth
            \/ n = Limit /\ m # Limit /\ m > tenth
    BY DEF SerialBefore, tenth
  <2> QED
    BY <1>1, <1>2, <2>1, <2>2
<1>4. /\ a.letter \in Nat /\ b.letter \in Nat
      /\ a.serial \in 1 .. Limit /\ b.serial \in 1 .. Limit
      /\ (a.letter = b.letter /\ a.serial = b.serial => a = b)
  <2>1. a.letter = b.letter /\ a.serial = b.serial => a = b
    BY Fields, Zenon
  <2>2. /\ a.letter \in Nat /\ a.serial \in 1 .. Limit
        /\ b.letter \in Nat /\ b.serial \in 1 .. Limit
    BY <1>1, Fields
  <2> QED  BY <2>1, <2>2
<1> QED
  BY <1>3, <1>4 DEF Before

-----------------------------------------------------------------------------

\* Below the limit the order of strings is that of the serials.
LEMMA BelowLimit ==
    ASSUME NEW a \in Numbers, NEW b \in Numbers, a.letter = b.letter,
           a.serial < Limit, b.serial < Limit
    PROVE  Before(a, b) <=> a.serial < b.serial
<1>1. Before(a, b) <=> \/ a.letter < b.letter
                       \/ SerialBefore(a.serial, b.serial)
  BY DEF Before
<1>2. ~ (a.letter < b.letter)
  BY Fields
<1>3. SerialBefore(a.serial, b.serial) <=> a.serial < b.serial
  BY Fields, LimitAssumption DEF SerialBefore
<1> QED
  BY <1>1, <1>2, <1>3

\* Of natural numbers below a bound one is the greatest: the one with the least
\* distance from the bound.
LEMMA HasGreatest ==
    ASSUME NEW S, S # {}, NEW f \in [S -> Nat], NEW bound \in Nat,
           \A a \in S : f[a] <= bound
    PROVE  \E a \in S : \A b \in S : f[b] <= f[a]
<1> DEFINE distances == { bound - f[a] : a \in S }
<1>1. distances \subseteq Nat /\ distances # {}
  OBVIOUS
<1>2. PICK x \in distances : \A y \in distances : <<y, x>> \notin OpToRel(<, Nat)
  <2> HIDE DEF distances
  <2> QED  BY <1>1, NatLessThanWellFounded, WFMin, Zenon
<1>3. \A y \in distances : ~ (y < x)
  <2>1. ASSUME NEW y \in distances PROVE ~ (y < x)
    <3>1. <<y, x>> \in Nat \X Nat
      BY <1>1
    <3> QED
      BY <1>2, <3>1 DEF OpToRel
  <2> QED  BY <2>1
<1>4. PICK a \in S : x = bound - f[a]
  OBVIOUS
<1>5. ASSUME NEW b \in S PROVE f[b] <= f[a]
  <2>1. ~ (bound - f[b] < bound - f[a])
    BY <1>3, <1>4
  <2> QED  BY <2>1
<1> QED
  BY <1>5

\* The string order of serials is the order of these ranks.
Rank(serial) == IF serial = Limit THEN 2 * (Limit \div 10) + 1 ELSE 2 * serial

LEMMA RankOrders ==
    ASSUME NEW m \in 1 .. Limit, NEW n \in 1 .. Limit
    PROVE  /\ Rank(m) \in Nat /\ Rank(m) <= 2 * Limit
           /\ SerialBefore(m, n) <=> Rank(m) < Rank(n)
           /\ m # n => Rank(m) # Rank(n)
<1> DEFINE tenth == Limit \div 10
<1>1. tenth \in Nat /\ tenth < Limit /\ Limit \in Nat /\ Limit > 1
  BY LimitAssumption
<1>2. /\ Rank(m) = IF m = Limit THEN 2 * tenth + 1 ELSE 2 * m
      /\ Rank(n) = IF n = Limit THEN 2 * tenth + 1 ELSE 2 * n
      /\ SerialBefore(m, n) <=>
            \/ m # Limit /\ n # Limit /\ m < n
            \/ m # Limit /\ n = Limit /\ m <= tenth
            \/ m = Limit /\ n # Limit /\ n > tenth
  BY DEF Rank, SerialBefore
<1> HIDE DEF tenth
<1> QED
  BY <1>1, <1>2

\* A set of numbers has a largest one: of those with the largest letter, the
\* one with the largest rank.
LEMMA HasLargest ==
    ASSUME NEW given \in SUBSET Numbers, given # {}
    PROVE  /\ Largest(given) \in given
           /\ \A b \in given \ {Largest(given)} : Before(b, Largest(given))
<1> DEFINE letters == [a \in given |-> a.letter]
<1>0. \A a \in given : /\ a \in Numbers /\ a.letter \in Nat /\ a.letter <= 25
                      /\ a.serial \in 1 .. Limit
  <2>1. ASSUME NEW a \in given PROVE a.letter \in Letters /\ a.serial \in 1 .. Limit
    BY DEF Numbers
  <2>2. \A l \in Letters : l \in Nat /\ l <= 25
    BY LettersAssumption
  <2> QED  BY <2>1, <2>2
<1>1. letters \in [given -> Nat] /\ \A a \in given : letters[a] <= 25
  BY <1>0
<1>2. PICK first \in given : \A b \in given : letters[b] <= letters[first]
  <2> HIDE DEF letters
  <2> QED  BY <1>1, HasGreatest
<1> DEFINE last  == { a \in given : a.letter = first.letter }
           ranks == [a \in last |-> Rank(a.serial)]
<1>3. ranks \in [last -> Nat] /\ \A a \in last : ranks[a] <= 2 * Limit
  BY RankOrders DEF Numbers
<1>4. last # {} /\ 2 * Limit \in Nat
  BY LimitAssumption
<1>5. PICK top \in last : \A b \in last : ranks[b] <= ranks[top]
  <2> HIDE DEF last, ranks
  <2> QED  BY <1>3, <1>4, HasGreatest
<1>6. ASSUME NEW b \in given \ {top} PROVE Before(b, top)
  <2>1. /\ b.letter \in Nat /\ top.letter \in Nat /\ b.letter <= top.letter
        /\ b.serial \in 1 .. Limit /\ top.serial \in 1 .. Limit
    <3>1. b \in given /\ top \in given /\ top.letter = first.letter
      OBVIOUS
    <3>2. letters[b] <= letters[first]
      BY <3>1, <1>2
    <3>3. letters[b] = b.letter /\ letters[first] = first.letter
      BY <3>1
    <3> QED  BY <3>1, <3>2, <3>3, <1>0
  <2>2. CASE b.letter # top.letter
    BY <2>1, <2>2 DEF Before
  <2>3. CASE b.letter = top.letter
    <3>1. b.serial # top.serial
      BY <2>3, Fields, Zenon
    <3>2. Rank(b.serial) <= Rank(top.serial)
      BY <1>5, <2>3
    <3>3. Rank(b.serial) < Rank(top.serial)
      BY <2>1, <3>1, <3>2, RankOrders
    <3>4. SerialBefore(b.serial, top.serial)
      BY <2>1, <3>3, RankOrders
    <3> QED
      BY <2>3, <3>4 DEF Before
  <2> QED  BY <2>2, <2>3
<1> HIDE DEF last
<1>7. \E a \in given : \A b \in given \ {a} : Before(b, a)
  BY <1>6 DEF last
<1> QED
  BY <1>7, Zenon DEF Largest

\* Whatever numbers were given, and whatever their letters, the next one is
\* well formed: its serial is from one to the limit
\* (generateUniqueTemporaryNumber).
THEOREM NextNumberIsTyped ==
    ASSUME NEW letter \in Letters, NEW given \in SUBSET Numbers
    PROVE  NextNumber(given, letter) \in Numbers
<1>1. NextSerial(given) \in 1 .. Limit
  <2>1. CASE given = {}
    BY <2>1, LimitAssumption DEF NextSerial
  <2>2. CASE given # {}
    <3> DEFINE s == Largest(given).serial
    <3>1. s \in Nat
      BY <2>2, HasLargest DEF Numbers
    <3>2. NextSerial(given) = (s % Limit) + 1
      BY <2>2 DEF NextSerial
    <3> HIDE DEF s
    <3>3. s % Limit \in 0 .. Limit - 1
      BY <3>1, LimitAssumption
    <3> QED
      BY <3>2, <3>3, LimitAssumption
  <2> QED  BY <2>1, <2>2
<1> QED
  BY <1>1 DEF NextNumber, Numbers

-----------------------------------------------------------------------------

\* The largest number as a string has the largest serial.
LEMMA LargestSerial ==
    ASSUME NEW letter \in Letters, NEW given \in SUBSET Numbers, given # {},
           \A a \in given : a.letter = letter /\ a.serial < Limit
    PROVE  /\ Largest(given) \in given
           /\ \A b \in given : b.serial <= Largest(given).serial
<1>1. /\ Largest(given) \in given
      /\ \A b \in given \ {Largest(given)} : Before(b, Largest(given))
  BY HasLargest, Zenon
<1>2. ASSUME NEW b \in given PROVE b.serial <= Largest(given).serial
  <2>1. CASE b = Largest(given)
    BY <2>1, LimitAssumption DEF Numbers
  <2>2. CASE b # Largest(given)
    <3>1. Before(b, Largest(given))
      BY <1>1, <2>2
    <3>2. b.serial < Largest(given).serial
      BY <1>1, <3>1, BelowLimit
    <3> QED
      BY <3>2, <1>1, LimitAssumption DEF Numbers
  <2> QED  BY <2>1, <2>2
<1> QED
  BY <1>1, <1>2

\* As long as all numbers have one classification and a serial below the
\* limit, the next number of that classification is one that was not given
\* (generateUniqueTemporaryNumber).
THEOREM NextNumberIsNew ==
    ASSUME NEW letter \in Letters, NEW given \in SUBSET Numbers,
           \A a \in given : a.letter = letter /\ a.serial < Limit
    PROVE  /\ NextNumber(given, letter) \in Numbers
           /\ NextNumber(given, letter) \notin given
<1>1. CASE given = {}
  BY <1>1, LimitAssumption DEF NextNumber, NextSerial, Numbers
<1>2. CASE given # {}
  <2> DEFINE top == Largest(given)
  <2>1. top \in given /\ \A b \in given : b.serial <= top.serial
    BY <1>2, LargestSerial
  <2>2. top.serial \in 1 .. Limit /\ top.serial < Limit
    BY <2>1 DEF Numbers
  <2>3. top.serial % Limit = top.serial
    <3> DEFINE s == top.serial
    <3>1. s \in Nat /\ s < Limit /\ Limit \in Nat /\ Limit > 0
      BY <2>2, LimitAssumption
    <3> HIDE DEF s
    <3>2. s % Limit = s
      BY <3>1
    <3> QED  BY <3>2 DEF s
  <2>4. NextSerial(given) = top.serial + 1
    BY <1>2, <2>3 DEF NextSerial
  <2> QED
    BY <2>1, <2>2, <2>4, LimitAssumption DEF NextNumber, Numbers
<1> QED
  BY <1>1, <1>2

=============================================================================
