-------------------------- MODULE SimpleSetParser --------------------------
(***************************************************************************)
(* parse_simple_set of sysfs.c: reads the list of cpus that a file of the  *)
(* kernel holds, one character per turn of its loop.                       *)
(*                                                                         *)
(* A character is a digit, by its value, or of one of four other kinds.    *)
(* Numbers keep within an int.  A file that cannot be opened is one with   *)
(* no characters: read fails on it as it ends on an empty file.            *)
(***************************************************************************)
EXTENDS Integers, SequencesExt, FiniteSetsExt

CONSTANTS
  Sets,    \* sets of cpus that the kernel lists in a file
  Texts    \* other contents of a file

Comma == 10
Dash  == 11
End   == 12    \* newline or NUL
Other == 13

Digits     == 0 .. 9
Separators == {Comma, End}
Characters == Digits \cup {Comma, Dash, End, Other}

Largest == 99   \* bound: the greatest number of a cpu

ASSUME SetsAssumption == \A S \in Sets : S # {} /\ S \subseteq 0 .. Largest
ASSUME TextsAssumption == Texts \subseteq Seq(Characters)

Ascending(S) == [k \in 1 .. Cardinality(S) |->
                   CHOOSE n \in S : Cardinality({m \in S : m <= n}) = k]

Decimal(n) == IF n < 10 THEN <<n>> ELSE <<n \div 10, n % 10>>

\* What stands behind a number that ends a range.
Closing(S, n) == IF n + 1 \in S THEN <<>>
                ELSE IF \E m \in S : n < m THEN <<Comma>> ELSE <<End>>

\* The kernel lists ranges, each as long as it can be: of a cpu it writes what
\* tells that a range begins or ends there.
Piece(S, n) ==
  IF n \notin S THEN <<>>
  ELSE IF n - 1 \notin S THEN Decimal(n) \o Closing(S, n)
  ELSE IF n + 1 \notin S THEN (<<Dash>> \o Decimal(n)) \o Closing(S, n)
  ELSE <<>>

TextFrom(S) ==
  LET from[n \in 0 .. Largest + 1] ==
        IF n > Largest THEN <<>> ELSE Piece(S, n) \o from[n + 1]
  IN  from

Listing == [S \in Sets |-> TextFrom(S)[0]]

VARIABLES
  text,     \* what the file holds
  pos,      \* how much of it was read
  state,    \* of the parser
  value,    \* the number being read
  min,      \* the number before the dash
  member,   \* set.member, set.size of them
  held,     \* whether set.member is not NULL
  result    \* "reading", "read" or "aborted"

vars == <<text, pos, state, value, min, member, held, result>>

Unset == -1

Init ==
  /\ text \in {Listing[S] : S \in Sets} \cup Texts
  /\ pos = 0
  /\ state = "BEGIN_NUMBER"
  /\ value = Unset /\ min = Unset
  /\ member = <<>> /\ held = FALSE
  /\ result = "reading"

-----------------------------------------------------------------------------
(* One turn of the loop.                                                    *)

car == text[pos + 1]

Turn(here) ==
  /\ result = "reading"
  /\ pos < Len(text)
  /\ state = here
  /\ pos' = pos + 1
  /\ UNCHANGED text

ParsingError ==
  /\ result' = "aborted"
  /\ UNCHANGED <<state, value, min, member, held>>

\* The first digit of a number.
FirstDigit(next) ==
  /\ car \in Digits
  /\ value' = car
  /\ state' = next
  /\ UNCHANGED <<min, member, held, result>>

\* Mutant: the digits before are lost.
NextDigitAlone ==
  /\ car \in Digits
  /\ value' = car
  /\ UNCHANGED <<state, min, member, held, result>>

\* One more digit.
NextDigit ==
  /\ car \in Digits
  /\ value' = value * 10 + car
  /\ UNCHANGED <<state, min, member, held, result>>

\* Only a digit may follow: the test for the end of the input comes after one
\* that no such character passes.
BeginNumber ==
  /\ Turn("BEGIN_NUMBER")
  /\ \/ FirstDigit("NUMBER")
     \/ car \notin Digits /\ ParsingError

\* Mutant: the lower end of the interval is not kept.
NumberLost ==
  /\ Turn("NUMBER")
  /\ \/ NextDigit
     \/ /\ car \in Separators
        /\ member' = Append(member, value)
        /\ held' = TRUE
        /\ state' = "BEGIN_NUMBER"
        /\ UNCHANGED <<value, min, result>>
     \/ car = Dash /\ state' = "BEGIN_INTERVAL"
        /\ UNCHANGED <<value, min, member, held, result>>
     \/ car = Other /\ ParsingError

Number ==
  /\ Turn("NUMBER")
  /\ \/ NextDigit
     \/ /\ car \in Separators
        /\ member' = Append(member, value)
        /\ held' = TRUE
        /\ state' = "BEGIN_NUMBER"
        /\ UNCHANGED <<value, min, result>>
     \/ /\ car = Dash
        /\ min' = value
        /\ state' = "BEGIN_INTERVAL"
        /\ UNCHANGED <<value, member, held, result>>
     \/ car = Other /\ ParsingError

BeginInterval ==
  /\ Turn("BEGIN_INTERVAL")
  /\ \/ FirstDigit("INTERVAL")
     \/ car \notin Digits /\ ParsingError

\* Mutant: for(i = min; i < max; i++), with room for as many.
AddIntervalShort(max) ==
  /\ member' = member \o [k \in 1 .. max - min |-> min + k - 1]
  /\ held' = TRUE
  /\ state' = "BEGIN_NUMBER"
  /\ UNCHANGED <<value, min, result>>

\* set.size grows by max - min + 1, which is not looked at.  realloc gives no
\* memory for a negative size, and none for 0 to a set that has some.
AddInterval(max) ==
  LET size == Len(member) + max - min + 1
  IN  IF size < 0 \/ (size = 0 /\ held)
      THEN ParsingError
      ELSE /\ member' = IF min <= max
                        THEN member \o [k \in 1 .. max - min + 1 |-> min + k - 1]
                        ELSE SubSeq(member, 1, size)
           /\ held' = TRUE
           /\ state' = "BEGIN_NUMBER"
           /\ UNCHANGED <<value, min, result>>

\* Mutant: the branch for a dash is the one of a number.
IntervalAgain ==
  /\ Turn("INTERVAL")
  /\ \/ NextDigit
     \/ car \in Separators /\ AddInterval(value)
     \/ /\ car = Dash
        /\ min' = value
        /\ state' = "BEGIN_INTERVAL"
        /\ UNCHANGED <<value, member, held, result>>
     \/ car = Other /\ ParsingError

Interval ==
  /\ Turn("INTERVAL")
  /\ \/ NextDigit
     \/ car \in Separators /\ AddInterval(value)
     \/ car \in {Dash, Other} /\ ParsingError

\* read returns 0: what was read of a number that nothing ended is dropped.
EndOfFile ==
  /\ result = "reading"
  /\ pos = Len(text)
  /\ result' = "read"
  /\ UNCHANGED <<text, pos, state, value, min, member, held>>

Stopped ==
  /\ result # "reading"
  /\ UNCHANGED vars

Next == BeginNumber \/ Number \/ BeginInterval \/ Interval \/ EndOfFile \/ Stopped

Spec == Init /\ [][Next]_vars

-----------------------------------------------------------------------------
(* Properties.                                                              *)

\* Every variable keeps its type, and no number is used before it was read.
TypeOK ==
  /\ text \in Seq(Characters)
  /\ pos \in 0 .. Len(text)
  /\ state \in {"BEGIN_NUMBER", "NUMBER", "BEGIN_INTERVAL", "INTERVAL"}
  /\ value \in Nat \cup {Unset}
  /\ min \in Nat \cup {Unset}
  /\ state # "BEGIN_NUMBER" => value # Unset
  /\ state \in {"BEGIN_INTERVAL", "INTERVAL"} => min # Unset
  /\ member \in Seq(Nat)
  /\ held \in BOOLEAN
  /\ member # <<>> => held
  /\ result \in {"reading", "read", "aborted"}

\* What the kernel lists is read as what it means, in ascending order: the
\* platform takes a cpu's position in it for its number.
ListRead ==
  result # "reading" =>
    \A S \in Sets : text = Listing[S] =>
      result = "read" /\ member = Ascending(S)

\* The character at position k may follow those before it: every number has a
\* digit, and of two dashes the second begins after a separator.
Fits(k) ==
  /\ text[k] # Other
  /\ text[k] \notin Digits => k > 1 /\ text[k - 1] \in Digits
  /\ text[k] = Dash =>
       \A j \in 1 .. k - 1 :
         text[j] = Dash => \E m \in j .. k : text[m] \in Separators

\* The input ends at position k, where a number would begin.
EndsNothing(k) == text[k] = End /\ (k = 1 \/ text[k - 1] \in Separators)

\* A text is refused at the first character that does not fit, or after an
\* interval that ends below its start, and nowhere else.  (The code is of two
\* minds about an end where a number would begin; here it may go either way.)
RefusedAtFault ==
  /\ result = "read" => \A k \in 1 .. Len(text) : Fits(k) \/ EndsNothing(k)
  /\ result = "aborted" => ~Fits(pos) \/ value < min

\* "End of input, do nothing" (sysfs.c 82): an end of the input where a number
\* would begin is no error.
EndOfInputAccepted == result = "aborted" => ~EndsNothing(pos)

\* The parts of the text that a separator ends, as their first and last
\* positions.
Parts ==
  {p \in (1 .. Len(text)) \X (1 .. Len(text)) :
     /\ p[1] <= p[2] /\ p[2] < Len(text)
     /\ p[1] = 1 \/ text[p[1] - 1] \in Separators
     /\ text[p[2] + 1] \in Separators
     /\ \A k \in p[1] .. p[2] : text[k] \notin Separators}

Dashes(p) == {k \in p[1] .. p[2] : text[k] = Dash}

\* The number whose digits end at position k.
NumberAt[k \in 0 .. Len(text)] ==
  IF k = 0 \/ text[k] \notin Digits THEN 0 ELSE 10 * NumberAt[k - 1] + text[k]

\* The lower end of a part ends before its dash, the upper end with the part.
Low(p)  == NumberAt[Min(Dashes(p) \cup {p[2] + 1}) - 1]
High(p) == NumberAt[p[2]]

\* Of numbers and ascending intervals none is missed and none made up, but for
\* one that the text breaks off in.
NumbersRead ==
  result = "read" /\ (\A p \in Parts : Low(p) <= High(p)) =>
    Range(member) = UNION {Low(p) .. High(p) : p \in Parts}
=============================================================================
