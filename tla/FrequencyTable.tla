--------------------------- MODULE FrequencyTable ---------------------------
(***************************************************************************)
(* How cpu_manager_init cuts the text of scaling_available_frequencies     *)
(* into levels (cpu_manager.c, 179-205).  The text is a sequence of tokens *)
(* and a level is the place in it where a string begins; each separator    *)
(* that the loop meets is overwritten with the end of a string.            *)
(***************************************************************************)
EXTENDS Integers, Sequences

CONSTANT Available   \* the text: frequencies, Space and Newline

Space   == -1
Newline == -2

ASSUME TextAssumption == Available \in Seq(Int)

Separator(token) == token \in {Space, Newline}

\* What follows the last token is the end of the string.
Ends(j) == j > Len(Available) \/ Available[j] = Newline

\* Mutant: a separator at the end of the text begins a level too.
LevelsFromAny[j \in 1 .. Len(Available) + 2] ==
  IF j > Len(Available) THEN <<>>
  ELSE IF ~Separator(Available[j]) THEN LevelsFromAny[j + 1]
  ELSE <<j + 1>> \o LevelsFromAny[j + 2]

AnyLevels == <<1>> \o LevelsFromAny[1]

\* The levels that the loop finds from token j on.  After a separator it looks
\* at one token more: the end of the text ends the loop, anything else begins a
\* level, and its first character is skipped.
LevelsFrom[j \in 1 .. Len(Available) + 2] ==
  IF j > Len(Available) THEN <<>>
  ELSE IF ~Separator(Available[j]) THEN LevelsFrom[j + 1]
  ELSE IF Ends(j + 1) THEN <<>>
  ELSE <<j + 1>> \o LevelsFrom[j + 2]

\* manager.freq[i]
freq == <<1>> \o LevelsFrom[1]

\* manager.nb_freq[i]
nb_freq == Len(freq)

\* The frequency whose string begins at a level.
Frequency(level) == Available[freq[level]]

\* All frequencies of the text, however the code cuts it.
Frequencies == {Available[j] : j \in {k \in DOMAIN Available : ~Separator(Available[k])}}

\* The text as the kernel writes it: n frequencies, the highest first, a space
\* behind each and a line's end behind all.
Lists(n) ==
  /\ Len(Available) = 2 * n + 1 /\ Available[2 * n + 1] = Newline
  /\ \A k \in 1 .. n : Available[2 * k] = Space /\ Available[2 * k - 1] \in Nat
  /\ \A j, k \in 1 .. n : j < k => Available[2 * k - 1] < Available[2 * j - 1]

HighestFirst == \E n \in 1 .. Len(Available) : Lists(n)
=============================================================================
