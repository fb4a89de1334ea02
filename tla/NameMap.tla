------------------------------- MODULE NameMap -------------------------------
(***************************************************************************)
(* Prog5: the file NAME_MAP, in which ~Drive writes each name and its      *)
(* inode number as two words and from which Drive reads two words at a     *)
(* time.  A file is the sequence of its words.                             *)
(***************************************************************************)
EXTENDS Integers, Sequences

SeqsExt == INSTANCE SequencesExt

CONSTANTS
  NameOrder,    \* every name a file can have, in the order of std::map
  Numerals      \* how inode numbers are spelt: Numerals[i + 1] spells i

(* Names are words, and two numbers are not spelt alike.                   *)
ASSUME NameAssumption ==
  /\ NameOrder \in Seq(STRING)
  /\ \A i, j \in DOMAIN Numerals : Numerals[i] = Numerals[j] => i = j

Names == {NameOrder[k] : k \in DOMAIN NameOrder}

Spelling(ino) == Numerals[ino + 1]
IsNumeral(word) == \E k \in DOMAIN Numerals : Numerals[k] = word
NumberOf(word)  == (CHOOSE k \in DOMAIN Numerals : Numerals[k] = word) - 1

(* A line is a name, a blank and a number; the empty name is no word.      *)
LineOf(nm, n) ==
  IF n \notin DOMAIN nm THEN << >>
  ELSE IF n = "" THEN <<Spelling(nm[n])>> ELSE <<n, Spelling(nm[n])>>

SavedNames(nm) ==
  SeqsExt!FlattenSeq([k \in DOMAIN NameOrder |-> LineOf(nm, NameOrder[k])])

(* The loop reaches the end of the file before it has turned once for each *)
(* inode, and where it wants a number it finds one.                        *)
NamesLoad(words) ==
  /\ Len(words) \div 2 < Len(Numerals)
  /\ \A k \in DOMAIN words : k % 2 = 0 => IsNumeral(words[k])

(* A read that meets the end leaves its variable as the turn before left   *)
(* it, or as it was at first, and the pair is inserted even so.            *)
LoadedNames(words) ==
  LET at == {k \in DOMAIN words : k % 2 = 1}
      numberAfter(k) == IF k + 1 <= Len(words) THEN NumberOf(words[k + 1])
                        ELSE IF k = 1 THEN 0 ELSE NumberOf(words[k - 1])
      first(n) == CHOOSE k \in at :
                    words[k] = n /\ \A j \in at : words[j] = n => k <= j
  IN IF words = << >> THEN [n \in {""} |-> 0]
     ELSE [n \in {words[k] : k \in at} |-> numberAfter(first(n))]

=============================================================================
