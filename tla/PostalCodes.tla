---------------------------- MODULE PostalCodes ----------------------------
(***************************************************************************)
(* Postal codes as text (api/pkg/atlas/postal.go).  The seed loader, the   *)
(* store and the lookup handler each normalize a code again.               *)
(*                                                                         *)
(* A character is a number: a digit is its value, upper case letters are   *)
(* 11 to 36, lower case letters 61 to 86.  Each is one byte.               *)
(***************************************************************************)
EXTENDS Naturals, Sequences, SequencesExt

\* One turn of a loop that collects the elements of s at the positions in keep.
pickStep(s, keep, st) ==
    [next |-> st.next + 1,
     out  |-> IF st.next \in keep THEN Append(st.out, s[st.next]) ELSE st.out]

\* Those elements, in order.
Picked(s, keep) ==
    LET Pick[st \in [next : 1 .. Len(s) + 1, out : Seq(Range(s))]] ==
            IF st.next > Len(s) THEN st.out ELSE Pick[pickStep(s, keep, st)]
    IN  Pick[[next |-> 1, out |-> <<>>]]

Space  == 90
Tab    == 91
Hyphen == 92

isDigit(c)  == c \in 0 .. 9
isLetter(c) == c \in 11 .. 36
ToUpper(c)  == IF c \in 61 .. 86 THEN c - 50 ELSE c

AllDigits(s) == \A i \in DOMAIN s : isDigit(s[i])

TrimSpace(s) ==
    LET kept == {i \in DOMAIN s : s[i] \notin {Space, Tab}}
    IN  IF kept = {} THEN <<>> ELSE SubSeq(s, Min(kept), Max(kept))

\* strings.ReplaceAll of a character by nothing.
Without(s, c) == Picked(s, {i \in DOMAIN s : s[i] # c})

\* NNNNN-NNNN or nine digits.
zipFromZIP4(s) ==
    \/ Len(s) = 10 /\ s[6] = Hyphen /\ AllDigits(SubSeq(s, 1, 5) \o SubSeq(s, 7, 10))
    \/ Len(s) = 9 /\ AllDigits(s)

\* Only blanks are removed from the inside.
Cleaned(raw) ==
    LET kept == Without(TrimSpace(raw), Space)
    IN  [i \in DOMAIN kept |-> ToUpper(kept[i])]

\* The UK's inward code is cut from anything longer than an outward code.
NormalizePostalCode(country, raw) ==
    LET s == Cleaned(raw)
    IN  CASE country = "US" -> IF zipFromZIP4(s) THEN SubSeq(s, 1, 5) ELSE s
          [] country = "CA" -> IF Len(s) > 3 THEN SubSeq(s, 1, 3) ELSE s
          [] country = "UK" -> IF Len(s) > 4 THEN SubSeq(s, 1, Len(s) - 3) ELSE s
          [] country = "PT" -> Without(s, Hyphen)
          [] OTHER -> s

\* How many digits a code has, where it is digits only.
DigitCount == [US |-> 5, DE |-> 5, FR |-> 5, MX |-> 5, AU |-> 4, PT |-> 7]

ValidatePostalCode(country, code) ==
    CASE country \in DOMAIN DigitCount -> Len(code) = DigitCount[country] /\ AllDigits(code)
      [] country = "CA" -> Len(code) = 3 /\ isLetter(code[1]) /\ isDigit(code[2]) /\ isLetter(code[3])
      [] country = "UK" -> Len(code) \in 2 .. 4
      [] OTHER -> TRUE

\* 090 to 098, 340, and 962 to 966.
IsMilitaryPostalCode(country, code) ==
    /\ country = "US" /\ Len(code) = 5 /\ AllDigits(code)
    /\ 100 * code[1] + 10 * code[2] + code[3] \in (90 .. 98) \cup {340} \cup (962 .. 966)

postalKey(country, code) == <<country, NormalizePostalCode(country, code)>>

\* Mutant: a code of any shape is taken.
parsePostalRecordAny(row) ==
    /\ row.country = row.file
    /\ NormalizePostalCode(row.country, row.text) # <<>>

\* A row of a country's file is accepted: right country, a code of its shape.
parsePostalRecord(row) ==
    LET code == NormalizePostalCode(row.country, row.text)
    IN  /\ row.country = row.file
        /\ code # <<>> /\ ValidatePostalCode(row.country, code)

=============================================================================
