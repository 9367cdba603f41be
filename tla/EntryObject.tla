----------------------------- MODULE EntryObject -----------------------------
(***************************************************************************)
(* An IFDEntry as a caller fills it: the Set methods in any order on an    *)
(* entry of any type the tag accepts, or of none yet.                      *)
(***************************************************************************)
EXTENDS TagGetters

CONSTANTS
    Ints,       \* lists of integers a caller sets, further ones are counted up
    Strings,    \* strings, as sequences of characters, some with a NUL
    SetTwice,   \* tags whose entry is set MaxSets times, the others once
    MaxSets

ASSUME ArgumentsAssumption == Ints \subseteq Seq(Int) /\ Strings \subseteq Seq(0 .. Base - 1)

VARIABLES
    hdr,        \* the header of the entry
    entry,      \* tag, type, count, offset, data
    given,      \* what the last call that the type lets through gave it: [kind, values]
    sets        \* calls so far

entryVars == <<hdr, entry, given, sets>>

NewEntry(tag, t) == [tag |-> Row(tag), type |-> t, count |-> 0, offset |-> 0, data |-> <<>>]

TagOf(e) == Getters[e.tag][1]

EntryInit ==
    /\ hdr \in [order : {"II", "MM"}, big : BOOLEAN]
    /\ \E tag \in Tags, t \in DataTypes \cup {"Nil"} :
          /\ t = "Nil" \/ Accepts(tag, t)
          /\ entry = NewEntry(tag, t)
    /\ given = [kind |-> "none", values |-> <<>>]
    /\ sets = 0

\* Lists as long as the tag asks for, and as a colour map has them.
Counted(n) == [i \in 1 .. n |-> i]
IntLists   == Ints \cup {Counted(n) : n \in {Nums(TagOf(entry)), 6}}

Pairs(vs) == [i \in DOMAIN vs |-> <<vs[i], i>>]

Half(n) == Power[n] \div 2

Letters(n) == [i \in 1 .. n |-> 1]

\* Types that the method of a kind fills.
Takes(kind) ==
    CASE kind = "ints"      -> IntTypes
      [] kind = "floats"    -> {"Float", "Double"}
      [] kind = "rationals" -> {"Rational", "SRational"}
      [] kind = "string"    -> {"ASCII"}
      [] kind = "undefined" -> {"Undefined"}

\* A call of a Set method: e is what it makes of the entry.
Set(kind, values, e) ==
    /\ sets < IF TagOf(entry) \in SetTwice THEN MaxSets ELSE 1
    /\ entry' = e
    /\ given' = IF entry.type \in Takes(kind) \cup {"Nil"}
                THEN [kind |-> kind, values |-> values] ELSE given
    /\ sets' = sets + 1
    /\ UNCHANGED hdr

CallSetInts == \E vs \in IntLists : Set("ints", vs, SetInts(hdr, entry, vs))

CallSetFloats ==
    \E vs \in {ints \in IntLists : \A i \in DOMAIN ints : Half(4) + ints[i] \in 0 .. 2 * Half(4) - 1} :
        Set("floats", vs, SetFloats(hdr, entry, vs))

CallSetRationals ==
    \E vs \in IntLists : Set("rationals", Pairs(vs), SetRationals(hdr, entry, Pairs(vs)))

CallSetString ==
    \E s \in Strings \cup {Letters(n) : n \in {Word(hdr) - 1, Word(hdr), 19}} :
        Set("string", s, SetString(entry, s))

CallSetUndefined ==
    \E s \in Strings : Set("undefined", s, SetUndefined(entry, s))

EntryNext == CallSetInts \/ CallSetFloats \/ CallSetRationals \/ CallSetString \/ CallSetUndefined

---------------------------------------------------------------------------
(* Properties.                                                             *)

\* The values that n bytes of a type hold; the 64-bit ones as far as an int64 goes, and BYTE and
\* SBYTE as far as the reader, which takes each for the other, agrees.
InRange(t, v, n) ==
    CASE t \in {"Short", "Long", "IFD", "Rational"} -> 0 <= v /\ v < Power[n]
      [] t \in {"Byte", "SByte"}                    -> 0 <= v /\ v < Half(n)
      [] OTHER                                      -> -Half(n) <= v /\ v < Half(n)

\* What was set is what is got: a value that fits comes back, one that does not by its low bytes.
Kept(got, vs, n) ==
    /\ Len(got) = Len(vs)
    /\ \A i \in DOMAIN vs : (got[i] - vs[i]) % Power[n] = 0 /\ (InRange(entry.type, vs[i], n) => got[i] = vs[i])

Firsts(fractions)  == [i \in DOMAIN fractions |-> fractions[i][1]]
Seconds(fractions) == [i \in DOMAIN fractions |-> fractions[i][2]]

\* SetInts and GetInts, SetFloats and GetFloats, SetRationals and GetRationals, SetString and
\* GetString, SetUndefined and GetUndefined are inverse, whatever was called before: a call that
\* is not for the entry's type changes nothing, a later one leaves nothing of an earlier one.
\* Excepted are the halves of BYTE and SBYTE whose signs GetInts swaps.
SetThenGet ==
    LET vs == given.values
        n  == IF given.kind = "rationals" THEN 4 ELSE ByteSize(entry.type)
    IN  CASE given.kind = "none"      -> entry.data = <<>> /\ entry.count = 0
          [] given.kind = "ints"      -> Kept(GetInts(hdr, entry), vs, n)
          [] given.kind = "floats"    -> Kept(Firsts(GetFloats(hdr, entry)), vs, n)
          [] given.kind = "rationals" -> /\ Kept(Firsts(GetRationals(hdr, entry)), Firsts(vs), n)
                                         /\ Kept(Seconds(GetRationals(hdr, entry)), Seconds(vs), n)
          [] given.kind = "string"    -> GetString(entry) = CutAtNul(vs)
          [] given.kind = "undefined" -> GetUndefined(entry, Len(vs)) = vs
=============================================================================
