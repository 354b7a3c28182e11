------------------------------- MODULE Sizes -------------------------------
(***************************************************************************)
(* The loose coercion helpers of main.go (toInt, toString, toNumberString, *)
(* formatSize, parseSizeGB) over the values encoding/json decodes a       *)
(* payload field into.  A value is a tagged record: a JSON number (always *)
(* float64), a string, or anything else (a missing key reads as nil, a    *)
(* JSON true as bool).  Only what the helpers tell apart is kept: a       *)
(* number is its value in tenths; a string is a numeric part (or NoNum)   *)
(* and a unit suffix, so "20GiB" is Str(200, "GiB") and "" is EmptyStr.   *)
(* Leading and trailing blanks are left out.                              *)
(***************************************************************************)
EXTENDS Integers

CONSTANT NoNum      \* the string has no numeric part

Units == {"", "G", "g", "GB", "gb", "GiB"}

Num(n) == [t |-> "num", n |-> n, u |-> ""]
Str(n, u) == [t |-> "str", n |-> n, u |-> u]
Nil == [t |-> "nil", n |-> NoNum, u |-> ""]
EmptyStr == Str(NoNum, "")
SizeValue == [t: {"num", "str", "nil"}, n: Int \cup {NoNum}, u: Units]

\* strings.ToLower of a unit suffix.
Lower(u) == CASE u = "G" -> "g" [] u = "GB" -> "gb" [] u = "GiB" -> "gib"
              [] OTHER -> u

\* TrimSuffix(s, "gb") and then TrimSuffix(s, "g") on the lower-cased unit.
TrimUnit(u) ==
    LET l == Lower(u)
        a == IF l = "gb" THEN "" ELSE l
    IN  IF a = "g" THEN "" ELSE a

\* toInt: [ok, v].  A number or a string that ParseFloat accepts after the
\* unit is trimmed must be positive; the result is floored.
ToInt(v) ==
    LET ok == CASE v.t = "num" -> v.n # NoNum /\ v.n > 0
                [] v.t = "str" -> v.n # NoNum /\ TrimUnit(v.u) = "" /\ v.n > 0
                [] OTHER       -> FALSE
    IN  [ok |-> ok, v |-> IF ok THEN v.n \div 10 ELSE 0]

\* Mutant: the float64 case is missing (JSON numbers format as "").
ToStr_NoFloat(v) ==
    IF v.t = "str" THEN v ELSE EmptyStr

\* toString (ToStr: TLC defines a ToString): a string as it is, a number formatted "%gG", anything else "".
ToStr(v) ==
    CASE v.t = "str" -> v
      [] v.t = "num" -> Str(v.n, "G")
      [] OTHER       -> EmptyStr

\* toNumberString: a string as it is, a number formatted "%g".
ToNumberString(v) ==
    CASE v.t = "str" -> v
      [] v.t = "num" -> Str(v.n, "")
      [] OTHER       -> EmptyStr

\* formatSize: the first argument whose toString is not empty.
FormatSize(a, b, c) ==
    IF ToStr(a) # EmptyStr THEN ToStr(a)
    ELSE IF ToStr(b) # EmptyStr THEN ToStr(b)
    ELSE ToStr(c)

\* parseSizeGB: the first argument toInt accepts, else 0.
ParseSizeGB(a, b) ==
    IF ToInt(a).ok THEN ToInt(a).v ELSE ToInt(b).v

=============================================================================
