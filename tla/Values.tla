------------------------------- MODULE Values -------------------------------
(***************************************************************************)
(* The checks scripts/testbed/config.py makes on one value of the          *)
(* configuration, whatever the field.  A value is what yaml.safe_load      *)
(* makes of it: its type, the number it stands for, its text without the   *)
(* white space around it, and its items.                                   *)
(*                                                                         *)
(* A check yields "ok" or the name of the exception it raises.  Comparing  *)
(* with a NaN is false, and float() overflows on a huge integer.           *)
(***************************************************************************)
EXTENDS Integers, Sequences

Value(type, num, text, items) ==
  [type |-> type, num |-> num, text |-> text, items |-> items]

Missing == Value("missing", 0, "", << >>)  \* the key is absent
Null    == Value("null", 0, "", << >>)
True    == Value("bool", 1, "", << >>)
False   == Value("bool", 0, "", << >>)
Map     == Value("map", 0, "", << >>)
Num(n)  == Value("int", n, "", << >>)
Huge    == Value("huge", 1000000, "", << >>)    \* an int beyond the largest float
Inf     == Value("inf", 1000000, "", << >>)     \* .inf
NegInf  == Value("inf", -1000000, "", << >>)    \* -.inf
NaN     == Value("nan", 0, "", << >>)      \* .nan
Str(t)  == Value("str", 0, t, << >>)
Padded(t) == Value("str", 1, t, << >>)     \* a string with blanks around t
List(items) == Value("list", 0, "", items)

\* What `v or {}' makes of a value.
Falsy(v) == v \in {Missing, Null, False, Num(0), Str(""), List(<< >>)}

AtMost(v, bound) == v.type # "nan" /\ v.num <= bound
Below(v, bound)  == v.type # "nan" /\ v.num < bound

Unless(condition, error) == IF condition THEN "ok" ELSE error

\* The first exception of a sequence of checks.
First(checks) ==
  LET bad == {k \in DOMAIN checks : checks[k] # "ok"}
  IN  IF bad = {} THEN "ok"
      ELSE checks[CHOOSE k \in bad : \A j \in bad : k <= j]

RequireString(v) == Unless(v.type = "str" /\ v.text # "", "ConfigError")
RequireBool(v)   == Unless(v.type = "bool", "ConfigError")

\* float(_require_number(value)): bool is an int of Python, and refused.
RequireNumber(v) ==
  IF v.type = "huge" THEN "OverflowError"
  ELSE Unless(v.type \in {"int", "inf", "nan"}, "ConfigError")

PositiveFloat(v) ==
  First(<<RequireNumber(v), Unless(~AtMost(v, 0), "ConfigError")>>)

NonNegativeFloat(v) ==
  First(<<RequireNumber(v), Unless(~Below(v, 0), "ConfigError")>>)

PositiveInt(v) ==
  Unless(v.type \in {"int", "huge"} /\ v.num > 0, "ConfigError")
=============================================================================
