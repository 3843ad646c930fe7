-------------------------------- MODULE Values --------------------------------
(***************************************************************************)
(* The values of a rayscript program and the operators on them: the        *)
(* __equals, __add, __sub, __mul and __div slots of the type objects.      *)
(*                                                                         *)
(* A value is a record: t is its type, v what tells it from the others of  *)
(* its type.  Numbers keep their integral part only; strings exist only as *)
(* names in a constant list.                                               *)
(***************************************************************************)
EXTENDS Integers, Sequences

CONSTANTS
    NilReads,  \* what number_equals reads as the number of the nil object
    FarReads   \* the same for any other object that is not a number

INT(n)  == [t |-> "int",  v |-> n]
DBL(n)  == [t |-> "dbl",  v |-> n]
BOOL(p) == [t |-> "bool", v |-> IF p THEN 1 ELSE 0]
NIL     == [t |-> "nil",  v |-> 0]
FN(k)   == [t |-> "fn",   v |-> k]      \* the k-th function object made
STR(n)  == [t |-> "str",  v |-> n]
UNSET   == [t |-> "unset", v |-> 0]     \* a NULL pointer in a map

Same(a, b) == a.t = b.t /\ a.v = b.v
IsNumber(a) == a.t \in {"int", "dbl"}

\* NUMBER_OBJ_AS_NUMBER of any object: number_equals does not look at the type
\* of its second operand, and reads past the end of one that is no number.
AsNumber(a) ==
    CASE IsNumber(a)  -> a.v
      [] a.t = "nil"  -> NilReads
      [] OTHER        -> FarReads

\* The comparison flags of object.h, the two FEATURE bits left out: every
\* OBJ_xx test is decided by the bit of its own relation.
CMP_RELATIONAL_EQ == {"EQ", "LE", "GE"}
CMP_LT == {"NE", "LT", "LE"}
CMP_GT == {"NE", "GT", "GE"}
CMP_NOT_RELATIONAL_EQ == {"EQ"}
CMP_NOT_RELATIONAL_NE == {"NE"}

NumberEquals(a, b) ==
    CASE AsNumber(a) = AsNumber(b) -> CMP_RELATIONAL_EQ
      [] AsNumber(a) > AsNumber(b) -> CMP_GT
      [] AsNumber(a) < AsNumber(b) -> CMP_LT

\* string_object_equals (on the names of a constant list) and default_equals.
SameEquals(a, b) ==
    IF Same(a, b)
    THEN IF a.t = "str" THEN CMP_RELATIONAL_EQ ELSE CMP_NOT_RELATIONAL_EQ
    ELSE CMP_NOT_RELATIONAL_NE

\* OBJ_EQ, OBJ_NE, OBJ_LT, ...: the first operand's type decides.
Compare(rel, a, b) ==
    rel \in IF IsNumber(a) THEN NumberEquals(a, b) ELSE SameEquals(a, b)

\* (long)(a / b) on doubles: towards zero.
Quotient(a, b) ==
    LET Abs(n) == IF n < 0 THEN -n ELSE n
        q == Abs(a) \div Abs(b)
    IN  IF (a < 0) = (b < 0) THEN q ELSE -q

\* number_add, number_sub, number_mul, number_div and default_bin_op: nil when
\* an operand is no number, a long when both are longs.  A quotient that is
\* not a long is outside the numbers kept here.
Arith(op, a, b) ==
    IF ~(IsNumber(a) /\ IsNumber(b)) THEN NIL
    ELSE [t |-> IF a.t = "int" /\ b.t = "int" THEN "int" ELSE "dbl",
          v |-> CASE op = "ADD" -> a.v + b.v
                  [] op = "SUB" -> a.v - b.v
                  [] op = "MUL" -> a.v * b.v
                  [] op = "DIV" /\ a.t = "int" /\ b.t = "int" ->
                       Quotient(a.v, b.v)]
=============================================================================
