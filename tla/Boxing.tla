-------------------------------- MODULE Boxing --------------------------------
(***************************************************************************)
(* The two representations of a value (src/include/value.h): a record with *)
(* a tag, and, with NAN_BOXING, the 64 bits of a double where some NaNs    *)
(* stand for nil, booleans and objects.                                    *)
(*                                                                         *)
(* Bits are a set of places.  The exponent is all ones or not, which is    *)
(* one bit here; of the lower bits, those that tags use and one other.     *)
(***************************************************************************)
EXTENDS Integers, Sequences, SequencesExt

CONSTANT PairsMax  \* bound: values on the stack

VARIABLE pairs     \* values in use, each in both representations: [tagged, bits]

Sign == 63  Exponent == 62  Quiet == 51  Indef == 50  High == 40  Tag == 4  Low == 0
Mantissa == {Quiet, Indef, High, Tag, Low}

-------------------------------------------------------------------------------
(* Doubles: what the machine of the interpreter makes of bits.             *)

Double == SUBSET ({Sign, Exponent} \cup Mantissa)
IsNaN(x)  == Exponent \in x /\ x \cap Mantissa # {}
IsZero(x) == x \subseteq {Sign}
SameDouble(x, y) == ~IsNaN(x) /\ ~IsNaN(y) /\ (x = y \/ (IsZero(x) /\ IsZero(y)))

(* The one NaN that arithmetic makes (0 / 0), with either sign.            *)
Arithmetic == {x \in Double : IsNaN(x) => x \ {Sign} = {Exponent, Quiet}}

(* Addresses: the sign and what is above the 48th bit are not set, and     *)
(* objects are aligned.                                                    *)
Address == SUBSET {High, Tag}

-------------------------------------------------------------------------------
(* Boxes.                                                                  *)

(* Mutant: every quiet NaN is taken.                                       *)
QNANQuiet == {Exponent, Quiet}

QNAN == {Exponent, Quiet, Indef}

TagNil  == {Low}
TagBool == {Tag}
TagObj  == {Sign}

NilBits       == QNAN \cup TagNil
BoolBits(b)   == QNAN \cup TagBool \cup (IF b THEN {Low} ELSE {})
ObjBits(addr) == TagObj \cup QNAN \cup addr

BoxIsNumber(v) == ~(QNAN \subseteq v)
BoxIsNil(v)    == v = NilBits
BoxIsObj(v)    == (TagObj \cup QNAN) \subseteq v
BoxIsBool(v)   == ~(TagObj \subseteq v) /\ (TagBool \cup QNAN) \subseteq v
BoxAsBool(v)   == (QNAN \cup TagBool \cup {Low}) \subseteq v
BoxAsObj(v)    == v \ (TagObj \cup QNAN)

(* value_equal with boxes.  Strings are interned, so that object_equal     *)
(* compares addresses.                                                     *)
BoxEqual(v, w) ==
  IF BoxIsNumber(v) /\ BoxIsNumber(w) THEN SameDouble(v, w)
  ELSE IF BoxIsObj(v) /\ BoxIsObj(w) THEN BoxAsObj(v) = BoxAsObj(w)
  ELSE v = w

BoxFalsey(v) == BoxIsNil(v) \/ (BoxIsBool(v) /\ ~BoxAsBool(v))

-------------------------------------------------------------------------------
(* Tagged records, in which the type is apart from the content.            *)

NilValue       == [type |-> "nil", as |-> {}]
BoolValue(b)   == [type |-> "bool", as |-> IF b THEN {Low} ELSE {}]
NumberValue(x) == [type |-> "number", as |-> x]
ObjValue(addr) == [type |-> "obj", as |-> addr]

Equal(v, w) ==
  /\ v.type = w.type
  /\ IF v.type = "number" THEN SameDouble(v.as, w.as) ELSE v.as = w.as

Falsey(v) == v.type = "nil" \/ v = BoolValue(FALSE)

-------------------------------------------------------------------------------
NilPair       == [tagged |-> NilValue, bits |-> NilBits]
BoolPair(b)   == [tagged |-> BoolValue(b), bits |-> BoolBits(b)]
NumberPair(x) == [tagged |-> NumberValue(x), bits |-> x]
ObjPair(addr) == [tagged |-> ObjValue(addr), bits |-> ObjBits(addr)]

Pairs == {NilPair} \cup {BoolPair(b) : b \in BOOLEAN} \cup {NumberPair(x) : x \in Arithmetic}
           \cup {ObjPair(addr) : addr \in Address}

(* A result: what each representation gives.                               *)
Result(tagged, boxed) == [tagged |-> BoolValue(tagged), bits |-> BoolBits(boxed)]

PushPair == Len(pairs) < PairsMax /\ \E v \in Pairs : pairs' = Append(pairs, v)
PopPair  == pairs # <<>> /\ pairs' = Front(pairs)

OpEqual ==
  /\ Len(pairs) >= 2
  /\ LET x == Last(pairs)
         y == Last(Front(pairs))
     IN pairs' = Append(Front(Front(pairs)),
                        Result(Equal(x.tagged, y.tagged), BoxEqual(x.bits, y.bits)))

OpNot ==
  /\ pairs # <<>>
  /\ pairs' = Append(Front(pairs), Result(Falsey(Last(pairs).tagged), BoxFalsey(Last(pairs).bits)))

BoxingInit == pairs = <<>>
BoxingNext == PushPair \/ PopPair \/ OpEqual \/ OpNot
BoxingSpec == BoxingInit /\ [][BoxingNext]_pairs

-------------------------------------------------------------------------------
(* A boxed value is of the type that the tag says, and of no other, its    *)
(* content comes back, and comparisons give what they give with tags: no   *)
(* number a program computes is taken for nil, a boolean or an object.     *)
BoxedAsTagged ==
  \A i \in DOMAIN pairs :
    LET t == pairs[i].tagged
        b == pairs[i].bits
    IN /\ BoxIsNumber(b) = (t.type = "number") /\ BoxIsNil(b) = (t.type = "nil")
       /\ BoxIsBool(b) = (t.type = "bool")     /\ BoxIsObj(b) = (t.type = "obj")
       /\ t.type = "bool" => t = BoolValue(BoxAsBool(b))
       /\ t.type = "obj" => t.as = BoxAsObj(b)
       /\ t.type = "number" => t.as = b
================================================================================
