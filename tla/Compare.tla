------------------------------ MODULE Compare ------------------------------
(***************************************************************************)
(* Filter comparisons, zx/compare.go: Comparison(op, literal) builds a     *)
(* Predicate over a typed zng.Value, coercing between the numeric types;   *)
(* Contains lifts a predicate to the "in" test over a set or array.  A     *)
(* Go closure is modelled as an operator taking the value.  Integers keep  *)
(* their width (int64 as Width bits, so uint64-to-int64 casts and the     *)
(* seconds-to-nanoseconds multiply wrap); floats hold integral values and *)
(* are compared exactly; an IP address is AddrBits bits; a string is a    *)
(* sequence of byte codes; a regular expression is the set of strings it  *)
(* matches.                                                                *)
(***************************************************************************)
EXTENDS Integers, Sequences

SX == INSTANCE SequencesExt

CONSTANTS
    Width,      \* bits of an int64 / uint64
    Scale,      \* nanoseconds per second (1e9)
    AddrBits,   \* bits of an IP address
    MaxPort,    \* ports range over 0..MaxPort
    Bytes,      \* the byte codes strings are made of
    MaxStrLen,  \* strings have at most this many bytes
    MaxElems    \* containers have at most this many elements

ASSUME Width \in Nat \ {0} /\ Scale \in Nat \ {0} /\ AddrBits \in Nat

IntVals  == -(2^(Width - 1))..(2^(Width - 1) - 1)
UintVals == 0..(2^Width - 1)
Addrs    == 0..(2^AddrBits - 1)
Strings  == UNION {[1..n -> Bytes] : n \in 0..MaxStrLen}

(* int64(u) for a uint64 u: two's complement reinterpretation.             *)
ToInt64(u) == IF u >= 2^(Width - 1) THEN u - 2^Width ELSE u

(* int64 multiplication wraps modulo 2^Width.                              *)
Wrap(x) == ((x + 2^(Width - 1)) % 2^Width) - 2^(Width - 1)

(* net.IP.Mask: clear the host bits.                                      *)
Mask(ip, bits) == (ip \div 2^(AddrBits - bits)) * 2^(AddrBits - bits)

(* Go's string order: bytewise lexicographic.                             *)
RECURSIVE LexLess(_, _)
LexLess(a, b) ==
    IF b = <<>> THEN FALSE
    ELSE IF a = <<>> THEN TRUE
    ELSE IF Head(a) # Head(b) THEN Head(a) < Head(b)
    ELSE LexLess(Tail(a), Tail(b))

-----------------------------------------------------------------------------
(* The comparator tables.                                                  *)

compareBool(op, a, b) ==
    CASE op = "eql"  -> a = b
      [] op = "neql" -> a # b
      [] op = "gt"   -> IF a THEN ~b ELSE FALSE
      [] op = "gte"  -> IF a THEN TRUE ELSE ~b
      [] op = "lt"   -> IF a THEN FALSE ELSE b
      [] op = "lte"  -> IF a THEN b ELSE ~b

compareInt(op, a, b) ==
    CASE op = "eql" -> a = b  [] op = "neql" -> a # b
      [] op = "gt"  -> a > b  [] op = "gte"  -> a >= b
      [] op = "lt"  -> a < b  [] op = "lte"  -> a <= b

compareFloat(op, a, b) == compareInt(op, a, b)

compareAddr(op, a, b) == compareInt(op, a, b)

compareString(op, a, b) ==
    CASE op = "eql"    -> a = b
      [] op = "neql"   -> a # b
      [] op = "gt"     -> LexLess(b, a)
      [] op = "gte"    -> ~LexLess(a, b)
      [] op = "lt"     -> LexLess(a, b)
      [] op = "lte"    -> ~LexLess(b, a)
      [] op = "search" -> b \in SX!SubSeqs(a)

(* Subnets compare by their IP only; "neql" is bytes.Equal as "eql" is.    *)
compareSubnet(op, a, b) ==
    IF op \in {"eql", "neql"} THEN a.ip = b.ip ELSE compareInt(op, a.ip, b.ip)

(* An address against a subnet: mask the address, compare with the net.   *)
matchSubnet(op, a, b) ==
    IF op = "eql" THEN b.ip = Mask(a, b.bits)
    ELSE IF op = "neql" THEN b.ip # Mask(a, b.bits)
    ELSE compareInt(op, Mask(a, b.bits), b.ip)

-----------------------------------------------------------------------------
(* The predicate constructors, applied to a value v.                       *)

CompareBool(op, pattern, v) == v.type = "bool" /\ compareBool(op, v.v, pattern)

(* Ints, counts, ports and doubles compare as int64 (a count through an    *)
(* int64 cast), times and intervals against the pattern times 1e9.        *)
CompareInt64(op, pattern, v) ==
    CASE v.type = "int"      -> compareInt(op, v.v, pattern)
      [] v.type = "count"    -> compareInt(op, ToInt64(v.v), pattern)
      [] v.type = "port"     -> compareInt(op, v.v, pattern)
      [] v.type = "double"   -> compareFloat(op, v.v, pattern)
      [] v.type \in {"time", "interval"} -> compareInt(op, v.v, Wrap(pattern * Scale))
      [] OTHER -> FALSE

(* Value.IsUnset: nil Bytes with a type.  Values here always have a type, *)
(* so IsUnsetOrNil is the same test.                                       *)
IsUnset(v) == v.unset

(* ContainerLength: the element count of a set or array.                  *)
ContainerLength(v) == IF v.type \in {"set", "array"} THEN Len(v.elems) ELSE -1

CompareContainerLen(op, n, v) ==
    ContainerLength(v) # -1 /\ compareInt(op, ContainerLength(v), n)

CompareIP(op, pattern, v) == v.type = "addr" /\ compareAddr(op, v.v, pattern)

(* float64(v) of the integer types is exact here; float64(ts)/1e9 against *)
(* the pattern is ts against pattern * Scale.                              *)
CompareFloat64(op, pattern, v) ==
    CASE v.type \in {"double", "int", "count", "port"} -> compareFloat(op, v.v, pattern)
      [] v.type \in {"time", "interval"} -> compareFloat(op, v.v, pattern * Scale)
      [] OTHER -> FALSE

CompareBstring(op, pattern, v) ==
    v.type \in {"string", "enum"} /\ compareString(op, v.v, pattern)

CompareRegexp(op, lang, v) ==
    v.type \in {"string", "enum"} /\ IF op = "eql" THEN v.v \in lang ELSE v.v \notin lang

ComparePort(op, pattern, v) == v.type = "port" /\ compareInt(op, v.v, pattern)

CompareUnset(op, v) == IF op = "eql" THEN IsUnset(v) ELSE ~IsUnset(v)

CompareSubnet(op, pattern, v) ==
    CASE v.type = "addr"   -> matchSubnet(op, v.v, pattern)
      [] v.type = "subnet" -> compareSubnet(op, v.v, pattern)
      [] OTHER -> FALSE

(* Comparison: dispatch on the literal's kind.                            *)
Comparison(op, lit, v) ==
    CASE lit.kind = "unset"  -> CompareUnset(op, v)
      [] lit.kind = "regexp" -> CompareRegexp(op, lit.v, v)
      [] lit.kind = "addr"   -> CompareIP(op, lit.v, v)
      [] lit.kind = "subnet" -> CompareSubnet(op, lit.v, v)
      [] lit.kind = "bool"   -> CompareBool(op, lit.v, v)
      [] lit.kind = "double" -> CompareFloat64(op, lit.v, v)
      [] lit.kind = "string" -> CompareBstring(op, lit.v, v)
      [] lit.kind = "port"   -> ComparePort(op, lit.v, v)
      [] lit.kind = "int"    -> CompareInt64(op, lit.v, v)
      [] lit.kind = "len"    -> CompareContainerLen(op, lit.v, v)

(* Contains: the "in" predicate built from the predicate compare (here   *)
(* Comparison(op, lit)): true iff some element of the set or array         *)
(* matches; false for a value that is not a container.                    *)
Contains(op, lit, v) ==
    /\ v.type \in {"set", "array"}
    /\ \E i \in DOMAIN v.elems :
          Comparison(op, lit, [type |-> v.inner, v |-> v.elems[i], unset |-> FALSE])

-----------------------------------------------------------------------------
(* A filter comparison evaluated on one value: the literal and operator a  *)
(* query supplies, the record field's value, and whether the test is "in". *)

Subnets == {[ip |-> Mask(a, b), bits |-> b] : a \in Addrs, b \in 0..AddrBits}

(* The literals ParseLiteral can produce, with the operators their        *)
(* comparator tables accept (any other operator is an error).             *)
Literals ==
    [kind : {"bool"}, v : BOOLEAN] \cup [kind : {"int", "double"}, v : IntVals]
    \cup [kind : {"port"}, v : 0..MaxPort] \cup [kind : {"addr"}, v : Addrs]
    \cup [kind : {"subnet"}, v : Subnets] \cup [kind : {"string"}, v : Strings]
    \cup [kind : {"regexp"}, v : {{}, {<<b>> : b \in Bytes}}]
    \cup [kind : {"unset"}, v : {0}] \cup [kind : {"len"}, v : 0..MaxElems]

Ops == {"eql", "neql", "gt", "gte", "lt", "lte"}

OpsFor(lit) ==
    CASE lit.kind = "string" -> Ops \cup {"search"}
      [] lit.kind \in {"unset", "regexp"} -> {"eql", "neql"}
      [] OTHER -> Ops

Scalars ==
    [type : {"bool"}, v : BOOLEAN, unset : {FALSE}]
    \cup [type : {"int", "double", "time", "interval"}, v : IntVals, unset : {FALSE}]
    \cup [type : {"count"}, v : UintVals, unset : {FALSE}]
    \cup [type : {"port"}, v : 0..MaxPort, unset : {FALSE}]
    \cup [type : {"addr"}, v : Addrs, unset : {FALSE}]
    \cup [type : {"subnet"}, v : Subnets, unset : {FALSE}]
    \cup [type : {"string", "enum"}, v : Strings, unset : {FALSE}]

Containers ==
    [type : {"set", "array"}, inner : {"int"}, unset : {FALSE},
     elems : UNION {[1..n -> IntVals] : n \in 0..MaxElems}]

(* An unset value of some type (nil Bytes).                                *)
Unsets == [type : {"int", "string", "set"}, v : {0}, unset : {TRUE}, elems : {<<>>}]

VARIABLES op, lit, val, inop

vars == <<op, lit, val, inop>>

Init ==
    /\ lit \in Literals
    /\ op \in OpsFor(lit)
    /\ inop \in BOOLEAN
    /\ val \in Scalars \cup Containers \cup IF lit.kind = "unset" THEN Unsets ELSE {}

(* The predicate is pure: evaluating it changes nothing.                   *)
Spec == Init /\ [][FALSE]_vars

(* The predicate the query runs on val.                                    *)
Predicate(v) == Comparison(op, lit, v)

Result == IF inop THEN Contains(op, lit, val) ELSE Predicate(val)

-----------------------------------------------------------------------------
(* The reference: what the comparison means.                               *)

Order(o, a, b) ==
    CASE o = "eql" -> a = b  [] o = "neql" -> a # b
      [] o = "gt"  -> a > b  [] o = "gte"  -> a >= b
      [] o = "lt"  -> a < b  [] o = "lte"  -> a <= b

BoolNum(b) == IF b THEN 1 ELSE 0

(* A value of type t compared with literal l under operator o, with the   *)
(* coercions the code's comments document: integer and float literals     *)
(* match every numeric type, times and intervals in seconds; a port       *)
(* literal only ports; a subnet literal matches addresses by CIDR and     *)
(* subnets by strict equality; mismatched types never match.              *)
RefScalar(o, l, v) ==
    CASE l.kind = "unset"  -> IF o = "eql" THEN v.unset ELSE ~v.unset
      [] l.kind = "bool"   -> v.type = "bool" /\ Order(o, BoolNum(v.v), BoolNum(l.v))
      [] l.kind \in {"int", "double"} ->
            \/ v.type \in {"int", "count", "port", "double"} /\ Order(o, v.v, l.v)
            \/ v.type \in {"time", "interval"} /\ Order(o, v.v, l.v * Scale)
      [] l.kind = "port"   -> v.type = "port" /\ Order(o, v.v, l.v)
      [] l.kind = "addr"   -> v.type = "addr" /\ Order(o, v.v, l.v)
      [] l.kind = "subnet" ->
            \/ v.type = "addr" /\ Order(o, Mask(v.v, l.v.bits), l.v.ip)
            \/ v.type = "subnet" /\ o = "eql" /\ v.v = l.v
            \/ v.type = "subnet" /\ o = "neql" /\ v.v # l.v
            \/ v.type = "subnet" /\ o \notin {"eql", "neql"} /\ Order(o, v.v.ip, l.v.ip)
      [] l.kind = "string" -> v.type \in {"string", "enum"} /\ compareString(o, v.v, l.v)
      [] l.kind = "regexp" -> CompareRegexp(o, l.v, v)
      [] l.kind = "len"    -> v.type \in {"set", "array"} /\ Order(o, Len(v.elems), l.v)

Reference ==
    IF inop
    THEN val.type \in {"set", "array"}
         /\ \E i \in DOMAIN val.elems :
               RefScalar(op, lit, [type |-> val.inner, v |-> val.elems[i], unset |-> FALSE])
    ELSE RefScalar(op, lit, val)

(* Every comparison a filter can compile decides as its meaning says: the *)
(* boolean order false < true, integer order without wrap-around for      *)
(* counts and for times against seconds, strict equality of subnets.      *)
PredicateMatchesReference == Result = Reference

=============================================================================
