-------------------------------- MODULE Tzng --------------------------------
(***************************************************************************)
(* The tzng writer, zio/tzngio/writer.go, driven by the copy loop that     *)
(* feeds it (zbuf.CopyWithContext): records are written one at a time     *)
(* until a Write returns an error.  The first record of a type is preceded *)
(* by the alias definitions it needs and a typedef "#N:type", numbered     *)
(* from 0 through w.tracker; every record is "N:" then its value then a    *)
(* newline.  Each of these is a separate write to the underlying writer,   *)
(* and each may fail.  The value's text (writeContainer, writeUnion,       *)
(* writeValue) is one piece of output: the model keeps which record it is, *)
(* not its characters.  A failed write adds nothing to the output.         *)
(***************************************************************************)
EXTENDS Naturals, Sequences, SequencesExt, FiniteSets

CONSTANTS
    Types,          \* record types (their Type.ID())
    Aliases,        \* alias types (their AliasID())
    TypeAliases,    \* TypeAliases[t]: zng.AliasTypes(t), in order
    MaxRecords,     \* the input has at most this many records
    WriteErrors,    \* the underlying writer may fail
    MaxErrors       \* bound on failed writes

ASSUME /\ TypeAliases \in [Types -> Seq(Aliases)]
       /\ MaxRecords \in Nat /\ WriteErrors \in BOOLEAN /\ MaxErrors \in Nat

VARIABLES
    input,      \* the record types the copy loop reads, in order
    pos,        \* records the copy loop has handed to Write
    tracker,    \* w.tracker: type to output typedef number
    aliases,    \* w.aliases: the aliases marked as written
    out,        \* the pieces written to the underlying writer, in order
    errs,       \* failed writes so far
    result      \* the copy loop's result: "running", "ok" or "err"

vars == <<input, pos, tracker, aliases, out, errs, result>>

(* The pieces of output. *)
AliasDef(a) == [k |-> "alias", a |-> a]
TypeDef(n, t) == [k |-> "typedef", id |-> n, t |-> t]
Prefix(n) == [k |-> "prefix", id |-> n]
Newline == [k |-> "nl"]

(* writeContainer (with writeUnion and writeValue) prints record i's       *)
(* value: one piece.                                                       *)
writeContainer(i) == [k |-> "value", rec |-> i]

(* NewWriter: empty tracker and aliases. *)
Init ==
    /\ input \in UNION {[1..n -> Types] : n \in 0..MaxRecords}
    /\ pos = 0
    /\ tracker = <<>>
    /\ aliases = {}
    /\ out = <<>>
    /\ errs = 0
    /\ result = "running"

(* writeAliases: for each alias of the record's type not yet in w.aliases, *)
(* mark it, then write its definition.                                     *)
writeAliases(t) == SelectSeq(TypeAliases[t], LAMBDA a : a \notin aliases)

(* The writes Write(r) makes, in order, for record i of type t: for a type *)
(* not in w.tracker, the new aliases and the typedef numbered              *)
(* len(w.tracker); then "N:", the value and the newline.                   *)
Pieces(i, t) ==
    LET isNew == t \notin DOMAIN tracker
        outId == IF isNew THEN Cardinality(DOMAIN tracker) ELSE tracker[t]
        head  == IF isNew
                 THEN [j \in 1..Len(writeAliases(t)) |-> AliasDef(writeAliases(t)[j])]
                      \o <<TypeDef(outId, t)>>
                 ELSE <<>>
    IN  head \o <<Prefix(outId), writeContainer(i), Newline>>

(* Write(r), the whole call, with f the write that fails (0: none).  The   *)
(* writes before f reach the output.  An alias is marked before its write, *)
(* and the type is entered in w.tracker before its typedef is written, so  *)
(* both stay marked when their write fails.  Write returns the failure's   *)
(* error, except a failure to write "N:", for which it returns nil.        *)
Write(f) ==
    LET i == pos + 1
        t == input[i]
        ps == Pieces(i, t)
        new == IF t \in DOMAIN tracker THEN <<>> ELSE writeAliases(t)
        upTo == IF f = 0 THEN Len(ps) ELSE f
        failed == f # 0 /\ ps[f].k # "prefix"
    IN  /\ tracker' = IF t \notin DOMAIN tracker /\ upTo > Len(new)
                      THEN tracker @@ (t :> Cardinality(DOMAIN tracker))
                      ELSE tracker
        /\ aliases' = aliases \cup {new[j] : j \in 1..Min({upTo, Len(new)})}
        /\ out' = out \o SubSeq(ps, 1, IF f = 0 THEN Len(ps) ELSE f - 1)
        /\ errs' = errs + (IF f = 0 THEN 0 ELSE 1)
        /\ pos' = i
        /\ result' = IF failed THEN "err" ELSE "running"

(* One turn of CopyWithContext: read the next record and Write it,         *)
(* stopping at the first error; at end of input return nil.                *)
Copy ==
    /\ result = "running"
    /\ \/ /\ pos < Len(input)
          /\ \E f \in 0..Len(Pieces(pos + 1, input[pos + 1])) :
                /\ f # 0 => WriteErrors /\ errs < MaxErrors
                /\ Write(f)
          /\ UNCHANGED input
       \/ /\ pos = Len(input)
          /\ result' = "ok"
          /\ UNCHANGED <<input, pos, tracker, aliases, out, errs>>

Next == Copy

Spec == Init /\ [][Next]_vars

-----------------------------------------------------------------------------
(* Properties.                                                             *)

TypeOK ==
    /\ pos \in 0..Len(input)
    /\ DOMAIN tracker \subseteq Types
    /\ aliases \subseteq Aliases
    /\ result \in {"running", "ok", "err"}

(* When the copy loop ends without an error, every record it read is in    *)
(* the output after its "N:": Write returned nil for each of them, and the *)
(* caller (zbuf.Copy) takes nil to mean the record was written.            *)
NoSilentRecordLoss ==
    result = "ok" =>
        \A i \in 1..Len(input) :
            \E j \in 2..Len(out) : out[j] = writeContainer(i) /\ out[j - 1].k = "prefix"

=============================================================================
