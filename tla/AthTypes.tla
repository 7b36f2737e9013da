------------------------------- MODULE AthTypes --------------------------------
(***************************************************************************)
(* The values of the !~ATH interpreter (personal/ath/tildeath.js).         *)
(* A value is a tuple whose first member is its type; a text is a sequence *)
(* of characters, where "VOID" and the like count as one; a map is a       *)
(* sequence of key and value pairs in the order of insertion.  Err is a    *)
(* RuntimeError.                                                           *)
(***************************************************************************)
EXTENDS Integers, Sequences, Functions

Err == <<"ERROR">>
Void == <<"VOID">>
Missing == <<"MISSING">>       \* undefined: an argument that was not passed
Bool(b) == <<"BOOLEAN", b>>
Num(n) == <<"INTEGER", n>>
Str(s) == <<"STRING", s>>
Arr(q) == <<"ARRAY", q>>
Pairs(q) == <<"MAP", q>>

TypeName(v) ==
    CASE v[1] = "MISSING" -> "VOID" [] v[1] = "BUILTIN" -> "UNKNOWN" [] OTHER -> v[1]
Are(t, vs) == \A v \in Range(vs) : TypeName(v) = t

IsTruthy(v) ==
    CASE TypeName(v) = "VOID"    -> FALSE
      [] TypeName(v) = "BOOLEAN" -> v[2]
      [] TypeName(v) = "INTEGER" -> v[2] # 0
      [] TypeName(v) \in {"STRING", "ARRAY", "MAP"} -> v[2] # <<>>
      [] OTHER                   -> TRUE
================================================================================
