----------------------------- MODULE MCGroupAgr -----------------------------
(* Five group values for TLC.  Two share an encoding (a hash collision of two *)
(* strings), two more share a home without sharing an encoding, and one is   *)
(* NaN.  Homes lie at the end of the slots too, so that walks wrap around.   *)
EXTENDS GroupAgr

MCValue == {"a", "b", "c", "d", "nan"}

MCNotSelfEqual == {"nan"}

MCEncoded == {"ab", "c", "d", "nan"}

MCEncode == [v \in MCValue |-> IF v \in {"a", "b"} THEN "ab" ELSE v]

MCHash == [e \in MCEncoded |->
              CASE e = "ab" -> 7 [] e = "c" -> 3 [] e = "d" -> 10 [] e = "nan" -> 15]

MCRow == {[key |-> "a", arg |-> -1], [key |-> "a", arg |-> 2]}
             \cup [key : {"b", "c", "d", "nan"}, arg : {2}]
=============================================================================
