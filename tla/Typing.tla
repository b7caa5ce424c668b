------------------------------- MODULE Typing -------------------------------
(***************************************************************************)
(* Dynamically typed data (tuxedo-core/src/dynamic_typing.rs): a record    *)
(* with the type it was encoded as.  Extracting it as another type is an   *)
(* error, and so the end of the check that extracts it.                    *)
(***************************************************************************)
EXTENDS Integers, Sequences

Extracts(data, type) == data.type = type

ExtractAll(s, type) == \A i \in 1 .. Len(s) : Extracts(s[i], type)
=============================================================================
