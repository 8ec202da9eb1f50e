----------------------------- MODULE MCBodyReader -----------------------------
(* Small instances of BodyReader: chunks, stream buffer and body of a few    *)
(* bytes, so that a body can fill no, one or several chunks, exactly or not. *)
EXTENDS BodyReader
=============================================================================
