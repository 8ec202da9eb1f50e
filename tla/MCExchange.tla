----------------------------- MODULE MCExchange ------------------------------
(* Heads of up to three lines, files of up to two chunks, two calls. *)
EXTENDS Exchange

MCCodes == {404, 65536 + 204}
MCKinds == {"html", "text/css"}
MCNames == {<<"d", "/", "x", ".", "html">>, <<"/", "x", ".", "html">>, <<"x", ".", "html">>}
=============================================================================
