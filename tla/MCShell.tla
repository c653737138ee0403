------------------------------- MODULE MCShell -------------------------------
(***************************************************************************)
(* The character s typed alone stands for the text usb_scan.               *)
(***************************************************************************)
EXTENDS Shell

MCScanCmd == <<"s">>
MCAnswer == <<"newline", "!", "newline">>
MCMessages == {MCAnswer, <<"newline">>}
=============================================================================
