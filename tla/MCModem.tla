------------------------------ MODULE MCModem ------------------------------
(* Small instances of the modem.                                           *)
EXTENDS Modem

MCScript == <<"a", "do", "other", "ff">>
=============================================================================
