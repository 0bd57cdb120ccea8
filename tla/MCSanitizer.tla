----------------------------- MODULE MCSanitizer -----------------------------
(* A card and a phone number of the shipped lengths, alone and with an        *)
(* extension behind them.                                                     *)
EXTENDS Sanitizer

CardDigits == 13 .. 19
PhoneDigits == 10 .. 15

Ones == <<" ", "1", "1", "1", "1">>
Card == <<"4", "1", "1", "1">> \o Ones \o Ones \o Ones
Phone == <<"+", "4", "4">> \o Ones \o Ones \o Ones

Extension == <<" ", "1", "2", "3">>

Examples == {Card, Phone, Card \o Extension, Phone \o Extension}

=============================================================================
