---------------------------- MODULE MCQRDecode ----------------------------
EXTENDS QRDecode

(* Digits with leading zeros in every length modulo 3, pairs and a single  *)
(* character of the alphabet, a byte outside it.                           *)
Texts == {[mode |-> 1, chars |-> <<48>>], [mode |-> 1, chars |-> <<48, 55>>],
          [mode |-> 1, chars |-> <<48, 48, 55>>], [mode |-> 1, chars |-> <<49, 48, 48, 48>>],
          [mode |-> 2, chars |-> <<58>>], [mode |-> 2, chars |-> <<48, 90, 65>>],
          [mode |-> 4, chars |-> <<97, 63>>]}
=============================================================================
