-------------------------- MODULE MCPaymentRecovery --------------------------
(* Several calls of signAndSubmit after one createPayment; nothing goes wrong. *)
EXTENDS PaymentRecovery

CONSTANT c1

SignAndSubmit == {[may |-> [c \in Calls |-> IF c = c1 THEN Operations ELSE {"sign", "submit"}],
                   safe |-> FALSE, clientSigns |-> FALSE, enabled |-> {}]}
=============================================================================
