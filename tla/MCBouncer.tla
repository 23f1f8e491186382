------------------------------ MODULE MCBouncer ------------------------------
(***************************************************************************)
(* Credentials for TLC: a user with two passwords, and a token.               *)
(***************************************************************************)
EXTENDS Bouncer

Password(u, p) == [kind |-> "password", key |-> u, secret |-> p]
Token(t) == [kind |-> "token", key |-> t, secret |-> ""]

TwoKeys == {Password("u1", "p1"), Password("u1", "p2"), Token("t1")}
=============================================================================
