----------------------------- MODULE MCHoneypot -----------------------------
(***************************************************************************)
(* Honeypot for TLC: two of the four categories, and the requests that     *)
(* match nothing, one pattern, one in each category, and two in the second *)
(* one beside one in the first.                                            *)
(***************************************************************************)
EXTENDS Honeypot

TwoCategories == <<"lfi", "sqli">>
Payloads == { <<0, 0>>, <<1, 0>>, <<1, 1>>, <<1, 2>> }

=============================================================================
