---------------------------- MODULE MCAuthAdapter ----------------------------
(* AuthAdapter for TLC: one tab, with either framework.                    *)
EXTENDS AuthAdapter

=============================================================================
