----------------------------- MODULE MCAccounts -----------------------------
(* Instances of Accounts for TLC. *)
EXTENDS Accounts, TLC

CONSTANTS b1, b2, d1

TwoBrowsers == {b1, b2}
OneDiscord == {d1}
=============================================================================
