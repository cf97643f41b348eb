--------------------------- MODULE MCAccounts ---------------------------
(* The instance of Accounts for TLC.  Names and passwords are interchangeable, *)
(* so the first configuration may have the first name and the first password.  *)
EXTENDS Accounts

MCInit == Init /\ cfg.name = "a" /\ cfg.secret # "q"

MCLiveSpec == MCInit /\ [][Next]_vars /\ WF_vars(Provider)
=========================================================================
