--------------------------- MODULE MCCommandJournal ---------------------------
EXTENDS CommandJournal, TLC

CONSTANTS create, stop, delete

\* The commands of one server, in no particular order of delivery.
MCEffect == (create :> "Running") @@ (stop :> "Stopped") @@ (delete :> "Deleted")
MCEffectOne == create :> "Running"
=============================================================================
