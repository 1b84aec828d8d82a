---------------------------- MODULE MCJournalLog ----------------------------
(* Small instances of JournalLog for TLC                                    *)
EXTENDS JournalLog
=============================================================================
