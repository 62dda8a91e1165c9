----------------------------- MODULE MCInstall -----------------------------
(* Small instances of CommandLineUpdate. *)
EXTENDS CommandLineUpdate

\* The second file is the same in both releases; the third one is new.
MCSame == {2}
MCFresh == {3}
Nothing == {}
=============================================================================
