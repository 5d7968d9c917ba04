---------------------------- MODULE MCSshKeySync ----------------------------
(* Values of constants for TLC that a configuration file cannot write.     *)
EXTENDS SshKeySync

CONSTANT x   \* a line that does not parse

SomeLines == {<<"ann", "k">>, x}
BobsKey   == {<<"bob", "k">>}
=============================================================================
