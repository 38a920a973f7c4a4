---------------------------- MODULE MCHostConfig ----------------------------
(* One deploy key on two hosts.                                            *)
EXTENDS HostConfig

OneKey == {<<"java", "a">>}
=============================================================================
