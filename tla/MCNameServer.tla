---------------------------- MODULE MCNameServer ----------------------------
EXTENDS NameServer

\* Tasks 0 and 3 register and look up; task 4 shuts the server down.
TwoClients == {0, 3}
OneExiter == {4}
NoExiter == {}
OneClient == {3}
\* "a" and "ab" with bytes 1 and 2: with NAME_SERVER_MAX_NAME_LEN scaled to
\* 2, "ab" fills the name field with no terminator, as "clock_server"
\* fills the real 12 bytes, and "a" is a prefix of it.
TwoNames == {<<1, 0>>, <<1, 2, 0>>}
=============================================================================
