------------------------------ MODULE MCSocks5 ------------------------------
EXTENDS Socks5

\* One user with a two-byte name and one with a one-byte name, so that
\* both the ULEN > 1 read and the PLEN-in-the-first-read path occur, and a
\* password longer than the name it overwrites.
MCUsers == {[username |-> <<97, 98>>, password |-> <<120>>],
            [username |-> <<99>>, password |-> <<121, 122>>]}

\* Both valid pairs, a wrong password and an unknown name.
MCCreds == MCUsers \cup
           {[username |-> <<97, 98>>, password |-> <<121, 122>>],
            [username |-> <<100>>, password |-> <<120>>]}

\* 10.0.0.1:80, the domain "a" port 443 and [2001:db8::1]:80, in SOCKS
\* encoding, so that every address type AppendFromReader knows is read.
MCTargets == {<<1, 10, 0, 0, 1, 0, 80>>, <<3, 1, 97, 1, 187>>,
              <<4, 32, 1, 13, 184, 0, 0, 0, 0, 0, 0, 0, 0, 0, 0, 0, 1, 0, 80>>}

\* The code client's single method, or GSSAPI offered before it.
MCExtraMethods == {<<>>, <<1>>}
=============================================================================
