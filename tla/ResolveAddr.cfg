\* Every lookup result of up to three addresses over two IPv4, one
\* IPv4-mapped and two IPv6 addresses, with either preference.
CONSTANTS
    V4Addrs = {v4a, v4b}
    V4In6Addrs = {v4m}
    V6Addrs = {v6a, v6b}
    MaxAddrs = 3

SPECIFICATION Spec
INVARIANTS TypeOK ResolvesToPreferredFamily EveryAdmissibleAddrReachable
\* The call returns once; nothing follows it.
CHECK_DEADLOCK FALSE
