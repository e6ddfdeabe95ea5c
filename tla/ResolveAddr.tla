----------------------------- MODULE ResolveAddr -----------------------------
(***************************************************************************)
(* conn.ResolveAddr: resolve a host name, split the addresses into those   *)
(* of the preferred family (primaries) and the rest (fallbacks), and       *)
(* return a random primary, else a random fallback.  The lookup is an      *)
(* input: its error, or the list of addresses it returned.  An address is  *)
(* abstracted to the family predicates the code tests; IPv4-mapped IPv6    *)
(* addresses (Is4In6) count as IPv4.                                       *)
(*                                                                         *)
(* The state machine has one step, the call, so that TLC checks the        *)
(* results the call may produce for every input within the bounds.        *)
(***************************************************************************)
EXTENDS Naturals, Sequences, SequencesExt

CONSTANTS
    V4Addrs,     \* addresses with ip.Is4()
    V4In6Addrs,  \* addresses with ip.Is4In6()
    V6Addrs,     \* other IPv6 addresses
    MaxAddrs     \* bound: addresses one lookup returns

ASSUME /\ V4Addrs \cap V4In6Addrs = {}
       /\ (V4Addrs \cup V4In6Addrs) \cap V6Addrs = {}
       /\ MaxAddrs \in Nat

Addrs == V4Addrs \cup V4In6Addrs \cup V6Addrs

\* The results of a call: an address, or one of the errors.
Results == [ok : {TRUE}, ip : Addrs] \cup
           [ok : {FALSE}, err : {"lookup", "neither", "empty"}]
Pending == [ok |-> FALSE, err |-> "pending"]

VARIABLES
    lookupErr,   \* LookupNetIP returned an error
    ips,         \* the addresses it returned otherwise
    preferIPv6,  \* the caller's family preference
    result       \* Pending until ResolveAddr returns

vars == <<lookupErr, ips, preferIPv6, result>>

-----------------------------------------------------------------------------
Is4(ip) == ip \in V4Addrs
Is4In6(ip) == ip \in V4In6Addrs

\* The first case of the switch: the address is of the preferred family.
IsPrimary(ip, prefer6) ==
    \/ prefer6 /\ ~Is4(ip) /\ ~Is4In6(ip)
    \/ ~prefer6 /\ (Is4(ip) \/ Is4In6(ip))

\* Mutation: IPv4-mapped addresses are taken for IPv6 ones.
IsFallbackNo4In6(ip, prefer6) ==
    \/ prefer6 /\ Is4(ip)
    \/ ~prefer6 /\ ~Is4(ip)

\* The second case: the address is of the other family.
IsFallback(ip, prefer6) ==
    \/ prefer6 /\ (Is4(ip) \/ Is4In6(ip))
    \/ ~prefer6 /\ ~Is4(ip) /\ ~Is4In6(ip)

\* The loop over ips: primaries and fallbacks in lookup order; ok is FALSE
\* when the default case returned early.
RECURSIVE Partition(_, _, _)
Partition(addrs, prefer6, acc) ==
    IF addrs = <<>> THEN acc
    ELSE LET ip == Head(addrs) IN
         CASE IsPrimary(ip, prefer6) ->
                Partition(Tail(addrs), prefer6,
                          [acc EXCEPT !.primaries = Append(@, ip)])
           [] IsFallback(ip, prefer6) ->
                Partition(Tail(addrs), prefer6,
                          [acc EXCEPT !.fallbacks = Append(@, ip)])
           [] OTHER -> [acc EXCEPT !.ok = FALSE]

NoAddrs == [ok |-> TRUE, primaries |-> <<>>, fallbacks |-> <<>>]

\* Mutation: rand.Intn(len-1), an off-by-one that never picks the last
\* address of the list.
ResolveSkipsLast(err, addrs, prefer6) ==
    IF err THEN {[ok |-> FALSE, err |-> "lookup"]}
    ELSE LET parts == Partition(addrs, prefer6, NoAddrs) IN
         IF ~parts.ok THEN {[ok |-> FALSE, err |-> "neither"]}
         ELSE LET pick == IF parts.primaries # <<>> THEN parts.primaries
                          ELSE parts.fallbacks IN
              IF pick = <<>> THEN {[ok |-> FALSE, err |-> "empty"]}
              ELSE {[ok |-> TRUE, ip |-> pick[i]] : i \in 1..(Len(pick) - 1)}

\* Mutation: the final switch without its default case returns the zero
\* netip.Addr with a nil error when the lookup returned no address.
ResolveEmptyIsZero(err, addrs, prefer6) ==
    IF err THEN {[ok |-> FALSE, err |-> "lookup"]}
    ELSE LET parts == Partition(addrs, prefer6, NoAddrs) IN
         IF ~parts.ok THEN {[ok |-> FALSE, err |-> "neither"]}
         ELSE LET pick == IF parts.primaries # <<>> THEN parts.primaries
                          ELSE parts.fallbacks IN
              IF pick = <<>> THEN {[ok |-> TRUE, ip |-> "zero"]}
              ELSE {[ok |-> TRUE, ip |-> pick[i]] : i \in 1..Len(pick)}

\* The results the call can return: rand.Intn picks any index of the
\* primaries, or of the fallbacks when there is no primary.
Resolve(err, addrs, prefer6) ==
    IF err THEN {[ok |-> FALSE, err |-> "lookup"]}
    ELSE LET parts == Partition(addrs, prefer6, NoAddrs) IN
         IF ~parts.ok THEN {[ok |-> FALSE, err |-> "neither"]}
         ELSE LET pick == IF parts.primaries # <<>> THEN parts.primaries
                          ELSE parts.fallbacks IN
              IF pick = <<>> THEN {[ok |-> FALSE, err |-> "empty"]}
              ELSE {[ok |-> TRUE, ip |-> pick[i]] : i \in 1..Len(pick)}

-----------------------------------------------------------------------------
\* Any lookup outcome within the bounds, and either preference.
Init ==
    /\ lookupErr \in BOOLEAN
    /\ ips \in IF lookupErr THEN {<<>>} ELSE BoundedSeq(Addrs, MaxAddrs)
    /\ preferIPv6 \in BOOLEAN
    /\ result = Pending

\* ResolveAddr(host, preferIPv6) returns.
Call ==
    /\ result = Pending
    /\ result' \in Resolve(lookupErr, ips, preferIPv6)
    /\ UNCHANGED <<lookupErr, ips, preferIPv6>>

Spec == Init /\ [][Call]_vars

TypeOK ==
    /\ lookupErr \in BOOLEAN
    /\ ips \in Seq(Addrs)
    /\ preferIPv6 \in BOOLEAN
    /\ result \in {Pending} \cup Results

-----------------------------------------------------------------------------
(***************************************************************************)
(* The reference: what the doc comment and the caller's flag promise.      *)
(***************************************************************************)
IsIPv6(ip) == ip \in V6Addrs
Preferred(ip, prefer6) == IsIPv6(ip) = prefer6

\* The addresses a correct resolver may return: those of the preferred
\* family if the lookup returned any, else all of them.
Admissible(addrs, prefer6) ==
    LET pref == {ip \in ToSet(addrs) : Preferred(ip, prefer6)} IN
    IF pref # {} THEN pref ELSE ToSet(addrs)

\* ResolveAddr returns an address of the preferred family whenever the
\* lookup found one (IPv4-mapped addresses counting as IPv4), and any
\* address it returns came from the lookup; it fails only when the lookup
\* failed or returned nothing.
ResolvesToPreferredFamily ==
    result # Pending =>
        IF lookupErr \/ ips = <<>>
        THEN ~result.ok
        ELSE result.ok /\ result.ip \in Admissible(ips, preferIPv6)

\* Every admissible address can be returned: the random pick ranges over
\* the whole preferred list, so load spreads over all of its addresses.
EveryAdmissibleAddrReachable ==
    result = Pending /\ ~lookupErr /\ ips # <<>> =>
        {r.ip : r \in Resolve(lookupErr, ips, preferIPv6)} = Admissible(ips, preferIPv6)

=============================================================================
