------------------------------- MODULE Socks5 -------------------------------
(***************************************************************************)
(* The SOCKS5 engine of package socks5: the client half (ClientRequest and *)
(* ClientRequestUsernamePassword) and the server half (ServerAccept and    *)
(* ServerAcceptUsernamePassword) running against each other over one TCP   *)
(* connection, modelled as two byte streams.  Each io.ReadFull is one step *)
(* that waits until its bytes have arrived, or fails when the connection   *)
(* is closed first; writes never block.  The server's scratch buffer b is  *)
(* kept byte by byte, since PASSWD is read over UNAME in it.                *)
(*                                                                         *)
(* Bytes are naturals; addresses are their SOCKS wire encodings.  The     *)
(* address codec (AppendFromReader) is not in this repository and is      *)
(* modelled from the specification, by the bytes it reads.                *)
(***************************************************************************)
EXTENDS Naturals, Sequences, SequencesExt

CONSTANTS
    Users,        \* the server's userInfoByUsername, as a set of records
    Creds,        \* username/password pairs clients try
    Targets,      \* encoded target addresses clients request
    ExtraMethods, \* methods a client may offer before the one it wants
    EmptyGreeting \* whether a client may offer no method at all

Version == 5
UsernamePasswordAuthVersion == 1
MethodNoAuthenticationRequired == 0
MethodUsernamePassword == 2
MethodNoAcceptable == 255
CmdConnect == 1
CmdBind == 2
CmdUDPAssociate == 3
ReplySucceeded == 0
ReplyCommandNotSupported == 7
BufLen == 8                      \* indices of b the exchange touches

\* The reply address of CONNECT (IPv4 0.0.0.0:0) and the local address of
\* the TCP connection the server returns for UDP ASSOCIATE.
IPv4UnspecifiedAddr == <<1, 0, 0, 0, 0, 0, 0>>
LocalAddr == <<1, 10, 0, 0, 2, 202, 124>>

NoUser == [username |-> <<>>, password |-> <<>>]

VARIABLES
    in,       \* the call: both sides' arguments, fixed for the behaviour
    c2s,      \* bytes in flight from client to server
    s2c,      \* bytes in flight from server to client
    closed,   \* the connection has been closed by a caller
    aborted,  \* the client's caller closed it before the client returned
    cPc,      \* where the client is
    cHdr,     \* the client's b[3:5] after reading the reply header
    cRes,     \* the client's result: "pending", "ok" or an error
    cBound,   \* the bound address the client returns
    b,        \* the server's scratch buffer
    sPc,      \* where the server is
    sUser,    \* userInfo, ok := userInfoByUsername[string(uname)]
    sPlen,    \* plen
    sStatus,  \* the STATUS the server wrote, -1 before
    sRes,     \* the server's result
    sAddr     \* the address the server returns

vars == <<in, c2s, s2c, closed, aborted, cPc, cHdr, cRes, cBound, b, sPc,
          sUser, sPlen, sStatus, sRes, sAddr>>
clientVars == <<cPc, cHdr, cRes, cBound>>
serverVars == <<b, sPc, sUser, sPlen, sStatus, sRes, sAddr>>

-----------------------------------------------------------------------------
Take(s, n) == SubSeq(s, 1, n)
Rest(s, n) == SubSeq(s, n + 1, Len(s))
\* b[lo:lo+n]
Slice(buf, lo, n) == [i \in 1..n |-> buf[lo + i - 1]]
\* copy(b[lo:], data)
Fill(buf, lo, data) ==
    [i \in DOMAIN buf |-> IF lo <= i /\ i < lo + Len(data)
                          THEN data[i - lo + 1] ELSE buf[i]]

\* UserInfo.AppendAuthMsg.
AuthMsg(u) ==
    <<UsernamePasswordAuthVersion, Len(u.username)>> \o u.username
        \o <<Len(u.password)>> \o u.password

\* replyWithStatus: VER, REP, RSV and the unspecified IPv4 address.
StatusReply(status) == <<Version, status, 0>> \o IPv4UnspecifiedAddr

\* Mutation: a domain address is taken to end one byte early.
AddrRestLenShortDomain(atyp, first) ==
    CASE atyp = 1 -> 4 - 1 + 2
      [] atyp = 4 -> 16 - 1 + 2
      [] atyp = 3 /\ first = 0 -> -2
      [] atyp = 3 -> first + 1
      [] OTHER -> -1

\* AppendFromReader after ATYP and the first address byte: the number of
\* bytes still to read, or -1 for an unknown ATYP, -2 for a domain of
\* length 0.
AddrRestLen(atyp, first) ==
    CASE atyp = 1 -> 4 - 1 + 2
      [] atyp = 4 -> 16 - 1 + 2
      [] atyp = 3 /\ first = 0 -> -2
      [] atyp = 3 -> first + 2
      [] OTHER -> -1

AddrError(n) == IF n = -1 THEN "addrType" ELSE "domainLen"

\* The request clientDoRequest writes: VER, CMD, RSV, the address.
Request == <<Version, in.cmd, 0>> \o in.target

-----------------------------------------------------------------------------
Init ==
    /\ in \in [serverMethod : {MethodNoAuthenticationRequired,
                               MethodUsernamePassword},
               enableTCP : BOOLEAN, enableUDP : BOOLEAN, isTCPConn : BOOLEAN,
               method : {MethodNoAuthenticationRequired,
                         MethodUsernamePassword},
               extra : ExtraMethods,
               empty : IF EmptyGreeting THEN BOOLEAN ELSE {FALSE},
               cred : Creds, cmd : {CmdConnect, CmdBind, CmdUDPAssociate},
               target : Targets]
    /\ c2s = <<>>
    /\ s2c = <<>>
    /\ closed = FALSE
    /\ aborted = FALSE
    /\ cPc = "start"
    /\ cHdr = <<0, 0>>
    /\ cRes = "pending"
    /\ cBound = <<>>
    /\ b = [i \in 0..(BufLen - 1) |-> 0]
    /\ sPc = "method"
    /\ sUser = NoUser
    /\ sPlen = 0
    /\ sStatus = -1
    /\ sRes = "pending"
    /\ sAddr = <<>>

\* A side returns an error; its caller closes the connection.
CFail(err) == cPc' = "done" /\ cRes' = err /\ closed' = TRUE
SFail(err) == sPc' = "done" /\ sRes' = err /\ closed' = TRUE

(***************************************************************************)
(* Client.                                                                 *)
(***************************************************************************)

\* clientNegotiateAuthMethod writes VER, NMETHODS, METHOD.  A client of
\* another implementation may offer other methods first, or none.
ClientGreet ==
    /\ cPc = "start"
    /\ LET methods == IF in.empty THEN <<>>
                      ELSE in.extra \o <<in.method>>
       IN c2s' = c2s \o (<<Version, Len(methods)>> \o methods)
    /\ cPc' = "negReply"
    /\ UNCHANGED <<in, s2c, closed, aborted, cHdr, cRes, cBound, serverVars>>

\* Read VER, METHOD; on success write the auth message or the request.
ClientNegReply ==
    /\ cPc = "negReply"
    /\ ~aborted
    /\ Len(s2c) >= 2
    /\ s2c' = Rest(s2c, 2)
    /\ CASE s2c[1] # Version -> CFail("version") /\ UNCHANGED c2s
         [] s2c[2] # in.method -> CFail("authMethod") /\ UNCHANGED c2s
         [] in.method = MethodUsernamePassword ->
              /\ c2s' = c2s \o AuthMsg(in.cred)
              /\ cPc' = "authReply"
              /\ UNCHANGED <<cRes, closed>>
         [] OTHER ->
              /\ c2s' = c2s \o Request
              /\ cPc' = "reqReply"
              /\ UNCHANGED <<cRes, closed>>
    /\ UNCHANGED <<in, aborted, cHdr, cBound, serverVars>>

\* clientDoUsernamePasswordAuth reads VER, STATUS; then the request.
ClientAuthReply ==
    /\ cPc = "authReply"
    /\ ~aborted
    /\ Len(s2c) >= 2
    /\ s2c' = Rest(s2c, 2)
    /\ CASE s2c[1] # UsernamePasswordAuthVersion ->
              CFail("upVersion") /\ UNCHANGED c2s
         [] s2c[2] # 0 -> CFail("credentials") /\ UNCHANGED c2s
         [] OTHER ->
              /\ c2s' = c2s \o Request
              /\ cPc' = "reqReply"
              /\ UNCHANGED <<cRes, closed>>
    /\ UNCHANGED <<in, aborted, cHdr, cBound, serverVars>>

\* clientDoRequest reads VER, REP, RSV, ATYP and the first address byte.
ClientReqReply ==
    /\ cPc = "reqReply"
    /\ ~aborted
    /\ Len(s2c) >= 5
    /\ s2c' = Rest(s2c, 5)
    /\ LET n == AddrRestLen(s2c[4], s2c[5]) IN
       CASE s2c[1] # Version -> CFail("version") /\ UNCHANGED cHdr
         [] s2c[2] # ReplySucceeded -> CFail("reply") /\ UNCHANGED cHdr
         [] n < 0 -> CFail(AddrError(n)) /\ UNCHANGED cHdr
         [] OTHER -> /\ cHdr' = <<s2c[4], s2c[5]>>
                     /\ cPc' = "reqAddr"
                     /\ UNCHANGED <<cRes, closed>>
    /\ UNCHANGED <<in, c2s, aborted, cBound, serverVars>>

\* AppendFromReader reads the rest of the bound address.
ClientReqAddr ==
    /\ cPc = "reqAddr"
    /\ ~aborted
    /\ Len(s2c) >= AddrRestLen(cHdr[1], cHdr[2])
    /\ LET n == AddrRestLen(cHdr[1], cHdr[2]) IN
       /\ cBound' = cHdr \o Take(s2c, n)
       /\ s2c' = Rest(s2c, n)
    /\ cPc' = "done"
    /\ cRes' = "ok"
    /\ UNCHANGED <<in, c2s, closed, aborted, cHdr, serverVars>>

\* How many bytes the client's pending io.ReadFull waits for.
ClientWant ==
    CASE cPc \in {"negReply", "authReply"} -> 2
      [] cPc = "reqReply" -> 5
      [] cPc = "reqAddr" -> AddrRestLen(cHdr[1], cHdr[2])
      [] OTHER -> 0

\* The pending read fails: the connection was closed before the bytes
\* arrived, or by the client's own caller.
ClientReadFails ==
    /\ cPc \in {"negReply", "authReply", "reqReply", "reqAddr"}
    /\ aborted \/ (closed /\ Len(s2c) < ClientWant)
    /\ CFail("EOF")
    /\ UNCHANGED <<in, c2s, s2c, aborted, cHdr, cBound, serverVars>>

\* The client's caller gives up on the handshake (a deadline or a
\* cancelled context) and closes the connection.
ClientAbort ==
    /\ cPc \in {"negReply", "authReply", "reqReply", "reqAddr"}
    /\ ~closed
    /\ closed' = TRUE
    /\ aborted' = TRUE
    /\ UNCHANGED <<in, c2s, s2c, clientVars, serverVars>>

\* A UDP association ends: the client's caller closes the connection.
ClientEndsAssociation ==
    /\ cRes = "ok"
    /\ in.cmd = CmdUDPAssociate
    /\ ~closed
    /\ closed' = TRUE
    /\ UNCHANGED <<in, c2s, s2c, aborted, clientVars, serverVars>>

-----------------------------------------------------------------------------
(***************************************************************************)
(* Server.                                                                 *)
(***************************************************************************)

\* The method selection message has been checked: write VER, METHOD and
\* go on, or VER, X'FF' and fail.
MethodReply(buf, found) ==
    /\ sPc' = IF ~found THEN "done"
              ELSE IF in.serverMethod = MethodUsernamePassword THEN "auth"
              ELSE "request"
    /\ IF found
       THEN /\ b' = [buf EXCEPT ![1] = in.serverMethod]
            /\ s2c' = s2c \o <<buf[0], in.serverMethod>>
            /\ UNCHANGED <<sRes, closed>>
       ELSE /\ b' = [buf EXCEPT ![1] = MethodNoAcceptable]
            /\ s2c' = s2c \o <<buf[0], MethodNoAcceptable>>
            /\ sRes' = "noAcceptable"
            /\ closed' = TRUE

\* serverHandleMethodSelection reads VER, NMETHODS and the first METHOD.
ServerMethodSelection ==
    /\ sPc = "method"
    /\ Len(c2s) >= 3
    /\ c2s' = Rest(c2s, 3)
    /\ LET buf == Fill(b, 0, Take(c2s, 3)) IN
       CASE buf[0] # Version -> SFail("version") /\ b' = buf
                                               /\ UNCHANGED s2c
         [] buf[1] = 0 -> SFail("zeroNMETHODS") /\ b' = buf
                                               /\ UNCHANGED s2c
         [] buf[1] = 1 -> MethodReply(buf, buf[2] = in.serverMethod)
         [] OTHER -> /\ b' = buf
                     /\ sPc' = "methodRest"
                     /\ UNCHANGED <<s2c, sRes, closed>>
    /\ UNCHANGED <<in, aborted, clientVars, sUser, sPlen, sStatus, sAddr>>

\* Mutation: the remaining METHODS are read as NMETHODS bytes.
ServerMethodRestAll ==
    /\ sPc = "methodRest"
    /\ Len(c2s) >= b[1]
    /\ c2s' = Rest(c2s, b[1])
    /\ LET buf == Fill(b, 3, Take(c2s, b[1])) IN
       MethodReply(buf, \E i \in 2..(1 + b[1]) : buf[i] = in.serverMethod)
    /\ UNCHANGED <<in, aborted, clientVars, sUser, sPlen, sStatus, sAddr>>

\* NMETHODS > 1: read the other NMETHODS-1 methods into b[3:] and search
\* b[2:2+NMETHODS] for the method.
ServerMethodRest ==
    /\ sPc = "methodRest"
    /\ Len(c2s) >= b[1] - 1
    /\ c2s' = Rest(c2s, b[1] - 1)
    /\ LET buf == Fill(b, 3, Take(c2s, b[1] - 1)) IN
       MethodReply(buf, \E i \in 2..(1 + b[1]) : buf[i] = in.serverMethod)
    /\ UNCHANGED <<in, aborted, clientVars, sUser, sPlen, sStatus, sAddr>>

\* UNAME is complete in b[2:2+ULEN]: look it up, then check PLEN, the byte
\* after it.
LookupAndCheckPlen(buf) ==
    LET ulen  == buf[1]
        uname == Slice(buf, 2, ulen)
        plen  == buf[2 + ulen]
    IN
    /\ b' = buf
    /\ sUser' = IF \E u \in Users : u.username = uname
                THEN CHOOSE u \in Users : u.username = uname ELSE NoUser
    /\ IF plen = 0
       THEN SFail("zeroPLEN") /\ UNCHANGED sPlen
       ELSE /\ sPlen' = plen
            /\ sPc' = "authPasswd"
            /\ UNCHANGED <<sRes, closed>>

\* serverHandleUsernamePassword reads VER, ULEN and two more bytes (the
\* second is PLEN when ULEN is 1).
ServerAuth ==
    /\ sPc = "auth"
    /\ Len(c2s) >= 4
    /\ c2s' = Rest(c2s, 4)
    /\ LET buf == Fill(b, 0, Take(c2s, 4)) IN
       CASE buf[0] # UsernamePasswordAuthVersion ->
              SFail("upVersion") /\ b' = buf /\ UNCHANGED <<sUser, sPlen>>
         [] buf[1] = 0 ->
              SFail("zeroULEN") /\ b' = buf /\ UNCHANGED <<sUser, sPlen>>
         [] buf[1] > 1 -> /\ b' = buf
                          /\ sPc' = "authUname"
                          /\ UNCHANGED <<sRes, closed, sUser, sPlen>>
         [] OTHER -> LookupAndCheckPlen(buf)
    /\ UNCHANGED <<in, s2c, aborted, clientVars, sStatus, sAddr>>

\* Read the remaining ULEN-1 bytes of UNAME and PLEN into b[4:].
ServerAuthUname ==
    /\ sPc = "authUname"
    /\ Len(c2s) >= b[1] - 1
    /\ c2s' = Rest(c2s, b[1] - 1)
    /\ LookupAndCheckPlen(Fill(b, 4, Take(c2s, b[1] - 1)))
    /\ UNCHANGED <<in, s2c, aborted, clientVars, sStatus, sAddr>>

\* Mutation: the username is looked up only after PASSWD was read over
\* it.
ServerAuthPasswdLateLookup ==
    /\ sPc = "authPasswd"
    /\ Len(c2s) >= sPlen
    /\ c2s' = Rest(c2s, sPlen)
    /\ LET buf    == Fill(b, 2, Take(c2s, sPlen))
           uname  == Slice(buf, 2, buf[1])
           passwd == Slice(buf, 2, sPlen)
           status == IF \E u \in Users : u.username = uname
                                         /\ u.password = passwd
                     THEN 0 ELSE 1
       IN /\ b' = [buf EXCEPT ![1] = status]
          /\ s2c' = s2c \o <<buf[0], status>>
          /\ sStatus' = status
          /\ IF status # 0 THEN SFail("credentials")
             ELSE sPc' = "request" /\ UNCHANGED <<sRes, closed>>
    /\ UNCHANGED <<in, aborted, clientVars, sUser, sPlen, sAddr>>

\* Read PASSWD into b[2:2+PLEN], over UNAME; compare it with the password
\* of the user looked up before; write VER, STATUS.
ServerAuthPasswd ==
    /\ sPc = "authPasswd"
    /\ Len(c2s) >= sPlen
    /\ c2s' = Rest(c2s, sPlen)
    /\ LET buf    == Fill(b, 2, Take(c2s, sPlen))
           passwd == Slice(buf, 2, sPlen)
           status == IF sUser = NoUser \/ passwd # sUser.password
                     THEN 1 ELSE 0
       IN /\ b' = [buf EXCEPT ![1] = status]
          /\ s2c' = s2c \o <<buf[0], status>>
          /\ sStatus' = status
          /\ IF status # 0 THEN SFail("credentials")
             ELSE sPc' = "request" /\ UNCHANGED <<sRes, closed>>
    /\ UNCHANGED <<in, aborted, clientVars, sUser, sPlen, sAddr>>

\* serverHandleRequest reads VER, CMD, RSV, ATYP and the first address
\* byte; AppendFromReader gets ATYP and that byte back from the prefixed
\* reader and fails at once on an unknown ATYP or an empty domain.
ServerRequest ==
    /\ sPc = "request"
    /\ Len(c2s) >= 5
    /\ c2s' = Rest(c2s, 5)
    /\ LET buf == Fill(b, 0, Take(c2s, 5))
           n   == AddrRestLen(buf[3], buf[4])
       IN /\ b' = buf
          /\ IF buf[0] # Version THEN SFail("version")
             ELSE IF n < 0 THEN SFail(AddrError(n))
             ELSE sPc' = "requestAddr" /\ UNCHANGED <<sRes, closed>>
    /\ UNCHANGED <<in, s2c, aborted, clientVars, sUser, sPlen, sStatus,
                   sAddr>>

\* The rest of the address comes from the stream; then dispatch on CMD.
ServerRequestAddr ==
    /\ sPc = "requestAddr"
    /\ Len(c2s) >= AddrRestLen(b[3], b[4])
    /\ LET n    == AddrRestLen(b[3], b[4])
           addr == <<b[3], b[4]>> \o Take(c2s, n)
           cmd  == b[1]
       IN
       /\ c2s' = Rest(c2s, n)
       /\ sAddr' = addr
       /\ CASE cmd = CmdConnect /\ in.enableTCP ->
                 /\ s2c' = s2c \o StatusReply(ReplySucceeded)
                 /\ sPc' = "done"
                 /\ sRes' = "ok"
                 /\ UNCHANGED closed
            [] cmd = CmdUDPAssociate /\ in.enableUDP /\ ~in.isTCPConn ->
                 SFail("requiresTCP") /\ UNCHANGED s2c
            [] cmd = CmdUDPAssociate /\ in.enableUDP ->
                 /\ s2c' = s2c \o (<<Version, ReplySucceeded, 0>> \o LocalAddr)
                 /\ sPc' = "hold"
                 /\ UNCHANGED <<sRes, closed>>
            [] OTHER ->
                 /\ s2c' = s2c \o StatusReply(ReplyCommandNotSupported)
                 /\ SFail("command")
    /\ UNCHANGED <<in, aborted, clientVars, b, sUser, sPlen, sStatus>>

\* UDP ASSOCIATE holds the connection with one Read of a byte; a byte,
\* EOF or an error all end it with ErrUDPAssociateDone.
ServerHold ==
    /\ sPc = "hold"
    /\ c2s # <<>> \/ closed
    /\ c2s' = IF c2s # <<>> THEN Tail(c2s) ELSE c2s
    /\ sPc' = "done"
    /\ sRes' = "udpAssociateDone"
    /\ UNCHANGED <<in, s2c, closed, aborted, clientVars, b, sUser, sPlen,
                   sStatus, sAddr>>

\* How many bytes the server's pending io.ReadFull waits for.
ServerWant ==
    CASE sPc = "method" -> 3
      [] sPc \in {"methodRest", "authUname"} -> b[1] - 1
      [] sPc = "auth" -> 4
      [] sPc = "authPasswd" -> sPlen
      [] sPc = "request" -> 5
      [] sPc = "requestAddr" -> AddrRestLen(b[3], b[4])
      [] OTHER -> 0

\* The connection was closed before the bytes arrived.
ServerReadFails ==
    /\ sPc \in {"method", "methodRest", "auth", "authUname", "authPasswd",
                "request", "requestAddr"}
    /\ closed
    /\ Len(c2s) < ServerWant
    /\ sPc' = "done"
    /\ sRes' = "EOF"
    /\ UNCHANGED <<in, c2s, s2c, closed, aborted, clientVars, b, sUser,
                   sPlen, sStatus, sAddr>>

-----------------------------------------------------------------------------
ClientStep ==
    \/ ClientGreet \/ ClientNegReply \/ ClientAuthReply \/ ClientReqReply
    \/ ClientReqAddr \/ ClientReadFails

ServerStep ==
    \/ ServerMethodSelection \/ ServerMethodRest \/ ServerAuth
    \/ ServerAuthUname \/ ServerAuthPasswd \/ ServerRequest
    \/ ServerRequestAddr \/ ServerHold \/ ServerReadFails

Next == ClientStep \/ ServerStep \/ ClientAbort \/ ClientEndsAssociation

Spec == Init /\ [][Next]_vars

\* Both goroutines keep running and TCP delivers what was written; the
\* callers' closes (ClientAbort, ClientEndsAssociation) are not assumed.
FairSpec == Spec /\ WF_vars(ClientStep) /\ WF_vars(ServerStep)

-----------------------------------------------------------------------------
ServerAccepted == sRes \in {"ok", "udpAssociateDone"} \/ sPc = "hold"

\* When the client's handshake returns without its caller cutting it
\* short and the server has returned or holds the association, both agree
\* whether the request was accepted; if so the server returns the target
\* the client asked for and has consumed exactly the client's bytes, and
\* the client returns the bound address the server sent.
HandshakeAgreement ==
    cPc = "done" /\ ~aborted /\ (sPc = "done" \/ sPc = "hold") =>
        /\ cRes = "ok" <=> ServerAccepted
        /\ cRes = "ok" =>
             /\ sAddr = in.target
             /\ cBound = IF in.cmd = CmdConnect THEN IPv4UnspecifiedAddr
                         ELSE LocalAddr
             /\ sPc = "hold" => c2s = <<>>

\* The server's username/password check accepts exactly the pairs in
\* userInfoByUsername, although PASSWD is read over UNAME.
CredentialsChecked ==
    sStatus # -1 =>
        (sStatus = 0 <=> \E u \in Users : u.username = in.cred.username
                                          /\ u.password = in.cred.password)

\* Every handshake ends: both sides return (the server may hold a UDP
\* association open), never both waiting on each other.
HandshakeTerminates ==
    <>(cPc = "done" /\ (sPc = "done" \/ sPc = "hold"))

\* The specification (section 8, boundary behaviours): a greeting with
\* NMETHODS = 0 makes the server return zero-nmethods without a reply.
ZeroNMethodsRejected ==
    in.empty ~> sRes = "zeroNMETHODS"

=============================================================================
