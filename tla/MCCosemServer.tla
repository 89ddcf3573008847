--------------------------- MODULE MCCosemServer ---------------------------
(***************************************************************************)
(* Small instance of CosemServer for TLC.                                  *)
(***************************************************************************)
EXTENDS CosemServer, FiniteSets

\* Blocks: the password of the associations, a client challenge, the bytes the
\* server draws.
MCBlocks   == {"zero", "pwd", "cli", "srv"}
MCPassword == [a \in Assos |-> "pwd"]
MCDraws    == {[size |-> 64, head |-> "srv", tail |-> "srv"]}

Value(n, b) == [size |-> n, head |-> b, tail |-> b]

\* What a client puts before and after the authentication fields.
Front   == << Hdr("APP_CONTEXT"), Oid("OID", 1, 1) >>
UserInf == << Hdr("USER_INFO") >>
Trailer == << Hdr("OTHER") >>
Auth(mech, v) == << Hdr("ACSE_REQU"), Oid("MECHANISM", 2, mech), Bytes("CALLING_AUTH", v) >>

\* No mechanism, with and without bytes after the user information; a password,
\* right, wrong and left out; a challenge; a mechanism the server does not manage; an
\* APDU that ends after the mechanism; an unknown application context.
MCAarqs ==
    { Front \o UserInf,
      Front \o UserInf \o Trailer,
      Front \o Auth(LLS, Value(8, "pwd")) \o UserInf \o Trailer,
      Front \o Auth(LLS, Value(8, "cli")) \o UserInf \o Trailer,
      Front \o << Hdr("ACSE_REQU"), Oid("MECHANISM", 2, LLS) >> \o UserInf \o Trailer,
      Front \o Auth(GMAC, Value(64, "cli")) \o UserInf \o Trailer,
      Front \o Auth(4, Value(8, "cli")) \o UserInf \o Trailer,
      Front \o << Oid("MECHANISM", 2, GMAC) >>,
      << Hdr("APP_CONTEXT"), Oid("OID", 1, 0) >> \o UserInf \o Trailer }

Svc(svc, type, obj, len) ==
    [svc |-> svc, type |-> type, invoke |-> 1, obj |-> obj, len |-> len]

MCPdus ==
    { Svc("GET", 1, "clock", "full"), Svc("GET", 2, "clock", "full"),
      Svc("SET", 1, "clock", "cut"),
      Svc("ACTION", 1, AssoObj, "full"), Svc("ACTION", 2, "clock", "cut"),
      Svc("ACTION", 1, "clock", "short") }

\* For the run with changing addresses: the two ways to be granted by a mechanism.
MCAarqsAuth ==
    { Front \o Auth(LLS, Value(8, "pwd")) \o UserInf \o Trailer,
      Front \o Auth(LLS, Value(8, "cli")) \o UserInf \o Trailer,
      Front \o Auth(GMAC, Value(8, "cli")) \o UserInf \o Trailer }

MCDraws8 == {Value(8, "srv")}

MCPdusFew == { Svc("ACTION", 1, AssoObj, "full") }
=============================================================================
