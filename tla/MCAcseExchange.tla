---------------------------- MODULE MCAcseExchange ----------------------------
(***************************************************************************)
(* Small instances of AcseExchange for TLC.                                *)
(***************************************************************************)
EXTENDS AcseExchange

MCBlocks == {"zero", "pwd", "badpwd", "cli", "srv", "title"}

Value(n, b) == [size |-> n, head |-> b, tail |-> b]

\* Challenges of the shortest and of the longest size.
MCDraws == {Value(8, "cli"), Value(64, "srv")}

\* Challenges of the shortest size only.
MCDraws8 == {Value(8, "cli"), Value(8, "srv")}

MCLevels == {LOWEST, LLS, GMAC, 4}

Trailer == << Hdr("OTHER") >>

NoTails  == {<< >>}
AnyTails == {<< >>, Trailer}

\* An AARQ without mechanism, one with an authentication value that is too
\* short, one without application context, one with an unknown one.
MCForeign ==
    { << Hdr("APP_CONTEXT"), Oid("OID", 1, 1), Hdr("USER_INFO") >> \o Trailer,
      << Hdr("APP_CONTEXT"), Oid("OID", 1, 1), Oid("MECHANISM", 2, GMAC),
         Bad("CALLING_AUTH"), Hdr("USER_INFO") >> \o Trailer,
      << Hdr("USER_INFO") >> \o Trailer,
      << Hdr("APP_CONTEXT"), Oid("OID", 1, 7), Hdr("USER_INFO") >> \o Trailer }

NoForeign == {}

=============================================================================
