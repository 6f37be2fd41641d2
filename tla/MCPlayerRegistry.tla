--------------------------- MODULE MCPlayerRegistry ---------------------------
(* Instances of PlayerRegistry for TLC. *)
EXTENDS PlayerRegistry, TLC

\* Two spellings of one name, and another name.
MCNormal == ("Ana" :> "ana") @@ ("ANA" :> "ana") @@ ("Budi" :> "budi")

\* Registrations with and without a tier, one under another canonical name,
\* sessions that list their players in different orders, and renames to a name
\* that is free, taken, or another spelling.
MCRequests ==
  {Register("Ana", "Ana", None), Register("ANA", "ANA", "C"), Register("Ana", "Budi", None),
   Publish(<<"Ana", "Budi">>, "B"), Publish(<<"Budi", "ANA">>, "C"),
   Rename(1, "Budi"), Rename(1, "ANA"), Rename(2, "Ana")}
=============================================================================
