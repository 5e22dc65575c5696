-------------------------- MODULE MCKnowledgeGraph --------------------------
(***************************************************************************)
(* A small instance of KnowledgeGraph: two spellings of one vendor, one of *)
(* another, and a transaction whose vendor name is blank.                  *)
(***************************************************************************)
EXTENDS KnowledgeGraph, TLC

MCVendorName == ("t1" :> "ACME" @@ "t2" :> "acme" @@ "t3" :> "bolt" @@ "t4" :> "  ")
MCTransaction == DOMAIN MCVendorName
MCSpelling == {"", "ACME", "acme", "bolt", "  "}
MCBlank == {"", "  "}
MCNormalize == ("ACME" :> "acme" @@ "acme" :> "acme" @@ "bolt" :> "bolt" @@ "  " :> "" @@ "" :> "")
=============================================================================
