----------------------------- MODULE MCIdentity -----------------------------
(***************************************************************************)
(* Small instances of Identity: one address typed in two ways and one that *)
(* is nothing but blanks; a short password and long ones that begin alike. *)
(***************************************************************************)
EXTENDS Identity, FiniteSets, TLC

CONSTANTS short, long, longer

MCLower == ("A@x" :> "a@x" @@ "a@x" :> "a@x" @@ "   " :> "")

MCAddress == DOMAIN MCLower

MCHashed == [p \in Password |-> IF p = short THEN "short" ELSE "72 bytes"]

Symmetry ==
    Permutations(Request) \cup Permutations(Connection) \cup Permutations(EntraSubject)
        \cup Permutations(Password \ {short})

----------------------------------------------------------------------------
(***************************************************************************)
(* The run keeps to one of two instances.                                  *)
(***************************************************************************)
Used(field) == {requests[r][field] : r \in Request} \ {None}

\* The keys rotate under people of one identity of Entra ID, who need no password.
KeysRotate ==
    /\ Used("password") = {}
    /\ Cardinality(Used("subject")) <= 1

\* Any people with any passwords, and one key.
OneKey == published \subseteq {1} /\ \A r \in Request : lookups[r].kid \in {None, 1}

Bounds == KeysRotate \/ OneKey
=============================================================================
