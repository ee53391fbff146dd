---------------------------- MODULE MCConfigMgr -----------------------------
(***************************************************************************)
(* The configuration manager with two clients, two keys and two slots.  A  *)
(* behaviour is either about serving, with more requests and the daemon    *)
(* running all the time, or about all of it, with fewer.                   *)
(*                                                                         *)
(* Of the values one has a '#' in it and one a quote.  Clients are         *)
(* interchangeable, and so are the ids but for the invalid one.            *)
(***************************************************************************)
EXTENDS ConfigMgr, TLC

CONSTANTS c1, c2, k1, k2, plain, hash, hashless, quote, i0, i1, i2, i3,
          MaxRequestsAll        \* bound: requests when the daemon may stop

VARIABLE part                   \* "serve" or "all", for a whole behaviour

MCAsRead == [v \in {plain, hash, hashless, quote, Junk} |-> IF v = hash THEN hashless ELSE v]

MCInitFiles == {NoFile, <<Line(k1, plain), Line(k2, plain)>>}

MCInit == /\ Init
          /\ part \in {"serve", "all"}
          /\ part = "serve" => backend = "file" /\ disk.conf # NoFile

MCNext == /\ \/ part = "serve" /\ (Serve \/ Tick \/ Start)
             \/ part = "all" /\ Next /\ spent'.requests <= MaxRequestsAll
          /\ UNCHANGED part

MCSpec == MCInit /\ [][MCNext]_<<vars, part>>

Symmetry == Permutations(Clients) \cup Permutations(Ids \ {InvalidId})

=============================================================================
