---------------------------- MODULE MCProjection ----------------------------
(***************************************************************************)
(* Two accounts, 1 with slots 1 to 3 and 2 with slot 1.  Generation 1      *)
(* watches two slots of account 1, configured out of order and searched by *)
(* binary search, and account 2; generation 2 watches all of account 1     *)
(* through the hash index.                                                 *)
(***************************************************************************)
EXTENDS Projection

MCGenesis == <<<<1, 0, 1>>, <<1>>>>

Key(a, s) == [address |-> a, slot |-> s]

MCDictionaries ==
  <<<<Key(1, 3), Key(2, 1), Key(1, 1)>>, <<Key(1, 2), Key(1, 3), Key(1, 1)>>>>

\* What can become of an account whose entries are over slots.
Accounts(slots) ==
  [destroyed : BOOLEAN, storage : UNION {[S -> {0, 1}] : S \in SUBSET slots}]

\* Any block that touches account 1, or both accounts.
Wide ==
  {<<x>> : x \in Accounts(1 .. 3)}
  \cup {<<x, y>> : x \in {z \in Accounts({1, 2}) : Cardinality(DOMAIN z.storage) <= 1},
                   y \in Accounts({1})}

\* A write, a destruction, a touched but unchanged account.
Narrow ==
  {<<[destroyed |-> FALSE, storage |-> [s \in {3} |-> 0]]>>,
   <<[destroyed |-> TRUE, storage |-> [s \in {1} |-> 1]]>>}

MCBundles == <<Wide, Narrow>>
=============================================================================
