------------------------------ MODULE MCDcKeys ------------------------------
(* Model checking of DcKeys: symmetric key identities. *)
EXTENDS DcKeys, TLC

KeySymmetry == Permutations(TemporaryKeys) \cup Permutations(PersistentKeys)

\* What the server remembers of keys nobody refers to does not matter.
KnownKeys == <<dead \cap (UsedTemporary \cup UsedPersistent),
               [t \in UsedTemporary \ {NoKey} |-> <<boundTo[t], madeAt[t]>>]>>
UsedView == <<dcVars, mainVars, phase, myKeyCreation, priv, pending, KnownKeys>>
=============================================================================
